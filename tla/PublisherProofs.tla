--------------------------- MODULE PublisherProofs ----------------------------
(***************************************************************************)
(* Proofs about SeedPublish, for every set of jobs and executions and      *)
(* every bound on the faults, and about TerminalChain, for every set of    *)
(* jobs, receipts, local directories, fetches and finalizers, every update *)
(* target and ceiling, and every number of restarts.                       *)
(***************************************************************************)
EXTENDS SeedPublish, TerminalChain, TLAPS

(* SeedPublish. *)

(* The control states in which an execution owns its job's work directory. *)
Working == {"run", "manifest", "complete", "destination", "claim", "recheck", "rename"}

(* What ties an execution to its job and to the job's work directory. *)
ExecInv ==
  /\ \A e \in Execs : pc[e] # "idle" => job[e] \in Jobs
  /\ \A e \in Execs : pc[e] \in Working => work[job[e]] # "absent"
  /\ \A e, o \in Execs :
       pc[e] \in Working /\ pc[o] \in Working /\ job[e] = job[o] => e = o
  /\ \A e \in Execs :
       pc[e] \in {"destination", "claim", "recheck", "rename"}
         => work[job[e]] = "complete"

(* What Slurm believes of a job agrees with the execution it refers to. *)
SchedInv ==
  \A j \in Jobs :
    /\ runs[j] # NoExec => pc[runs[j]] # "idle" /\ job[runs[j]] = j
    /\ runs[j] # NoExec <=> acct[j] = "running"

(* The claim decides who renames, and outlives the rename. *)
ClaimInv ==
  /\ \A e \in Execs : pc[e] \in {"recheck", "rename"} => claim = job[e]
  /\ \A e \in Execs : pc[e] = "rename" => final = NoJob
  /\ \A e \in Execs : pc[e] = "exit" => final = job[e]
  /\ sealed <=> final # NoJob

PublishInv ==
  /\ TypeOK
  /\ ExecInv
  /\ SchedInv
  /\ ClaimInv
  /\ BlockIsSealed
  /\ CompletedIsPublished

-------------------------------------------------------------------------------
(* The state before any job has started satisfies the invariant. *)
LEMMA InitStep ==
  ASSUME Init
  PROVE  PublishInv
BY NullAssumption
DEF Init, PublishInv, TypeOK, Stages, States, ExecInv, Working, SchedInv, ClaimInv,
    BlockIsSealed, CompletedIsPublished

(* Every step keeps the invariant. *)
LEMMA InductiveStep ==
  ASSUME PublishInv, [Next]_vars
  PROVE  PublishInv'
<1> USE NullAssumption DEF Goto, execVars, fileVars
<1>1. ASSUME NEW e \in Execs, NEW j \in Jobs, Start(e, j) PROVE PublishInv'
  <2>1. TypeOK'
    BY <1>1 DEF Start, PublishInv, TypeOK, States
  <2>2. ExecInv'
    BY <1>1 DEF Start, PublishInv, TypeOK, ExecInv, Working
  <2>3. SchedInv'
    BY <1>1 DEF Start, PublishInv, TypeOK, ExecInv, SchedInv
  <2>4. (ClaimInv /\ BlockIsSealed /\ CompletedIsPublished)'
    BY <1>1 DEF Start, PublishInv, TypeOK, ExecInv, ClaimInv, BlockIsSealed,
       CompletedIsPublished, SchedInv, Working
  <2>5. QED
    BY <2>1, <2>2, <2>3, <2>4 DEF PublishInv
<1>2. ASSUME NEW e \in Execs, CheckFinal(e) PROVE PublishInv'
  <2>1. TypeOK'
    BY <1>2 DEF CheckFinal, SeesNoBlock, PublishInv, TypeOK, States
  <2>2. ExecInv'
    BY <1>2 DEF CheckFinal, SeesNoBlock, PublishInv, TypeOK, ExecInv, Working
  <2>3. SchedInv'
    BY <1>2 DEF CheckFinal, SeesNoBlock, PublishInv, TypeOK, ExecInv, SchedInv
  <2>4. (ClaimInv /\ BlockIsSealed /\ CompletedIsPublished)'
    BY <1>2 DEF CheckFinal, SeesNoBlock, PublishInv, TypeOK, ExecInv, ClaimInv,
       BlockIsSealed, CompletedIsPublished, SchedInv, Working
  <2>5. QED
    BY <2>1, <2>2, <2>3, <2>4 DEF PublishInv
<1>3. ASSUME NEW e \in Execs, MakeWork(e) PROVE PublishInv'
  <2>1. TypeOK'
    BY <1>3 DEF MakeWork, PublishInv, TypeOK, States, Stages
  <2>2. ExecInv'
    BY <1>3 DEF MakeWork, PublishInv, TypeOK, ExecInv, Working
  <2>3. SchedInv'
    BY <1>3 DEF MakeWork, PublishInv, TypeOK, ExecInv, SchedInv
  <2>4. (ClaimInv /\ BlockIsSealed /\ CompletedIsPublished)'
    BY <1>3 DEF MakeWork, PublishInv, TypeOK, ExecInv, ClaimInv, BlockIsSealed,
       CompletedIsPublished, SchedInv, Working
  <2>5. QED
    BY <2>1, <2>2, <2>3, <2>4 DEF PublishInv
<1>4. ASSUME NEW e \in Execs, Run(e) PROVE PublishInv'
  <2>1. TypeOK'
    BY <1>4 DEF Run, Extends, PublishInv, TypeOK, States, Stages
  <2>2. ExecInv'
    BY <1>4 DEF Run, Extends, PublishInv, TypeOK, ExecInv, Working
  <2>3. SchedInv'
    BY <1>4 DEF Run, Extends, PublishInv, TypeOK, ExecInv, SchedInv
  <2>4. (ClaimInv /\ BlockIsSealed /\ CompletedIsPublished)'
    BY <1>4 DEF Run, Extends, PublishInv, TypeOK, ExecInv, ClaimInv, BlockIsSealed,
       CompletedIsPublished, SchedInv, Working
  <2>5. QED
    BY <2>1, <2>2, <2>3, <2>4 DEF PublishInv
<1>5. ASSUME NEW e \in Execs, Manifest(e) PROVE PublishInv'
  <2>1. TypeOK'
    BY <1>5 DEF Manifest, Extends, PublishInv, TypeOK, States, Stages
  <2>2. ExecInv'
    BY <1>5 DEF Manifest, Extends, PublishInv, TypeOK, ExecInv, Working
  <2>3. SchedInv'
    BY <1>5 DEF Manifest, Extends, PublishInv, TypeOK, ExecInv, SchedInv
  <2>4. (ClaimInv /\ BlockIsSealed /\ CompletedIsPublished)'
    BY <1>5 DEF Manifest, Extends, PublishInv, TypeOK, ExecInv, ClaimInv,
       BlockIsSealed, CompletedIsPublished, SchedInv, Working
  <2>5. QED
    BY <2>1, <2>2, <2>3, <2>4 DEF PublishInv
<1>6. ASSUME NEW e \in Execs, MarkComplete(e) PROVE PublishInv'
  <2>1. TypeOK'
    BY <1>6 DEF MarkComplete, Extends, PublishInv, TypeOK, States, Stages
  <2>2. ExecInv'
    BY <1>6 DEF MarkComplete, Extends, PublishInv, TypeOK, ExecInv, Working
  <2>3. SchedInv'
    BY <1>6 DEF MarkComplete, Extends, PublishInv, TypeOK, ExecInv, SchedInv
  <2>4. (ClaimInv /\ BlockIsSealed /\ CompletedIsPublished)'
    BY <1>6 DEF MarkComplete, Extends, PublishInv, TypeOK, ExecInv, ClaimInv,
       BlockIsSealed, CompletedIsPublished, SchedInv, Working
  <2>5. QED
    BY <2>1, <2>2, <2>3, <2>4 DEF PublishInv
<1>7. ASSUME NEW e \in Execs, CheckDest(e) PROVE PublishInv'
  <2>1. TypeOK'
    BY <1>7 DEF CheckDest, SeesNoBlock, PublishInv, TypeOK, States
  <2>2. ExecInv'
    BY <1>7 DEF CheckDest, SeesNoBlock, PublishInv, TypeOK, ExecInv, Working
  <2>3. SchedInv'
    BY <1>7 DEF CheckDest, SeesNoBlock, PublishInv, TypeOK, ExecInv, SchedInv
  <2>4. (ClaimInv /\ BlockIsSealed /\ CompletedIsPublished)'
    BY <1>7 DEF CheckDest, SeesNoBlock, PublishInv, TypeOK, ExecInv, ClaimInv,
       BlockIsSealed, CompletedIsPublished, SchedInv, Working
  <2>5. QED
    BY <2>1, <2>2, <2>3, <2>4 DEF PublishInv
<1>8. ASSUME NEW e \in Execs, TakeClaim(e) PROVE PublishInv'
  <2>1. TypeOK'
    BY <1>8 DEF TakeClaim, PublishInv, TypeOK, States, ExecInv
  <2>2. ExecInv'
    BY <1>8 DEF TakeClaim, PublishInv, TypeOK, ExecInv, Working
  <2>3. SchedInv'
    BY <1>8 DEF TakeClaim, PublishInv, TypeOK, ExecInv, SchedInv
  <2>4. (ClaimInv /\ BlockIsSealed /\ CompletedIsPublished)'
    BY <1>8 DEF TakeClaim, PublishInv, TypeOK, ExecInv, ClaimInv, BlockIsSealed,
       CompletedIsPublished, SchedInv, Working
  <2>5. QED
    BY <2>1, <2>2, <2>3, <2>4 DEF PublishInv
<1>9. ASSUME NEW e \in Execs, RecheckDest(e) PROVE PublishInv'
  <2>1. TypeOK'
    BY <1>9 DEF RecheckDest, SeesNoBlock, PublishInv, TypeOK, States
  <2>2. ExecInv'
    BY <1>9 DEF RecheckDest, SeesNoBlock, PublishInv, TypeOK, ExecInv, Working
  <2>3. SchedInv'
    BY <1>9 DEF RecheckDest, SeesNoBlock, PublishInv, TypeOK, ExecInv, SchedInv
  <2>4. (ClaimInv /\ BlockIsSealed /\ CompletedIsPublished)'
    BY <1>9 DEF RecheckDest, SeesNoBlock, PublishInv, TypeOK, ExecInv, ClaimInv,
       BlockIsSealed, CompletedIsPublished, SchedInv, Working
  <2>5. QED
    BY <2>1, <2>2, <2>3, <2>4 DEF PublishInv
<1>10. ASSUME NEW e \in Execs, Rename(e) PROVE PublishInv'
  <2>1. TypeOK'
    BY <1>10 DEF Rename, PublishInv, TypeOK, States, Stages, ExecInv
  <2>2. ExecInv'
    BY <1>10 DEF Rename, PublishInv, TypeOK, ExecInv, Working
  <2>3. SchedInv'
    BY <1>10 DEF Rename, PublishInv, TypeOK, ExecInv, SchedInv
  <2>4. (ClaimInv /\ BlockIsSealed /\ CompletedIsPublished)'
    <3>1. /\ job[e] \in Jobs /\ claim = job[e] /\ work[job[e]] = "complete"
          /\ final = NoJob /\ ~sealed
      BY <1>10 DEF Rename, PublishInv, ExecInv, Working, ClaimInv
    <3>2. final' = job[e] /\ sealed' = TRUE /\ pc' = [pc EXCEPT ![e] = "exit"]
      BY <1>10, <3>1 DEF Rename
    <3>3. \A o \in Execs : pc'[o] \in {"recheck", "rename", "exit"} =>
            job[o] = job[e] /\ (o = e \/ pc'[o] = "recheck")
      BY <3>1, <3>2, <1>10 DEF Rename, PublishInv, TypeOK, ExecInv, ClaimInv, Working
    <3>4. ClaimInv'
      BY <1>10, <3>1, <3>2, <3>3 DEF Rename, PublishInv, TypeOK, ClaimInv
    <3>5. (BlockIsSealed /\ CompletedIsPublished)'
      BY <1>10, <3>1, <3>2 DEF Rename, PublishInv, BlockIsSealed, CompletedIsPublished
    <3>6. QED
      BY <3>4, <3>5
  <2>5. QED
    BY <2>1, <2>2, <2>3, <2>4 DEF PublishInv
<1>11. ASSUME NEW e \in Execs, Exit(e) PROVE PublishInv'
  <2>1. TypeOK'
    BY <1>11 DEF Exit, Ends, PublishInv, TypeOK, States
  <2>2. ExecInv'
    BY <1>11 DEF Exit, Ends, PublishInv, TypeOK, ExecInv, Working
  <2>3. SchedInv'
    BY <1>11 DEF Exit, Ends, PublishInv, TypeOK, ExecInv, SchedInv
  <2>4. (ClaimInv /\ BlockIsSealed /\ CompletedIsPublished)'
    BY <1>11 DEF Exit, Ends, PublishInv, TypeOK, ExecInv, ClaimInv, BlockIsSealed,
       CompletedIsPublished, SchedInv, Working
  <2>5. QED
    BY <2>1, <2>2, <2>3, <2>4 DEF PublishInv
<1>12. ASSUME NEW e \in Execs, RefuseBlock(e) PROVE PublishInv'
  <2>1. TypeOK'
    BY <1>12 DEF RefuseBlock, Refuses, Ends, PublishInv, TypeOK, States
  <2>2. ExecInv'
    BY <1>12 DEF RefuseBlock, Refuses, Ends, PublishInv, TypeOK, ExecInv, Working
  <2>3. SchedInv'
    BY <1>12 DEF RefuseBlock, Refuses, Ends, PublishInv, TypeOK, ExecInv, SchedInv
  <2>4. (ClaimInv /\ BlockIsSealed /\ CompletedIsPublished)'
    BY <1>12 DEF RefuseBlock, Refuses, Ends, PublishInv, TypeOK, ExecInv, ClaimInv,
       BlockIsSealed, CompletedIsPublished, SchedInv, Working
  <2>5. QED
    BY <2>1, <2>2, <2>3, <2>4 DEF PublishInv
<1>13. ASSUME NEW e \in Execs, RefuseWork(e) PROVE PublishInv'
  <2>1. TypeOK'
    BY <1>13 DEF RefuseWork, Refuses, Ends, PublishInv, TypeOK, States
  <2>2. ExecInv'
    BY <1>13 DEF RefuseWork, Refuses, Ends, PublishInv, TypeOK, ExecInv, Working
  <2>3. SchedInv'
    BY <1>13 DEF RefuseWork, Refuses, Ends, PublishInv, TypeOK, ExecInv, SchedInv
  <2>4. (ClaimInv /\ BlockIsSealed /\ CompletedIsPublished)'
    BY <1>13 DEF RefuseWork, Refuses, Ends, PublishInv, TypeOK, ExecInv, ClaimInv,
       BlockIsSealed, CompletedIsPublished, SchedInv, Working
  <2>5. QED
    BY <2>1, <2>2, <2>3, <2>4 DEF PublishInv
<1>14. ASSUME NEW e \in Execs, Fails(e) PROVE PublishInv'
  <2>1. TypeOK'
    BY <1>14 DEF Fails, Refuses, Ends, PublishInv, TypeOK, States
  <2>2. ExecInv'
    BY <1>14 DEF Fails, Refuses, Ends, PublishInv, TypeOK, ExecInv, Working
  <2>3. SchedInv'
    BY <1>14 DEF Fails, Refuses, Ends, PublishInv, TypeOK, ExecInv, SchedInv
  <2>4. (ClaimInv /\ BlockIsSealed /\ CompletedIsPublished)'
    BY <1>14 DEF Fails, Refuses, Ends, PublishInv, TypeOK, ExecInv, ClaimInv,
       BlockIsSealed, CompletedIsPublished, SchedInv, Working
  <2>5. QED
    BY <2>1, <2>2, <2>3, <2>4 DEF PublishInv
<1>15. ASSUME NEW e \in Execs, RefuseClaim(e) PROVE PublishInv'
  <2>1. TypeOK'
    BY <1>15 DEF RefuseClaim, Refuses, Ends, PublishInv, TypeOK, States
  <2>2. ExecInv'
    BY <1>15 DEF RefuseClaim, Refuses, Ends, PublishInv, TypeOK, ExecInv, Working
  <2>3. SchedInv'
    BY <1>15 DEF RefuseClaim, Refuses, Ends, PublishInv, TypeOK, ExecInv, SchedInv
  <2>4. (ClaimInv /\ BlockIsSealed /\ CompletedIsPublished)'
    BY <1>15 DEF RefuseClaim, Refuses, Ends, PublishInv, TypeOK, ExecInv, ClaimInv,
       BlockIsSealed, CompletedIsPublished, SchedInv, Working
  <2>5. QED
    BY <2>1, <2>2, <2>3, <2>4 DEF PublishInv
<1>16. ASSUME NEW e \in Execs, Kill(e) PROVE PublishInv'
  <2>1. TypeOK'
    BY <1>16 DEF Kill, Ends, Fault, PublishInv, TypeOK, States
  <2>2. ExecInv'
    BY <1>16 DEF Kill, Ends, Fault, PublishInv, TypeOK, ExecInv, Working
  <2>3. SchedInv'
    BY <1>16 DEF Kill, Ends, Fault, PublishInv, TypeOK, ExecInv, SchedInv
  <2>4. (ClaimInv /\ BlockIsSealed /\ CompletedIsPublished)'
    BY <1>16 DEF Kill, Ends, Fault, PublishInv, TypeOK, ExecInv, ClaimInv,
       BlockIsSealed, CompletedIsPublished, SchedInv, Working
  <2>5. QED
    BY <2>1, <2>2, <2>3, <2>4 DEF PublishInv
<1>17. ASSUME NEW j \in Jobs, Requeue(j) PROVE PublishInv'
  <2>1. TypeOK'
    BY <1>17 DEF Requeue, Fault, PublishInv, TypeOK, States
  <2>2. ExecInv'
    BY <1>17 DEF Requeue, Fault, PublishInv, TypeOK, ExecInv, Working
  <2>3. SchedInv'
    BY <1>17 DEF Requeue, Fault, PublishInv, TypeOK, ExecInv, SchedInv
  <2>4. (ClaimInv /\ BlockIsSealed /\ CompletedIsPublished)'
    BY <1>17 DEF Requeue, Fault, PublishInv, TypeOK, ExecInv, ClaimInv,
       BlockIsSealed, CompletedIsPublished, SchedInv, Working
  <2>5. QED
    BY <2>1, <2>2, <2>3, <2>4 DEF PublishInv
<1>18. ASSUME NEW j \in Jobs, Partition(j) PROVE PublishInv'
  <2>1. TypeOK'
    BY <1>18 DEF Partition, Fault, PublishInv, TypeOK, States
  <2>2. ExecInv'
    BY <1>18 DEF Partition, Fault, PublishInv, TypeOK, ExecInv, Working
  <2>3. SchedInv'
    BY <1>18 DEF Partition, Fault, PublishInv, TypeOK, ExecInv, SchedInv
  <2>4. (ClaimInv /\ BlockIsSealed /\ CompletedIsPublished)'
    BY <1>18 DEF Partition, Fault, PublishInv, TypeOK, ExecInv, ClaimInv,
       BlockIsSealed, CompletedIsPublished, SchedInv, Working
  <2>5. QED
    BY <2>1, <2>2, <2>3, <2>4 DEF PublishInv
<1>19. CASE UNCHANGED vars
  BY <1>19 DEF vars, PublishInv, TypeOK, ExecInv, SchedInv, ClaimInv, BlockIsSealed,
     CompletedIsPublished
<1> QED
  BY <1>1, <1>2, <1>3, <1>4, <1>5, <1>6, <1>7, <1>8, <1>9, <1>10, <1>11,
     <1>12, <1>13, <1>14, <1>15, <1>16, <1>17, <1>18, <1>19 DEF Next, Step

(* The invariant holds of every behaviour. *)
LEMMA Invariance == Spec => []PublishInv
<1>1. Init => PublishInv
  BY InitStep
<1>2. PublishInv /\ [Next]_vars => PublishInv'
  BY InductiveStep
<1>3. QED
  BY <1>1, <1>2, PTL DEF Spec

-------------------------------------------------------------------------------
(* Accounting, executions and the files of a block keep their types. *)
THEOREM TypeCorrect == Spec => []TypeOK
<1>1. PublishInv => TypeOK
  BY DEF PublishInv
<1>2. QED
  BY <1>1, Invariance, PTL

(***************************************************************************)
(* The canonical path never shows anything but the sealed block of the job *)
(* that owns the claim: the order COMPLETE, claim, rename.                 *)
(***************************************************************************)
THEOREM BlockIsSealedHolds == Spec => []BlockIsSealed
<1>1. PublishInv => BlockIsSealed
  BY DEF PublishInv
<1>2. QED
  BY <1>1, Invariance, PTL

(***************************************************************************)
(* The plain rename never meets an existing destination, because the work  *)
(* directory is exclusive to one execution of a job and the claim to one   *)
(* job.                                                                    *)
(***************************************************************************)
THEOREM RenameIsExclusiveHolds == Spec => []RenameIsExclusive
<1>1. PublishInv => RenameIsExclusive
  BY DEF PublishInv, ExecInv, Working, ClaimInv, RenameIsExclusive
<1>2. QED
  BY <1>1, Invariance, PTL

(* A job Slurm accounts COMPLETED has its own sealed block in place. *)
THEOREM CompletedIsPublishedHolds == Spec => []CompletedIsPublished
<1>1. PublishInv => CompletedIsPublished
  BY DEF PublishInv
<1>2. QED
  BY <1>1, Invariance, PTL

(* The steps that do not rename leave the canonical directory alone. *)
LEMMA OnlyRenameMovesTheBlock ==
  ASSUME [Next]_vars, \A e \in Execs : ~Rename(e)
  PROVE  UNCHANGED <<final, sealed>>
<1> USE DEF fileVars
<1>1. ASSUME NEW e \in Execs, Step(e) PROVE UNCHANGED <<final, sealed>>
  BY <1>1 DEF Step, CheckFinal, CheckDest, RecheckDest, SeesNoBlock, MakeWork, Run,
     Manifest, MarkComplete, Extends, TakeClaim, Exit, RefuseBlock, RefuseWork,
     Fails, RefuseClaim, Refuses
<1>2. ASSUME NEW e \in Execs, NEW j \in Jobs, Start(e, j)
      PROVE  UNCHANGED <<final, sealed>>
  BY <1>2 DEF Start
<1>3. ASSUME NEW e \in Execs, Kill(e) PROVE UNCHANGED <<final, sealed>>
  BY <1>3 DEF Kill
<1>4. ASSUME NEW j \in Jobs, Requeue(j) \/ Partition(j)
      PROVE  UNCHANGED <<final, sealed>>
  BY <1>4 DEF Requeue, Partition
<1>5. CASE UNCHANGED vars
  BY <1>5 DEF vars
<1> QED
  BY <1>1, <1>2, <1>3, <1>4, <1>5 DEF Next

(***************************************************************************)
(* Nothing the batch script or a fault does replaces or withdraws a        *)
(* published block.                                                        *)
(***************************************************************************)
THEOREM BlockIsFinalHolds == Spec => BlockIsFinal
<1>1. ASSUME PublishInv, [Next]_vars PROVE [final = NoJob]_final
  <2>1. ASSUME NEW e \in Execs, Rename(e) PROVE final = NoJob
    BY <1>1, <2>1 DEF Rename, Goto, PublishInv, ClaimInv
  <2>2. QED
    BY <1>1, <2>1, OnlyRenameMovesTheBlock
<1>2. QED
  BY <1>1, Invariance, PTL DEF Spec, BlockIsFinal

-------------------------------------------------------------------------------
(* Every step of the batch script is a step of EvidenceBlock, or none. *)
LEMMA StepRefines ==
  ASSUME PublishInv, PublishInv', [Next]_vars
  PROVE  [Promise!Next]_(Promise!vars)
<1> USE NullAssumption DEF Promise!vars, Promise!Next, Promise!Schedule,
        Promise!Publish, Promise!Complete, Goto, execVars, fileVars
<1>1. ASSUME NEW e \in Execs, NEW j \in Jobs, Start(e, j)
      PROVE  Promise!Schedule(j)
  BY <1>1 DEF Start, PublishInv, TypeOK
<1>2. ASSUME NEW e \in Execs, pc[e] # "idle", Ends(e, "failed"),
             UNCHANGED <<final, sealed>>
      PROVE  Promise!Schedule(job[e]) \/ UNCHANGED Promise!vars
  BY <1>2 DEF Ends, PublishInv, TypeOK, ExecInv, SchedInv
<1>3. ASSUME NEW e \in Execs, Refuses(e), pc[e] # "idle"
      PROVE  Promise!Schedule(job[e]) \/ UNCHANGED Promise!vars
  BY <1>2, <1>3 DEF Refuses
<1>4. ASSUME NEW e \in Execs, Exit(e)
      PROVE  Promise!Complete(job[e]) \/ UNCHANGED Promise!vars
  BY <1>4 DEF Exit, Ends, PublishInv, TypeOK, ExecInv, SchedInv, ClaimInv
<1>5. ASSUME NEW e \in Execs, Rename(e) PROVE Promise!Publish(job[e])
  <2>1. job[e] \in Jobs /\ work[job[e]] = "complete" /\ final = NoJob
    BY <1>5 DEF Rename, PublishInv, ExecInv, Working, ClaimInv
  <2>2. final' = job[e] /\ sealed' = TRUE /\ acct' = acct /\ sealed = FALSE
    BY <1>5, <2>1 DEF Rename, PublishInv, TypeOK, ClaimInv
  <2>3. QED
    BY <2>1, <2>2
<1>6. ASSUME NEW e \in Execs, Kill(e)
      PROVE  Promise!Schedule(job[e]) \/ UNCHANGED Promise!vars
  BY <1>2, <1>6 DEF Kill
<1>7. ASSUME NEW j \in Jobs, Requeue(j) \/ Partition(j) PROVE Promise!Schedule(j)
  BY <1>7 DEF Requeue, Partition, PublishInv, TypeOK, SchedInv
<1>8. ASSUME NEW e \in Execs,
             \/ CheckFinal(e) \/ CheckDest(e) \/ RecheckDest(e) \/ MakeWork(e)
             \/ Run(e) \/ Manifest(e) \/ MarkComplete(e) \/ TakeClaim(e)
      PROVE  UNCHANGED Promise!vars
  BY <1>8 DEF CheckFinal, CheckDest, RecheckDest, SeesNoBlock, MakeWork, Run, Manifest,
     MarkComplete, Extends, TakeClaim
<1>9. ASSUME NEW e \in Execs,
             RefuseBlock(e) \/ RefuseWork(e) \/ Fails(e) \/ RefuseClaim(e)
      PROVE  Refuses(e) /\ pc[e] # "idle"
  BY <1>9 DEF RefuseBlock, RefuseWork, Fails, RefuseClaim
<1>10. ASSUME NEW e \in Execs, pc[e] # "idle" PROVE job[e] \in Jobs
  BY <1>10 DEF PublishInv, ExecInv
<1>11. ASSUME NEW e \in Execs, Exit(e) \/ Rename(e) \/ Kill(e)
       PROVE  pc[e] # "idle"
  BY <1>11 DEF Exit, Rename, Kill
<1>12. CASE UNCHANGED vars
  BY <1>12 DEF vars
<1> HIDE DEF Promise!Schedule, Promise!Publish, Promise!Complete, Promise!vars
<1> QED
  BY <1>1, <1>3, <1>4, <1>5, <1>6, <1>7, <1>8, <1>9, <1>10, <1>11, <1>12
  DEF Next, Step

(***************************************************************************)
(* The batch script implements EvidenceBlock: whoever finalizes the ledger *)
(* may rely on the accounting and on the canonical directory alone.        *)
(***************************************************************************)
THEOREM ImplementsPromiseHolds == Spec => ImplementsPromise
<1>1. Init => Promise!Init
  BY DEF Init, Promise!Init
<1>2. PublishInv /\ PublishInv' /\ [Next]_vars => [Promise!Next]_(Promise!vars)
  BY StepRefines
<1>3. QED
  BY <1>1, <1>2, Invariance, PTL DEF Spec, ImplementsPromise, Promise!Spec

-------------------------------------------------------------------------------
(* TerminalChain. *)

(* A job runs while its script has a next step; what is published is the   *)
(* whole of one run of that job, and the exit finds the present run's.     *)
JobInv ==
  \A j \in ChainJobs :
    /\ jobState[j] = "running" <=> line[j] # "off"
    /\ finalDir[j] # None =>
         finalDir[j].job = j /\ finalDir[j].parts = AllParts /\ finalDir[j].run <= restarts[j]
    /\ line[j] = "exit" \/ jobState[j] = "completed" => finalDir[j] # None /\ finalDir[j].run = restarts[j]

(* The parts the steps of phase A have written by each step. *)
PartsInv ==
  \A j \in ChainJobs :
    /\ line[j] \in {"begin", "train", "seal", "sidecar", "postcheck", "evaluate", "write",
                  "integrity", "manifest", "publish"} => "inputs" \in parts[j]
    /\ line[j] \in {"sidecar", "postcheck", "evaluate", "write", "integrity", "manifest",
                  "publish"} => "training" \in parts[j]
    /\ line[j] \in {"postcheck", "evaluate", "write", "integrity", "manifest", "publish"}
         => "sidecar" \in parts[j]
    /\ line[j] \in {"integrity", "manifest", "publish"} => "evaluation" \in parts[j]
    /\ line[j] \in {"manifest", "publish"} => "integrity" \in parts[j]
    /\ line[j] = "publish" => "manifest" \in parts[j]

(* A receipt says what Slurm still says of its job. *)
ReceiptInv ==
  \A r \in Receipts : receipts[r] # None =>
    /\ jobState[receipts[r].job] = receipts[r].state
    /\ restarts[receipts[r].job] = receipts[r].restarts

(* Whatever was copied is what its job published. *)
TreeInv ==
  /\ \A f \in Fetchers : fetch[f].at \in {"copied", "moved"} =>
       finalDir[fetch[f].tree.job] = fetch[f].tree
  /\ \A d \in Dests : local[d] # None => finalDir[local[d].tree.job] = local[d].tree
  /\ \A m \in fetched : finalDir[m.tree.job] = m.tree

(* A receipt, a fetch gated by it and a tree that belong together. *)
Bound(g, t) ==
  /\ CleanCompletion(g)
  /\ t.job = receipts[g].job
  /\ finalDir[t.job] = t
  /\ \E m \in fetched : m.gate = g /\ m.tree = t

Good(p) ==
  /\ Bound(p.gate, p.tree)
  /\ p.job = p.tree.job
  /\ p.tree.cycles = PackagedCycles

FinInv ==
  /\ \A z \in Finalizers : fin[z].at \in {"checked", "verified"} =>
       /\ local[fin[z].dest] # None
       /\ Bound(fin[z].gate, local[fin[z].dest].tree)
       /\ fin[z].at = "verified" => local[fin[z].dest].tree.cycles = PackagedCycles
  /\ \A z \in Finalizers : fin[z].at \in {"copied", "published"} => Good(fin[z].package)
  /\ \A o \in Outs : out[o] # None => Good(out[o])

ChainInv == ChainTypeOK /\ JobInv /\ PartsInv /\ ReceiptInv /\ TreeInv /\ FinInv

-------------------------------------------------------------------------------
(* The state before any job has started satisfies the invariant. *)
LEMMA InitialChain ==
  ASSUME ChainInit
  PROVE  ChainInv
<1>1. ChainTypeOK
  BY ChainAssumption DEF ChainInit, ChainTypeOK, Labels, TrainStates, Fresh, Idle, FinStates
<1>2. JobInv /\ PartsInv /\ ReceiptInv
  BY <1>1 DEF ChainInit, JobInv, PartsInv, ReceiptInv
<1>3. TreeInv /\ FinInv
  BY <1>1 DEF ChainInit, TreeInv, FinInv, Idle
<1>4. QED
  BY <1>1, <1>2, <1>3 DEF ChainInv

(* What no step of a job takes back: a published tree, a terminal account. *)
Settled ==
  \A j \in ChainJobs :
    /\ finalDir[j] # None => finalDir'[j] = finalDir[j]
    /\ jobState[j] \in {"completed", "failed"} => jobState'[j] = jobState[j] /\ restarts'[j] = restarts[j]

(* A tree some variable holds is of a job, so its job's final is not None. *)
LEMMA TreeOfJob ==
  ASSUME NEW t \in Trees, finalDir[t.job] = t
  PROVE  t.job \in ChainJobs /\ finalDir[t.job] # None
BY NoneAssumption DEF Trees

(* A step that settles nothing anew leaves what belongs together together. *)
LEMMA BoundStays ==
  ASSUME ChainInv, Settled, receipts' = receipts, fetched \subseteq fetched',
         NEW g \in Receipts, NEW t \in Trees, Bound(g, t)
  PROVE  Bound(g, t)'
<1>1. t.job \in ChainJobs /\ finalDir[t.job] # None
  BY TreeOfJob DEF Bound
<1>2. finalDir'[t.job] = t
  BY <1>1 DEF Settled, Bound
<1>3. CleanCompletion(g)'
  BY DEF CleanCompletion, Bound
<1>4. QED
  BY <1>2, <1>3 DEF Bound

(* The records of the workstation, taken apart. *)
LEMMA RecordTypes ==
  ASSUME ChainTypeOK
  PROVE  /\ \A f \in Fetchers : fetch[f].at \in {"copied", "moved"} => fetch[f] \in Copying
         /\ \A d \in Dests : local[d] # None => local[d] \in Holdings
         /\ \A z \in Finalizers : fin[z].at \in {"checked", "verified"} =>
              /\ fin[z].gate \in Receipts /\ fin[z].dest \in Dests /\ fin[z].out \in Outs
              /\ fin[z] = [at |-> fin[z].at, gate |-> fin[z].gate, dest |-> fin[z].dest,
                           out |-> fin[z].out]
         /\ \A z \in Finalizers : fin[z].at \in {"copied", "published"} =>
              fin[z].package \in Packages /\ fin[z].out \in Outs
         /\ \A o \in Outs : out[o] # None => out[o] \in Packages
         /\ \A r \in Receipts : receipts[r] # None => receipts[r] \in ReceiptRows
<1>1. \A f \in Fetchers : fetch[f].at \in {"copied", "moved"} => fetch[f] \in Copying
  BY DEF ChainTypeOK, Idle, Done
<1>2. \A d \in Dests : local[d] # None => local[d] \in Holdings
  BY DEF ChainTypeOK
<1>3. \A z \in Finalizers : fin[z].at \in {"checked", "verified"} =>
        fin[z] \in [at : {"checked", "verified"}, gate : Receipts, dest : Dests, out : Outs]
  BY DEF ChainTypeOK, FinStates, Idle, Done
<1>4. \A z \in Finalizers : fin[z].at \in {"copied", "published"} =>
        fin[z] \in [at : {"copied", "published"}, package : Packages, out : Outs]
  BY DEF ChainTypeOK, FinStates, Idle, Done
<1>5. \A o \in Outs : out[o] # None => out[o] \in Packages
  BY DEF ChainTypeOK
<1>6. \A r \in Receipts : receipts[r] # None => receipts[r] \in ReceiptRows
  BY DEF ChainTypeOK
<1>7. QED
  BY <1>1, <1>2, <1>3, <1>4, <1>5, <1>6

(* A step of a job disturbs nothing on the workstation. *)
LEMMA JobFrame ==
  ASSUME ChainInv, Settled, JobOnly
  PROVE  ReceiptInv' /\ TreeInv' /\ FinInv'
<1> USE DEF JobOnly, fetchVars, finVars
<1>1. ReceiptInv'
  BY RecordTypes DEF ChainInv, ReceiptInv, ReceiptRows, Settled
<1>2. TreeInv'
  <2>1. ASSUME NEW t \in Trees, finalDir[t.job] = t PROVE finalDir'[t.job] = t
    BY <2>1, TreeOfJob DEF Settled
  <2>2. \A f \in Fetchers : fetch[f].at \in {"copied", "moved"} => fetch[f].tree \in Trees
    BY RecordTypes DEF ChainInv, Copying
  <2>3. \A d \in Dests : local[d] # None => local[d].tree \in Trees
    BY RecordTypes DEF ChainInv, Holdings
  <2>4. \A m \in fetched : m.tree \in Trees
    BY DEF ChainInv, ChainTypeOK, Copies
  <2>5. QED
    BY <2>1, <2>2, <2>3, <2>4 DEF ChainInv, TreeInv
<1>3. ASSUME NEW g \in Receipts, NEW t \in Trees, Bound(g, t) PROVE Bound(g, t)'
  BY <1>3, BoundStays
<1>4. ASSUME NEW p \in Packages, Good(p) PROVE Good(p)'
  BY <1>3, <1>4 DEF Good, Packages
<1>5. ASSUME NEW z \in Finalizers, fin[z].at \in {"checked", "verified"}
      PROVE  Bound(fin[z].gate, local[fin[z].dest].tree)'
  <2>1. local[fin[z].dest] # None /\ Bound(fin[z].gate, local[fin[z].dest].tree)
    BY <1>5 DEF ChainInv, FinInv
  <2>2. fin[z].gate \in Receipts /\ local[fin[z].dest].tree \in Trees
    BY <1>5, <2>1, RecordTypes DEF ChainInv, Holdings
  <2>3. QED
    BY <1>3, <2>1, <2>2
<1>6. FinInv'
  BY <1>4, <1>5, RecordTypes DEF ChainInv, FinInv
<1>7. QED
  BY <1>1, <1>2, <1>6

-------------------------------------------------------------------------------
(* The steps of phase A, which differ in the parts they write. *)
LEMMA AddsStep ==
  ASSUME ChainInv, NEW j \in ChainJobs, NEW from \in Labels, NEW to \in Labels \ {"off", "exit"},
         NEW new \in SUBSET AllParts, Adds(j, from, to, new), from # "off"
  PROVE  ChainTypeOK' /\ JobInv' /\ Settled /\ JobOnly
<1> USE DEF Adds, Continue
<1>1. ChainTypeOK'
  BY DEF ChainInv, ChainTypeOK, JobOnly, fetchVars, finVars
<1>2. JobInv'
  BY DEF ChainInv, ChainTypeOK, JobInv
<1>3. QED
  BY <1>1, <1>2 DEF Settled

(* Every step of a job keeps what is known of jobs, and settles nothing. *)
LEMMA JobPart ==
  ASSUME ChainInv, NEW j \in ChainJobs, JobStep(j)
  PROVE  ChainTypeOK' /\ JobInv' /\ PartsInv' /\ Settled /\ JobOnly
<1> USE ChainAssumption
<1>1. CASE CloseInputs(j)
  <2>1. Adds(j, "input", "open", {})
    BY <1>1 DEF CloseInputs
  <2>2. ChainTypeOK' /\ JobInv' /\ Settled /\ JobOnly
    BY <2>1, AddsStep DEF Labels, AllParts
  <2>3. PartsInv'
    BY <2>1 DEF Adds, Continue, ChainInv, ChainTypeOK, PartsInv
  <2>4. QED
    BY <2>2, <2>3
<1>2. CASE OpenPhaseA(j)
  <2>1. Adds(j, "open", "context", {})
    BY <1>2 DEF OpenPhaseA
  <2>2. ChainTypeOK' /\ JobInv' /\ Settled /\ JobOnly
    BY <2>1, AddsStep DEF Labels, AllParts
  <2>3. PartsInv'
    BY <2>1 DEF Adds, Continue, ChainInv, ChainTypeOK, PartsInv
  <2>4. QED
    BY <2>2, <2>3
<1>3. CASE WriteContext(j)
  <2>1. Adds(j, "context", "begin", {"inputs"})
    BY <1>3 DEF WriteContext
  <2>2. ChainTypeOK' /\ JobInv' /\ Settled /\ JobOnly
    BY <2>1, AddsStep DEF Labels, AllParts
  <2>3. PartsInv'
    BY <2>1 DEF Adds, Continue, ChainInv, ChainTypeOK, PartsInv
  <2>4. QED
    BY <2>2, <2>3
<1>4. CASE BeginTraining(j)
  <2>1. Adds(j, "begin", "train", {})
    BY <1>4 DEF BeginTraining
  <2>2. ChainTypeOK' /\ JobInv' /\ Settled /\ JobOnly
    BY <2>1, AddsStep DEF Labels, AllParts
  <2>3. PartsInv'
    BY <2>1 DEF Adds, Continue, ChainInv, ChainTypeOK, PartsInv
  <2>4. QED
    BY <2>2, <2>3
<1>5. CASE SealTraining(j)
  <2>1. Adds(j, "seal", "sidecar", {"training"})
    BY <1>5 DEF SealTraining
  <2>2. ChainTypeOK' /\ JobInv' /\ Settled /\ JobOnly
    BY <2>1, AddsStep DEF Labels, AllParts
  <2>3. PartsInv'
    BY <2>1 DEF Adds, Continue, ChainInv, ChainTypeOK, PartsInv
  <2>4. QED
    BY <2>2, <2>3
<1>6. CASE WriteSidecar(j)
  <2>1. Adds(j, "sidecar", "postcheck", {"sidecar"})
    BY <1>6 DEF WriteSidecar
  <2>2. ChainTypeOK' /\ JobInv' /\ Settled /\ JobOnly
    BY <2>1, AddsStep DEF Labels, AllParts
  <2>3. PartsInv'
    BY <2>1 DEF Adds, Continue, ChainInv, ChainTypeOK, PartsInv
  <2>4. QED
    BY <2>2, <2>3
<1>7. CASE Postcheck(j)
  <2>1. Adds(j, "postcheck", "evaluate", {})
    BY <1>7 DEF Postcheck
  <2>2. ChainTypeOK' /\ JobInv' /\ Settled /\ JobOnly
    BY <2>1, AddsStep DEF Labels, AllParts
  <2>3. PartsInv'
    BY <2>1 DEF Adds, Continue, ChainInv, ChainTypeOK, PartsInv
  <2>4. QED
    BY <2>2, <2>3
<1>8. CASE Evaluate(j)
  <2>1. Adds(j, "evaluate", "write", {})
    BY <1>8 DEF Evaluate
  <2>2. ChainTypeOK' /\ JobInv' /\ Settled /\ JobOnly
    BY <2>1, AddsStep DEF Labels, AllParts
  <2>3. PartsInv'
    BY <2>1 DEF Adds, Continue, ChainInv, ChainTypeOK, PartsInv
  <2>4. QED
    BY <2>2, <2>3
<1>9. CASE WriteEvaluation(j)
  <2>1. Adds(j, "write", "integrity", {"evaluation"})
    BY <1>9 DEF WriteEvaluation
  <2>2. ChainTypeOK' /\ JobInv' /\ Settled /\ JobOnly
    BY <2>1, AddsStep DEF Labels, AllParts
  <2>3. PartsInv'
    BY <2>1 DEF Adds, Continue, ChainInv, ChainTypeOK, PartsInv
  <2>4. QED
    BY <2>2, <2>3
<1>10. CASE CheckEvaluation(j)
  <2>1. Adds(j, "integrity", "manifest", {"integrity"})
    BY <1>10 DEF CheckEvaluation
  <2>2. ChainTypeOK' /\ JobInv' /\ Settled /\ JobOnly
    BY <2>1, AddsStep DEF Labels, AllParts
  <2>3. PartsInv'
    BY <2>1 DEF Adds, Continue, ChainInv, ChainTypeOK, PartsInv
  <2>4. QED
    BY <2>2, <2>3
<1>11. CASE SealComponents(j)
  <2>1. Adds(j, "manifest", "publish", {"manifest"})
    BY <1>11 DEF SealComponents
  <2>2. ChainTypeOK' /\ JobInv' /\ Settled /\ JobOnly
    BY <2>1, AddsStep DEF Labels, AllParts
  <2>3. PartsInv'
    BY <2>1 DEF Adds, Continue, ChainInv, ChainTypeOK, PartsInv
  <2>4. QED
    BY <2>2, <2>3
<1>12. CASE JobStart(j)
  <2>1. ChainTypeOK'
    BY <1>12 DEF JobStart, Labels, ChainInv, ChainTypeOK, JobOnly, fetchVars, finVars
  <2>2. JobInv'
    BY <1>12 DEF JobStart, Labels, ChainInv, ChainTypeOK, JobInv
  <2>3. PartsInv'
    BY <1>12 DEF JobStart, Labels, ChainInv, ChainTypeOK, PartsInv
  <2>4. Settled /\ JobOnly
    BY <1>12 DEF JobStart, JobOnly, Settled, ChainInv
  <2>5. QED
    BY <2>1, <2>2, <2>3, <2>4
<1>13. CASE CreateWorkDir(j)
  <2>1. ChainTypeOK'
    BY <1>13 DEF CreateWorkDir, Continue, Labels, ChainInv, ChainTypeOK, JobOnly, fetchVars, finVars
  <2>2. JobInv'
    BY <1>13 DEF CreateWorkDir, Continue, ChainInv, ChainTypeOK, JobInv
  <2>3. PartsInv'
    BY <1>13 DEF CreateWorkDir, Continue, ChainInv, ChainTypeOK, PartsInv
  <2>4. Settled /\ JobOnly
    BY <1>13 DEF CreateWorkDir, Continue, Settled, ChainInv
  <2>5. QED
    BY <2>1, <2>2, <2>3, <2>4
<1>14. CASE TrainCycle(j)
  <2>1. ChainTypeOK'
    BY <1>14 DEF TrainCycle, Continue, Labels, TrainStates, ChainInv, ChainTypeOK, JobOnly, fetchVars, finVars
  <2>2. JobInv'
    BY <1>14 DEF TrainCycle, Continue, ChainInv, ChainTypeOK, JobInv
  <2>3. PartsInv'
    BY <1>14 DEF TrainCycle, Continue, ChainInv, ChainTypeOK, PartsInv
  <2>4. Settled /\ JobOnly
    BY <1>14 DEF TrainCycle, Continue, Settled, ChainInv
  <2>5. QED
    BY <2>1, <2>2, <2>3, <2>4
<1>15. CASE EndTraining(j)
  <2>1. ChainTypeOK'
    BY <1>15 DEF EndTraining, Continue, Labels, ChainInv, ChainTypeOK, JobOnly, fetchVars, finVars
  <2>2. JobInv'
    BY <1>15 DEF EndTraining, Continue, ChainInv, ChainTypeOK, JobInv
  <2>3. PartsInv'
    BY <1>15 DEF EndTraining, Continue, ChainInv, ChainTypeOK, PartsInv
  <2>4. Settled /\ JobOnly
    BY <1>15 DEF EndTraining, Continue, Settled, ChainInv
  <2>5. QED
    BY <2>1, <2>2, <2>3, <2>4
<1>16. CASE PublishComponents(j)
  <2> DEFINE tree == [job |-> j, run |-> restarts[j], cycles |-> train[j].cycles, parts |-> parts[j]]
  <2>1. parts[j] = AllParts
    BY <1>16 DEF PublishComponents, Continue, ChainInv, ChainTypeOK, PartsInv, AllParts
  <2>2. tree \in Trees /\ tree # None
    BY NoneAssumption DEF ChainInv, ChainTypeOK, TrainStates, Trees
  <2>3. finalDir' = [finalDir EXCEPT ![j] = tree]
    BY <1>16 DEF PublishComponents
  <2> HIDE DEF tree
  <2>4. ChainTypeOK'
    BY <1>16, <2>2, <2>3 DEF PublishComponents, Continue, Labels, ChainInv, ChainTypeOK, JobOnly, fetchVars, finVars
  <2>5. tree.job = j /\ tree.parts = AllParts /\ tree.run = restarts[j]
    BY <2>1 DEF tree
  <2>6. JobInv'
    BY <1>16, <2>2, <2>3, <2>5 DEF PublishComponents, Continue, ChainInv, ChainTypeOK, JobInv
  <2>7. PartsInv'
    BY <1>16 DEF PublishComponents, Continue, ChainInv, ChainTypeOK, PartsInv
  <2>8. Settled /\ JobOnly
    BY <1>16, <2>3 DEF PublishComponents, Continue, ChainInv, ChainTypeOK, Settled
  <2>9. QED
    BY <2>4, <2>6, <2>7, <2>8
<1>17. CASE JobExit(j)
  <2>1. ChainTypeOK'
    BY <1>17 DEF JobExit, Leaves, Labels, Fresh, TrainStates, ChainInv, ChainTypeOK, JobOnly, fetchVars, finVars
  <2>2. JobInv'
    BY <1>17 DEF JobExit, Leaves, ChainInv, ChainTypeOK, JobInv
  <2>3. PartsInv'
    BY <1>17 DEF JobExit, Leaves, ChainInv, ChainTypeOK, PartsInv
  <2>4. Settled /\ JobOnly
    BY <1>17 DEF JobExit, Leaves, Settled, ChainInv
  <2>5. QED
    BY <2>1, <2>2, <2>3, <2>4
<1>18. CASE JobFail(j)
  <2>1. ChainTypeOK'
    BY <1>18 DEF JobFail, Leaves, Labels, Fresh, TrainStates, ChainInv, ChainTypeOK, JobOnly, fetchVars, finVars
  <2>2. JobInv'
    BY <1>18 DEF JobFail, Leaves, ChainInv, ChainTypeOK, JobInv
  <2>3. PartsInv'
    BY <1>18 DEF JobFail, Leaves, ChainInv, ChainTypeOK, PartsInv
  <2>4. Settled /\ JobOnly
    BY <1>18 DEF JobFail, Leaves, Settled, ChainInv
  <2>5. QED
    BY <2>1, <2>2, <2>3, <2>4
<1>19. CASE JobLost(j)
  <2>1. ChainTypeOK'
    <3>1. workDir' \in [ChainJobs -> BOOLEAN]
      <4>1. (workDir[j] /\ line[j] = "mkdir") \in BOOLEAN
        OBVIOUS
      <4>2. workDir \in [ChainJobs -> BOOLEAN]
        BY DEF ChainInv, ChainTypeOK
      <4>3. [workDir EXCEPT ![j] = workDir[j] /\ line[j] = "mkdir"] \in [ChainJobs -> BOOLEAN]
        BY <4>1, <4>2
      <4>4. QED
        BY <1>19, <4>2, <4>3 DEF JobLost
    <3>2. restarts' \in [ChainJobs -> 0..MaxRestarts]
      BY <1>19 DEF JobLost, ChainInv, ChainTypeOK
    <3>3. QED
      BY <1>19, <3>1, <3>2 DEF JobLost, Leaves, Labels, Fresh, TrainStates, ChainInv, ChainTypeOK,
                               JobOnly, fetchVars, finVars
  <2>2. JobInv'
    <3>1. finalDir[j] # None => finalDir[j].run \in Nat
      BY DEF ChainInv, ChainTypeOK, Trees
    <3>2. /\ restarts[j] \in Nat /\ restarts'[j] = restarts[j] + 1
          /\ \A k \in ChainJobs \ {j} : restarts'[k] = restarts[k]
      BY <1>19 DEF JobLost, ChainInv, ChainTypeOK
    <3>3. /\ jobState'[j] = "pending" /\ line'[j] = "off" /\ finalDir' = finalDir
          /\ \A k \in ChainJobs \ {j} : jobState'[k] = jobState[k] /\ line'[k] = line[k]
      BY <1>19 DEF JobLost, Leaves, ChainInv, ChainTypeOK
    <3>4. QED
      BY <3>1, <3>2, <3>3 DEF ChainInv, JobInv
  <2>3. PartsInv'
    BY <1>19 DEF JobLost, Leaves, ChainInv, ChainTypeOK, PartsInv
  <2>4. Settled /\ JobOnly
    BY <1>19 DEF JobLost, Leaves, Settled, ChainInv
  <2>5. QED
    BY <2>1, <2>2, <2>3, <2>4
<1>20. QED
  BY <1>1, <1>2, <1>3, <1>4, <1>5, <1>6, <1>7, <1>8, <1>9, <1>10, <1>11, <1>12, <1>13, <1>14, <1>15, <1>16, <1>17, <1>18, <1>19 DEF JobStep

-------------------------------------------------------------------------------
(* What the workstation does leaves the jobs alone. *)
LEMMA JobsAlone ==
  ASSUME ChainInv, UNCHANGED jobVars
  PROVE  JobInv' /\ PartsInv' /\ Settled
BY DEF ChainInv, jobVars, JobInv, PartsInv, Settled

(* A receipt attests a job accounted COMPLETED. *)
LEMMA ReceiptStep ==
  ASSUME ChainInv, NEW r \in Receipts, NEW j \in ChainJobs, TerminalReceipt(r, j)
  PROVE  ChainInv'
<1> USE DEF TerminalReceipt
<1> DEFINE row == [job |-> j, state |-> jobState[j], restarts |-> restarts[j]]
<1>1. row \in ReceiptRows /\ row # None
  BY NoneAssumption DEF ChainInv, ChainTypeOK, ReceiptRows
<1>2. receipts' = [receipts EXCEPT ![r] = row]
  OBVIOUS
<1>3. row.job = j /\ row.state = jobState[j] /\ row.restarts = restarts[j]
  OBVIOUS
<1> HIDE DEF row
<1>4. ChainTypeOK'
  BY <1>1, <1>2 DEF ChainInv, ChainTypeOK, jobVars, fetchVars, finVars
<1>5. JobInv' /\ PartsInv'
  BY JobsAlone
<1>6. ReceiptInv'
  BY <1>1, <1>2, <1>3 DEF ChainInv, ChainTypeOK, ReceiptInv, jobVars
<1>7. TreeInv'
  BY DEF ChainInv, TreeInv, jobVars, fetchVars
<1>8. \A g \in Receipts : receipts[g] # None => receipts'[g] = receipts[g]
  BY <1>2 DEF ChainInv, ChainTypeOK
<1>9. ASSUME NEW g \in Receipts, NEW t, Bound(g, t) PROVE Bound(g, t)'
  BY <1>8, <1>9 DEF Bound, CleanCompletion, jobVars, fetchVars
<1>10. ASSUME NEW p \in Packages, Good(p) PROVE Good(p)'
  BY <1>9, <1>10 DEF Good, Packages
<1>11. FinInv'
  BY <1>9, <1>10, RecordTypes DEF ChainInv, FinInv, jobVars, fetchVars, finVars
<1>12. QED
  BY <1>4, <1>5, <1>6, <1>7, <1>11 DEF ChainInv

(* A fetch leaves what the finalizers hold alone: a directory keeps its    *)
(* tree, and fetch receipts are only added.                                *)
LEMMA FetchFrame ==
  ASSUME ChainInv, ChainTypeOK', UNCHANGED <<jobVars, receipts, finVars>>,
         fetched \subseteq fetched',
         \A d \in Dests : local[d] # None => local'[d] # None /\ local'[d].tree = local[d].tree
  PROVE  JobInv' /\ PartsInv' /\ ReceiptInv' /\ FinInv'
<1> USE DEF jobVars, finVars
<1>1. JobInv' /\ PartsInv' /\ Settled
  BY JobsAlone
<1>2. ReceiptInv'
  BY DEF ChainInv, ReceiptInv
<1>3. ASSUME NEW g \in Receipts, NEW t \in Trees, Bound(g, t) PROVE Bound(g, t)'
  BY <1>1, <1>3, BoundStays
<1>4. ASSUME NEW p \in Packages, Good(p) PROVE Good(p)'
  BY <1>3, <1>4 DEF Good, Packages
<1>5. ASSUME NEW z \in Finalizers, fin[z].at \in {"checked", "verified"}
      PROVE  /\ local'[fin[z].dest] # None
             /\ local'[fin[z].dest].tree = local[fin[z].dest].tree
             /\ Bound(fin[z].gate, local[fin[z].dest].tree)'
  <2>1. /\ local[fin[z].dest] # None /\ Bound(fin[z].gate, local[fin[z].dest].tree)
        /\ fin[z].gate \in Receipts /\ fin[z].dest \in Dests
    BY <1>5, RecordTypes DEF ChainInv, FinInv
  <2>2. local[fin[z].dest].tree \in Trees
    BY <2>1, RecordTypes DEF ChainInv, Holdings
  <2>3. local'[fin[z].dest] # None /\ local'[fin[z].dest].tree = local[fin[z].dest].tree
    BY <2>1
  <2>4. Bound(fin[z].gate, local[fin[z].dest].tree) /\ local[fin[z].dest].tree \in Trees
    BY <2>1, <2>2
  <2>5. (CleanCompletion(fin[z].gate) /\ finalDir[local[fin[z].dest].tree.job] = local[fin[z].dest].tree)'
    BY <2>1, <2>3, <2>4 DEF Bound, CleanCompletion
  <2>6. QED
    BY <2>1, <2>3, <2>4, <2>5 DEF Bound
<1>6. FinInv'
  BY <1>4, <1>5, RecordTypes DEF ChainInv, FinInv
<1>7. QED
  BY <1>1, <1>2, <1>6

(* A fetch copies the components of the job its receipt attests. *)
LEMMA FetchPart ==
  ASSUME ChainInv, NEW f \in Fetchers, FetchStep(f)
  PROVE  ChainInv'
<1>1. ASSUME NEW j \in ChainJobs, NEW g \in Receipts \cup {None}, NEW d \in Dests, FetchCopy(f, j, g, d)
      PROVE  ChainInv'
  <2> DEFINE copy == [at |-> "copied", gate |-> g, dest |-> d, tree |-> finalDir[j]]
  <2>1. copy \in Copying /\ finalDir[j] \in Trees
    BY <1>1 DEF FetchCopy, ChainInv, ChainTypeOK, Copying
  <2>2. fetch' = [fetch EXCEPT ![f] = copy] /\ UNCHANGED <<local, fetched>>
    BY <1>1 DEF FetchCopy
  <2>3. copy.tree = finalDir[j] /\ finalDir[copy.tree.job] = copy.tree
    BY <1>1 DEF FetchCopy, ChainInv, JobInv
  <2> HIDE DEF copy
  <2>4. ChainTypeOK'
    BY <1>1, <2>1, <2>2 DEF FetchCopy, ChainInv, ChainTypeOK, jobVars, finVars
  <2>5. TreeInv'
    BY <1>1, <2>2, <2>3 DEF FetchCopy, ChainInv, ChainTypeOK, TreeInv, jobVars
  <2>6. JobInv' /\ PartsInv' /\ ReceiptInv' /\ FinInv'
    BY <1>1, <2>2, <2>4, FetchFrame DEF FetchCopy
  <2>7. QED
    BY <2>4, <2>5, <2>6 DEF ChainInv
<1>2. CASE FetchMove(f)
  <2> DEFINE d == fetch[f].dest
  <2>1. fetch[f] \in Copying /\ d \in Dests /\ fetch[f].tree \in Trees
    BY <1>2, RecordTypes DEF FetchMove, ChainInv, Copying
  <2>2. [fetch[f] EXCEPT !.at = "moved"] \in Copying
    BY <2>1 DEF Copying
  <2>3. /\ fetch' = [fetch EXCEPT ![f] = [fetch[f] EXCEPT !.at = "moved"]]
        /\ local' = [local EXCEPT ![d] = IF local[d] = None THEN [tree |-> fetch[f].tree, nested |-> FALSE]
                                         ELSE [local[d] EXCEPT !.nested = TRUE]]
    BY <1>2, <2>1 DEF FetchMove, ChainInv, ChainTypeOK
  <2>4. local'[d] \in Holdings /\ local'[d] # None
    <3>1. CASE local[d] = None
      <4>1. local'[d] = [tree |-> fetch[f].tree, nested |-> FALSE]
        BY <2>1, <2>3, <3>1 DEF ChainInv, ChainTypeOK
      <4>2. [tree |-> fetch[f].tree, nested |-> FALSE] \in Holdings
        BY <2>1 DEF Holdings
      <4>3. QED
        BY <4>1, <4>2, NoneAssumption
    <3>2. CASE local[d] # None
      <4>1. local'[d] = [local[d] EXCEPT !.nested = TRUE] /\ local[d] \in Holdings
        BY <2>1, <2>3, <3>2 DEF ChainInv, ChainTypeOK
      <4>2. [local[d] EXCEPT !.nested = TRUE] \in Holdings
        BY <4>1 DEF Holdings
      <4>3. QED
        BY <4>1, <4>2, NoneAssumption
    <3>3. QED
      BY <3>1, <3>2
  <2>5. /\ local[d] = None => local'[d].tree = fetch[f].tree
        /\ local[d] # None => local'[d].tree = local[d].tree
    BY <2>1, <2>3, RecordTypes DEF ChainInv, ChainTypeOK, Holdings
  <2>6. \A e \in Dests \ {d} : local'[e] = local[e]
    BY <2>3 DEF ChainInv, ChainTypeOK
  <2>7. local' \in [Dests -> Holdings \cup {None}]
    BY <2>1, <2>3, <2>4, <2>6 DEF ChainInv, ChainTypeOK
  <2> HIDE DEF d
  <2>8. ChainTypeOK'
    BY <1>2, <2>2, <2>3, <2>7 DEF FetchMove, ChainInv, ChainTypeOK, jobVars, finVars
  <2>9. fetch'[f].tree = fetch[f].tree /\ fetch[f].at = "copied"
    BY <1>2, <2>1, <2>3 DEF FetchMove, ChainInv, ChainTypeOK, Copying
  <2>10. TreeInv'
    BY <1>2, <2>1, <2>3, <2>5, <2>6, <2>9 DEF FetchMove, ChainInv, ChainTypeOK, TreeInv, jobVars
  <2>11. JobInv' /\ PartsInv' /\ ReceiptInv' /\ FinInv'
    BY <1>2, <2>4, <2>5, <2>6, <2>8, FetchFrame DEF FetchMove
  <2>12. QED
    BY <2>8, <2>10, <2>11 DEF ChainInv
<1>3. CASE FetchReceipt(f)
  <2> DEFINE row == [gate |-> fetch[f].gate, dest |-> fetch[f].dest, tree |-> fetch[f].tree]
  <2>1. fetch[f] \in Copying
    BY <1>3, RecordTypes DEF FetchReceipt, ChainInv
  <2>2. row \in Copies /\ finalDir[row.tree.job] = row.tree
    BY <1>3, <2>1 DEF FetchReceipt, ChainInv, TreeInv, Copying, Copies
  <2>3. fetched' = fetched \cup {row} /\ fetch' = [fetch EXCEPT ![f] = Done] /\ local' = local
    BY <1>3 DEF FetchReceipt
  <2> HIDE DEF row
  <2>4. ChainTypeOK'
    BY <1>3, <2>2, <2>3 DEF FetchReceipt, ChainInv, ChainTypeOK, jobVars, finVars
  <2>5. TreeInv'
    BY <1>3, <2>2, <2>3 DEF FetchReceipt, ChainInv, ChainTypeOK, TreeInv, jobVars, Done
  <2>6. JobInv' /\ PartsInv' /\ ReceiptInv' /\ FinInv'
    BY <1>3, <2>3, <2>4, FetchFrame DEF FetchReceipt
  <2>7. QED
    BY <2>4, <2>5, <2>6 DEF ChainInv
<1>4. CASE FetchDies(f)
  <2>1. ChainTypeOK'
    BY <1>4 DEF FetchDies, ChainInv, ChainTypeOK, jobVars, finVars
  <2>2. TreeInv'
    BY <1>4 DEF FetchDies, ChainInv, ChainTypeOK, TreeInv, jobVars, Done
  <2>3. JobInv' /\ PartsInv' /\ ReceiptInv' /\ FinInv'
    BY <1>4, <2>1, FetchFrame DEF FetchDies
  <2>4. QED
    BY <2>1, <2>2, <2>3 DEF ChainInv
<1>5. QED
  BY <1>1, <1>2, <1>3, <1>4 DEF FetchStep

-------------------------------------------------------------------------------
(* A finalizer leaves all but its own state and the packages alone. *)
LEMMA FinFrame ==
  ASSUME ChainInv, UNCHANGED <<jobVars, receipts, fetchVars>>
  PROVE  /\ JobInv' /\ PartsInv' /\ ReceiptInv' /\ TreeInv'
         /\ \A g, t : Bound(g, t) => Bound(g, t)'
         /\ \A p : Good(p) => Good(p)'
<1> USE DEF jobVars, fetchVars
<1>1. JobInv' /\ PartsInv'
  BY JobsAlone
<1>2. ReceiptInv' /\ TreeInv'
  BY DEF ChainInv, ReceiptInv, TreeInv
<1>3. \A g, t : Bound(g, t) => Bound(g, t)'
  BY DEF Bound, CleanCompletion
<1>4. QED
  BY <1>1, <1>2, <1>3 DEF Good

(* Its own state and package, when they are in order, keep FinInv. *)
LEMMA FinUpdate ==
  ASSUME ChainInv, NEW z \in Finalizers, NEW state \in FinStates, Fins(z, state),
         out' \in [Outs -> Packages \cup {None}],
         \A o \in Outs : out'[o] # None => out'[o] = out[o] \/ Good(out'[o]),
         state.at \in {"checked", "verified"} =>
           /\ local[state.dest] # None
           /\ Bound(state.gate, local[state.dest].tree)
           /\ state.at = "verified" => local[state.dest].tree.cycles = PackagedCycles,
         state.at \in {"copied", "published"} => Good(state.package)
  PROVE  ChainInv'
<1> USE DEF Fins
<1>1. ChainTypeOK'
  BY DEF ChainInv, ChainTypeOK, jobVars, fetchVars
<1>2. /\ JobInv' /\ PartsInv' /\ ReceiptInv' /\ TreeInv'
      /\ \A g, t : Bound(g, t) => Bound(g, t)'
      /\ \A p : Good(p) => Good(p)'
  BY FinFrame
<1>3. fin'[z] = state /\ \A y \in Finalizers \ {z} : fin'[y] = fin[y]
  BY DEF ChainInv, ChainTypeOK
<1>4. local' = local
  BY DEF fetchVars
<1>5. ASSUME NEW y \in Finalizers, fin'[y].at \in {"checked", "verified"}
      PROVE  /\ local[fin'[y].dest] # None
             /\ Bound(fin'[y].gate, local[fin'[y].dest].tree)
             /\ fin'[y].at = "verified" => local[fin'[y].dest].tree.cycles = PackagedCycles
  BY <1>3, <1>5 DEF ChainInv, FinInv
<1>6. \A y \in Finalizers : fin'[y].at \in {"copied", "published"} => Good(fin'[y].package)
  BY <1>3 DEF ChainInv, FinInv
<1>7. \A o \in Outs : out'[o] # None => Good(out'[o])
  BY DEF ChainInv, FinInv
<1>8. ASSUME NEW y \in Finalizers, fin'[y].at \in {"checked", "verified"}
      PROVE  Bound(fin[y].gate, local[fin[y].dest].tree)'
  <2>1. Bound(fin'[y].gate, local[fin'[y].dest].tree)
    BY <1>5, <1>8
  <2>2. QED
    BY <1>4, <2>1 DEF Bound, CleanCompletion, jobVars, fetchVars
<1>9. \A y \in Finalizers : fin'[y].at \in {"copied", "published"} => Good(fin[y].package)'
  BY <1>6 DEF Good, Bound, CleanCompletion, jobVars, fetchVars
<1>10. \A o \in Outs : out'[o] # None => Good(out[o])'
  BY <1>7 DEF Good, Bound, CleanCompletion, jobVars, fetchVars
<1>11. FinInv'
  BY <1>4, <1>5, <1>8, <1>9, <1>10 DEF FinInv
<1>12. QED
  BY <1>1, <1>2, <1>11 DEF ChainInv

(* A finalizer packages a whole copy of one completed run. *)
LEMMA FinPart ==
  ASSUME ChainInv, NEW z \in Finalizers, FinStep(z)
  PROVE  ChainInv'
<1>1. ASSUME NEW m \in fetched, NEW g \in Receipts, NEW o \in Outs, FinCheck(z, m, g, o)
      PROVE  ChainInv'
  <2> DEFINE state == [at |-> "checked", gate |-> g, dest |-> m.dest, out |-> o]
  <2>1. m \in Copies
    BY DEF ChainInv, ChainTypeOK
  <2>2. state \in FinStates
    BY <2>1 DEF FinStates, Copies
  <2>3. local[m.dest].tree = m.tree /\ local[m.dest] \in Holdings /\ local[m.dest] # None
    <3>1. m.tree \in Trees /\ local[m.dest] = [tree |-> m.tree, nested |-> FALSE]
      BY <1>1, <2>1 DEF FinCheck, FetchBinds, Copies
    <3>2. [tree |-> m.tree, nested |-> FALSE] \in Holdings
      BY <3>1 DEF Holdings
    <3>3. local[m.dest] \in Holdings /\ local[m.dest].tree = m.tree
      BY <3>1, <3>2
    <3>4. QED
      BY <3>3, NoneAssumption
  <2>4. Bound(g, m.tree)
    BY <1>1, <2>1 DEF FinCheck, FetchBinds, Bound, ChainInv, TreeInv
  <2>5. state.at = "checked" /\ state.gate = g /\ state.dest = m.dest
    OBVIOUS
  <2>6. Fins(z, state) /\ out' = out
    BY <1>1 DEF FinCheck
  <2> HIDE DEF state
  <2>7. out' \in [Outs -> Packages \cup {None}]
    BY <2>6 DEF ChainInv, ChainTypeOK
  <2>8. QED
    BY <2>2, <2>3, <2>4, <2>5, <2>6, <2>7, FinUpdate
<1>2. CASE AssemblerCheck(z)
  <2> DEFINE state == [fin[z] EXCEPT !.at = "verified"]
  <2>1. /\ fin[z].gate \in Receipts /\ fin[z].dest \in Dests /\ fin[z].out \in Outs
        /\ fin[z] = [at |-> fin[z].at, gate |-> fin[z].gate, dest |-> fin[z].dest,
                     out |-> fin[z].out]
        /\ local[fin[z].dest] # None
        /\ Bound(fin[z].gate, local[fin[z].dest].tree)
    BY <1>2, RecordTypes DEF AssemblerCheck, ChainInv, FinInv
  <2>2. state \in FinStates /\ state.at = "verified" /\ state.gate = fin[z].gate
           /\ state.dest = fin[z].dest
    BY <2>1 DEF FinStates
  <2>3. Fins(z, state) /\ out' = out /\ local[fin[z].dest].tree.cycles = PackagedCycles
    BY <1>2 DEF AssemblerCheck
  <2> HIDE DEF state
  <2>4. out' \in [Outs -> Packages \cup {None}]
    BY <2>3 DEF ChainInv, ChainTypeOK
  <2>5. QED
    BY <2>1, <2>2, <2>3, <2>4, FinUpdate
<1>3. CASE AssemblerCopy(z)
  <2> DEFINE p == Package(fin[z])
  <2> DEFINE state == [at |-> "copied", package |-> p, out |-> fin[z].out]
  <2>1. /\ fin[z].gate \in Receipts /\ fin[z].dest \in Dests /\ fin[z].out \in Outs
        /\ local[fin[z].dest] # None
        /\ Bound(fin[z].gate, local[fin[z].dest].tree)
        /\ local[fin[z].dest].tree.cycles = PackagedCycles
    BY <1>3, RecordTypes DEF AssemblerCopy, ChainInv, FinInv
  <2>2. local[fin[z].dest].tree \in Trees /\ receipts[fin[z].gate].job \in ChainJobs
    BY <2>1, RecordTypes DEF ChainInv, Holdings, Bound, CleanCompletion, ReceiptRows
  <2>3. /\ p \in Packages /\ p.gate = fin[z].gate /\ p.tree = local[fin[z].dest].tree
        /\ p.job = receipts[fin[z].gate].job
    BY <2>1, <2>2 DEF Package, Packages
  <2>4. Good(p)
    BY <2>1, <2>3 DEF Good, Bound
  <2>5. Fins(z, state) /\ out' = out
    BY <1>3 DEF AssemblerCopy
  <2> HIDE DEF p
  <2>6. state \in FinStates /\ state.at = "copied" /\ state.package = p
    BY <2>1, <2>3 DEF FinStates
  <2> HIDE DEF state
  <2>7. out' \in [Outs -> Packages \cup {None}]
    BY <2>5 DEF ChainInv, ChainTypeOK
  <2>8. QED
    BY <2>4, <2>5, <2>6, <2>7, FinUpdate
<1>4. CASE FinPublish(z)
  <2> DEFINE state == [at |-> "published", package |-> fin[z].package, out |-> fin[z].out]
  <2>1. fin[z].package \in Packages /\ fin[z].out \in Outs /\ Good(fin[z].package)
    BY <1>4, RecordTypes DEF FinPublish, ChainInv, FinInv
  <2>2. state \in FinStates /\ state.at = "published" /\ state.package = fin[z].package
    BY <2>1 DEF FinStates
  <2>3. Fins(z, state) /\ out' = [out EXCEPT ![fin[z].out] = fin[z].package]
    BY <1>4 DEF FinPublish
  <2> HIDE DEF state
  <2>4. /\ out' \in [Outs -> Packages \cup {None}]
        /\ \A o \in Outs : out'[o] = out[o] \/ out'[o] = fin[z].package
    BY <2>1, <2>3 DEF ChainInv, ChainTypeOK
  <2>5. QED
    BY <2>1, <2>2, <2>3, <2>4, FinUpdate
<1>5. CASE FinConfirm(z) \/ FinFails(z)
  <2>1. Fins(z, Done) /\ out' = out /\ Done \in FinStates /\ Done.at = "done"
    BY <1>5 DEF FinConfirm, FinFails, FinStates, Done
  <2>2. out' \in [Outs -> Packages \cup {None}]
    BY <2>1 DEF ChainInv, ChainTypeOK
  <2>3. QED
    BY <2>1, <2>2, FinUpdate
<1>6. QED
  BY <1>1, <1>2, <1>3, <1>4, <1>5 DEF FinStep

-------------------------------------------------------------------------------
(* Every step keeps the invariant. *)
LEMMA ChainStep ==
  ASSUME ChainInv, [ChainNext]_chainVars
  PROVE  ChainInv'
<1>1. ASSUME NEW j \in ChainJobs, JobStep(j) PROVE ChainInv'
  BY <1>1, JobPart, JobFrame DEF ChainInv
<1>2. CASE UNCHANGED chainVars
  <2>1. ChainTypeOK'
    BY <1>2 DEF ChainInv, ChainTypeOK, chainVars, jobVars, fetchVars, finVars
  <2>2. /\ JobInv' /\ PartsInv' /\ ReceiptInv' /\ TreeInv'
        /\ UNCHANGED <<jobVars, receipts, fetchVars, finVars>>
    BY <1>2, FinFrame DEF chainVars
  <2>3. FinInv'
    BY <2>2 DEF ChainInv, FinInv, Good, Bound, CleanCompletion, jobVars, fetchVars, finVars
  <2>4. QED
    BY <2>1, <2>2, <2>3 DEF ChainInv
<1>3. QED
  BY <1>1, <1>2, ReceiptStep, FetchPart, FinPart DEF ChainNext

(* The values of the variables, whatever is lost, restarted or raced: no   *)
(* training run passes its outer-cycle ceiling or its update target.       *)
THEOREM ChainTypeCorrect == ChainSpec => []ChainTypeOK
<1>1. ChainInv => ChainTypeOK
  BY DEF ChainInv
<1>2. QED
  BY <1>1, InitialChain, ChainStep, PTL DEF ChainSpec

(* A job that Slurm accounts COMPLETED has the components of the run that  *)
(* completed, with every part, in its final directory.                     *)
THEOREM CompletedHasItsComponentsHolds == ChainSpec => []CompletedHasItsComponents
<1>1. ChainInv => CompletedHasItsComponents
  BY DEF ChainInv, JobInv, CompletedHasItsComponents
<1>2. QED
  BY <1>1, InitialChain, ChainStep, PTL DEF ChainSpec

(* A package is the components of one job that completed in its first run, *)
(* fetched under the terminal receipt it archives.                         *)
THEOREM PackageIsOneCompletedRunHolds == ChainSpec => []PackageIsOneCompletedRun
<1>1. ASSUME ChainInv PROVE PackageIsOneCompletedRun
  <2> SUFFICES ASSUME NEW o \in Outs, out[o] # None
               PROVE  /\ jobState[out[o].job] = "completed" /\ restarts[out[o].job] = 0
                      /\ out[o].tree = finalDir[out[o].job]
                      /\ out[o].tree.run = 0 /\ out[o].tree.cycles = PackagedCycles
                      /\ out[o].tree.parts = AllParts
                      /\ receipts[out[o].gate].job = out[o].job
                      /\ \E m \in fetched : m.gate = out[o].gate /\ m.tree = out[o].tree
    BY DEF PackageIsOneCompletedRun
  <2>1. out[o] \in Packages /\ Good(out[o])
    BY <1>1, RecordTypes DEF ChainInv, FinInv
  <2> DEFINE p == out[o]
  <2>2. p.tree \in Trees /\ p.gate \in Receipts /\ p.job \in ChainJobs
    BY <2>1 DEF Packages
  <2>3. /\ p.job = p.tree.job /\ p.tree.cycles = PackagedCycles
        /\ receipts[p.gate] # None /\ receipts[p.gate].state = "completed"
        /\ receipts[p.gate].restarts = 0 /\ receipts[p.gate].job = p.job
        /\ finalDir[p.job] = p.tree
        /\ \E m \in fetched : m.gate = p.gate /\ m.tree = p.tree
    BY <2>1 DEF Good, Bound, CleanCompletion
  <2> HIDE DEF p
  <2>4. jobState[p.job] = "completed" /\ restarts[p.job] = 0
    BY <1>1, <2>2, <2>3 DEF ChainInv, ReceiptInv
  <2>5. p.tree # None
    BY <2>2, NoneAssumption
  <2>6. p.tree.parts = AllParts /\ p.tree.run <= 0
    BY <1>1, <2>2, <2>3, <2>4, <2>5 DEF ChainInv, JobInv
  <2>7. p.tree.run = 0
    BY <2>2, <2>6, ChainAssumption DEF Trees
  <2>8. QED
    BY <2>3, <2>4, <2>6, <2>7 DEF p
<1>2. QED
  BY <1>1, InitialChain, ChainStep, PTL DEF ChainSpec

(* A package, once at its path, stays as it is. *)
THEOREM PackageIsFinalHolds == ChainSpec => PackageIsFinal
<1>1. ASSUME ChainInv, [ChainNext]_chainVars
      PROVE  [\A o \in Outs : out[o] # None => out'[o] = out[o]]_chainVars
  <2>1. ASSUME NEW j \in ChainJobs, JobStep(j) PROVE out' = out
    BY <1>1, <2>1, JobPart DEF JobOnly, finVars
  <2>2. ASSUME NEW r \in Receipts, NEW j \in ChainJobs, TerminalReceipt(r, j) PROVE out' = out
    BY <2>2 DEF TerminalReceipt, finVars
  <2>3. ASSUME NEW f \in Fetchers, FetchStep(f) PROVE out' = out
    BY <2>3 DEF FetchStep, FetchCopy, FetchMove, FetchReceipt, FetchDies, finVars
  <2>4. ASSUME NEW z \in Finalizers, FinStep(z)
        PROVE  \A o \in Outs : out[o] # None => out'[o] = out[o]
    <3>1. CASE FinPublish(z)
      BY <1>1, <3>1 DEF FinPublish, ChainInv, ChainTypeOK
    <3>2. CASE ~FinPublish(z)
      BY <2>4, <3>2 DEF FinStep, FinCheck, AssemblerCheck, AssemblerCopy, FinConfirm, FinFails
    <3>3. QED
      BY <3>1, <3>2
  <2>5. CASE UNCHANGED chainVars
    BY <2>5
  <2>6. QED
    BY <1>1, <2>1, <2>2, <2>3, <2>4, <2>5 DEF ChainNext
<1>2. QED
  BY <1>1, InitialChain, ChainStep, PTL DEF ChainSpec, PackageIsFinal

-------------------------------------------------------------------------------
(* The block and the account of one job, when its published tree stays.    *)
LEMMA PromiseStutters ==
  ASSUME NEW j \in ChainJobs, finalDir'[j] = finalDir[j], jobState'[j] = jobState[j]
  PROVE  UNCHANGED Published(j)!vars
BY DEF Published!vars

(* A step of a job is a step of the promise for that job, or none. *)
LEMMA PromiseOfJob ==
  ASSUME ChainInv, NEW j \in ChainJobs, JobStep(j)
  PROVE  [Published(j)!Next]_(Published(j)!vars)
<1>1. jobState \in [ChainJobs -> {"pending", "running", "completed", "failed"}] /\ finalDir \in [ChainJobs -> Trees \cup {None}]
  BY DEF ChainInv, ChainTypeOK
<1>2. ASSUME NEW s \in {"pending", "running", "failed"}, jobState[j] \in {"pending", "running"},
             jobState' = [jobState EXCEPT ![j] = s], finalDir' = finalDir
      PROVE  Published(j)!Next
  <2>1. [k \in {j} |-> jobState'[k]] = [[k \in {j} |-> jobState[k]] EXCEPT ![j] = s]
    BY <1>1, <1>2
  <2>2. Published(j)!Schedule(j)
    BY <1>2, <2>1 DEF Published!Schedule
  <2>3. QED
    BY <2>2 DEF Published!Next
<1>3. CASE JobStart(j)
  BY <1>2, <1>3 DEF JobStart
<1>4. CASE JobFail(j)
  BY <1>2, <1>4 DEF JobFail, Leaves
<1>5. CASE JobLost(j)
  BY <1>2, <1>5 DEF JobLost, Leaves
<1>6. CASE PublishComponents(j)
  <2>1. finalDir[j] = None /\ jobState' = jobState
    BY <1>6 DEF PublishComponents, Continue
  <2>2. finalDir'[j] # None
    BY <1>1, <1>6, NoneAssumption DEF PublishComponents, Continue, ChainInv, ChainTypeOK, TrainStates, Trees
  <2>3. Published(j)!Publish(j)
    BY <2>1, <2>2 DEF Published!Publish
  <2>4. QED
    BY <2>3 DEF Published!Next
<1>7. CASE JobExit(j)
  <2>1. /\ jobState[j] = "running" /\ jobState' = [jobState EXCEPT ![j] = "completed"]
        /\ finalDir' = finalDir /\ finalDir[j] # None
    BY <1>7 DEF JobExit, Leaves, ChainInv, JobInv
  <2>2. [k \in {j} |-> jobState'[k]] = [[k \in {j} |-> jobState[k]] EXCEPT ![j] = "completed"]
    BY <1>1, <2>1
  <2>3. Published(j)!Complete(j)
    BY <2>1, <2>2 DEF Published!Complete
  <2>4. QED
    BY <2>3 DEF Published!Next
<1>8. CASE ~(JobStart(j) \/ JobFail(j) \/ JobLost(j) \/ PublishComponents(j) \/ JobExit(j))
  <2>1. finalDir' = finalDir /\ jobState' = jobState
    BY <1>8 DEF JobStep, CreateWorkDir, CloseInputs, OpenPhaseA, WriteContext, BeginTraining, TrainCycle,
       EndTraining, SealTraining, WriteSidecar, Postcheck, Evaluate, WriteEvaluation,
       CheckEvaluation, SealComponents, Adds, Continue
  <2>2. QED
    BY <2>1, PromiseStutters
<1>9. QED
  BY <1>3, <1>4, <1>5, <1>6, <1>7, <1>8

(* A step of another job leaves the account and the tree of this one. *)
LEMMA OtherJob ==
  ASSUME ChainInv, NEW j \in ChainJobs, NEW k \in ChainJobs \ {j}, JobStep(k)
  PROVE  finalDir'[j] = finalDir[j] /\ jobState'[j] = jobState[j]
<1>1. jobState \in [ChainJobs -> {"pending", "running", "completed", "failed"}] /\ finalDir \in [ChainJobs -> Trees \cup {None}]
  BY DEF ChainInv, ChainTypeOK
<1>2. CASE JobStart(k) \/ JobFail(k) \/ JobLost(k) \/ JobExit(k)
  BY <1>1, <1>2 DEF JobStart, JobFail, JobLost, JobExit, Leaves
<1>3. CASE PublishComponents(k)
  BY <1>1, <1>3 DEF PublishComponents, Continue
<1>4. CASE ~(JobStart(k) \/ JobFail(k) \/ JobLost(k) \/ PublishComponents(k) \/ JobExit(k))
  BY <1>4 DEF JobStep, CreateWorkDir, CloseInputs, OpenPhaseA, WriteContext, BeginTraining, TrainCycle,
     EndTraining, SealTraining, WriteSidecar, Postcheck, Evaluate, WriteEvaluation,
     CheckEvaluation, SealComponents, Adds, Continue
<1>5. QED
  BY <1>2, <1>3, <1>4

(* The chain implements EvidenceBlock job by job: components are published *)
(* once, as a whole, and a job completes only with its own.                *)
THEOREM ComponentsKeepPromiseHolds == ChainSpec => ComponentsKeepPromise
<1>1. ASSUME ChainInit PROVE \A j \in ChainJobs : Published(j)!Init
  BY <1>1 DEF ChainInit, Published!Init
<1>2. ASSUME ChainInv, [ChainNext]_chainVars
      PROVE  [\A j \in ChainJobs : [Published(j)!Next]_(Published(j)!vars)]_chainVars
  <2> SUFFICES ASSUME NEW j \in ChainJobs PROVE [Published(j)!Next]_(Published(j)!vars)
    OBVIOUS
  <2>1. ASSUME NEW k \in ChainJobs, JobStep(k) PROVE [Published(j)!Next]_(Published(j)!vars)
    <3>1. CASE k = j
      BY <1>2, <2>1, <3>1, PromiseOfJob
    <3>2. CASE k # j
      BY <1>2, <2>1, <3>2, OtherJob, PromiseStutters
    <3>3. QED
      BY <3>1, <3>2
  <2>2. CASE ~(\E k \in ChainJobs : JobStep(k))
    <3>1. UNCHANGED <<finalDir, jobState>>
      BY <1>2, <2>2 DEF ChainNext, chainVars, jobVars, TerminalReceipt, FetchStep, FetchCopy, FetchMove,
         FetchReceipt, FetchDies, FinStep, FinCheck, AssemblerCheck, AssemblerCopy, FinPublish,
         FinConfirm, FinFails, Fins
    <3>2. QED
      BY <3>1, PromiseStutters
  <2>3. QED
    BY <2>1, <2>2
<1>3. QED
  BY <1>1, <1>2, InitialChain, ChainStep, PTL DEF ChainSpec, ComponentsKeepPromise
===============================================================================
