---------------------- MODULE UndoTransaction_proofs ----------------------
(***************************************************************************)
(* Theorems about UndoTransaction, for every workspace, every number of    *)
(* sessions and operations and every bound on the faults.                  *)
(***************************************************************************)
EXTENDS UndoTransaction, RestoreApply_proofs

(* Beside the types: the two manifests of an operation have one scope, and *)
(* wherever the owner of the lock works on an operation there is one.      *)
WorkingPcs ==
  OperationPcs \cup CompensationPcs \cup {"mutations", "restore", "restoring", "finish"}

Working ==
  /\ \A op \in Ops : DOMAIN desc[op].rollback = DOMAIN desc[op].target
  /\ pc \in WorkingPcs => cur \in Ops

TypeInv == RestoreInv /\ TxTypeOK /\ Working

(* The capture of a scope is a manifest of that scope.                     *)
LEMMA CapturedType ==
  ASSUME RestoreTypeOK, NEW S \in SUBSET Paths
  PROVE  Captured(S) \in Manifests /\ DOMAIN Captured(S) = S
  BY ManifestIntro DEF Captured, RestoreTypeOK

(* The types hold in a fresh workspace.                                    *)
LEMMA InitTypeInv == Init => TypeInv
  <1> SUFFICES ASSUME Init PROVE TypeInv
    OBVIOUS
  <1>1. RestoreInv
    <2>1. job \in Job /\ JobOK
      BY IdleJobType, EmptyManifestType DEF Init, JobOK, IdleJob
    <2> QED BY <2>1 DEF Init, RestoreInv, RestoreTypeOK
  <1>2. NoDescriptor \in Descriptor /\ DOMAIN NoDescriptor.rollback = DOMAIN NoDescriptor.target
    <2>1. (CHOOSE s \in Sessions : TRUE) \in Sessions
      BY SessionsAssumption
    <2> QED BY <2>1, EmptyManifestType DEF NoDescriptor, Descriptor, NewLeaf, OldLeaf
  <1>3. TxTypeOK
    BY <1>2 DEF Init, TxTypeOK, Phases, Pcs, NewLeaf
  <1>4. Working
    BY <1>2 DEF Init, Working, WorkingPcs, OperationPcs, CompensationPcs
  <1> QED BY <1>1, <1>3, <1>4 DEF TypeInv

(* The actions of an operation that leave the workspace and the call as    *)
(* they are.                                                               *)
LEMMA UntouchedType ==
  ASSUME RestoreInv, UNCHANGED <<files, wal, job>>, spent' \in [Faults -> Nat]
  PROVE  RestoreInv'
  BY DEF RestoreInv, RestoreTypeOK, JobOK, Ordinals

(* An operation that begins records a well-typed descriptor whose two      *)
(* manifests have the scope of its target.                                 *)
LEMMA BeginType ==
  ASSUME TypeInv, NEW s \in Sessions, NEW op \in Ops, NEW target \in Targets,
         NEW to \in 0..(leaves - 1), Begin(s, op, target, to)
  PROVE  TypeInv'
  <1> USE DEF TypeInv
  <1>1. target \in Manifests
    BY TargetsAssumption
  <1>2. Captured(DOMAIN target) \in Manifests /\ DOMAIN Captured(DOMAIN target) = DOMAIN target
    BY <1>1, ManifestValue, CapturedType DEF RestoreInv
  <1> DEFINE d == [session |-> s, from |-> leaf[s], to |-> to,
                   rollback |-> Captured(DOMAIN target), target |-> target]
  <1>3. d \in Descriptor /\ DOMAIN d.rollback = DOMAIN d.target
    BY <1>1, <1>2 DEF Descriptor, TxTypeOK
  <1>4. desc' = [desc EXCEPT ![op] = d]
    BY DEF Begin
  <1> HIDE DEF d
  <1>5. RestoreInv'
    BY UntouchedType DEF Begin, restoreVars, RestoreInv, RestoreTypeOK
  <1>6. TxTypeOK'
    BY <1>3, <1>4 DEF Begin, TxTypeOK, sessionVars, Goto, Pcs, OperationPcs
  <1>7. Working'
    BY <1>3, <1>4 DEF Begin, Working, TxTypeOK
  <1> QED BY <1>5, <1>6, <1>7

(* The actions of an operation.                                            *)
LEMMA OperationType ==
  ASSUME TypeInv, Operation
  PROVE  TypeInv'
  <1> USE DEF TypeInv, Release, Lock, SetPhase, Goto, At, restoreVars, sessionVars,
              WriteCursor, Pcs, WorkingPcs, OperationPcs, CompensationPcs, RecoveryPcs
  <1>0. /\ RestoreTypeOK /\ RestoreInv /\ TxTypeOK /\ Working
        /\ {"PREPARED", "APPLYING", "FILES_VERIFIED", "CURSOR_COMMITTED", "ABORTING",
            "RECOVERY_REQUIRED", "ABORTED", "COMMITTED"} \subseteq Phases
    BY DEF RestoreInv, Phases, Terminal
  <1>a. spent' = spent \/ (\E f \in Faults : Spend(f)) => spent' \in [Faults -> Nat]
    BY <1>0, SpendType DEF RestoreTypeOK
  <1>1. CASE AbandonPlan
    <2>1. RestoreInv'
      BY <1>0, <1>a, <1>1, UntouchedType DEF AbandonPlan, Faults
    <2>2. TxTypeOK' /\ Working'
      BY <1>0, <1>1 DEF AbandonPlan, TxTypeOK, Working, Descriptor
    <2> QED BY <2>1, <2>2
  <1>2. CASE Prepare
    <2>1. RestoreInv'
      BY <1>0, <1>a, <1>2, UntouchedType DEF Prepare, Faults
    <2>2. TxTypeOK' /\ Working'
      BY <1>0, <1>2 DEF Prepare, TxTypeOK, Working, Descriptor
    <2> QED BY <2>1, <2>2
  <1>3. CASE Navigate
    <2>1. RestoreInv'
      BY <1>0, <1>a, <1>3, UntouchedType DEF Navigate, Faults
    <2>2. TxTypeOK' /\ Working'
      BY <1>0, <1>3 DEF Navigate, TxTypeOK, Working, Descriptor
    <2> QED BY <2>1, <2>2
  <1>4. CASE NavigateDeclined
    <2>1. RestoreInv'
      BY <1>0, <1>a, <1>4, UntouchedType DEF NavigateDeclined, Faults
    <2>2. TxTypeOK' /\ Working'
      BY <1>0, <1>4 DEF NavigateDeclined, TxTypeOK, Working, Descriptor
    <2> QED BY <2>1, <2>2
  <1>5. CASE DeclineAborting
    <2>1. RestoreInv'
      BY <1>0, <1>a, <1>5, UntouchedType DEF DeclineAborting, Faults
    <2>2. TxTypeOK' /\ Working'
      BY <1>0, <1>5 DEF DeclineAborting, TxTypeOK, Working, Descriptor
    <2> QED BY <2>1, <2>2
  <1>6. CASE DeclineAborted
    <2>1. RestoreInv'
      BY <1>0, <1>a, <1>6, UntouchedType DEF DeclineAborted, Faults
    <2>2. TxTypeOK' /\ Working'
      BY <1>0, <1>6 DEF DeclineAborted, TxTypeOK, Working, Descriptor
    <2> QED BY <2>1, <2>2
  <1>7. CASE RecordDivergence
    <2>1. RestoreInv'
      BY <1>0, <1>a, <1>7, UntouchedType DEF RecordDivergence, Faults
    <2>2. TxTypeOK' /\ Working'
      BY <1>0, <1>7 DEF RecordDivergence, TxTypeOK, Working, Descriptor
    <2> QED BY <2>1, <2>2
  <1>8. CASE RecordMoved
    <2>1. RestoreInv'
      BY <1>0, <1>a, <1>8, UntouchedType DEF RecordMoved, Faults
    <2>2. TxTypeOK' /\ Working'
      BY <1>0, <1>8 DEF RecordMoved, TxTypeOK, Working, Descriptor
    <2> QED BY <2>1, <2>2
  <1>9. CASE FilesVerified
    <2>1. RestoreInv'
      BY <1>0, <1>a, <1>9, UntouchedType DEF FilesVerified, Faults
    <2>2. TxTypeOK' /\ Working'
      BY <1>0, <1>9 DEF FilesVerified, TxTypeOK, Working, Descriptor
    <2> QED BY <2>1, <2>2
  <1>10. CASE CursorDurable
    <2>1. RestoreInv'
      BY <1>0, <1>a, <1>10, UntouchedType DEF CursorDurable, Faults
    <2>2. TxTypeOK' /\ Working'
      BY <1>0, <1>10 DEF CursorDurable, TxTypeOK, Working, Descriptor
    <2> QED BY <2>1, <2>2
  <1>11. CASE CursorVolatile
    <2>1. RestoreInv'
      BY <1>0, <1>a, <1>11, UntouchedType DEF CursorVolatile, Faults
    <2>2. TxTypeOK' /\ Working'
      BY <1>0, <1>11 DEF CursorVolatile, TxTypeOK, Working, Descriptor
    <2> QED BY <2>1, <2>2
  <1>12. CASE CursorAmbiguous
    <2>1. RestoreInv'
      BY <1>0, <1>a, <1>12, UntouchedType DEF CursorAmbiguous, Faults
    <2>2. TxTypeOK' /\ Working'
      BY <1>0, <1>12 DEF CursorAmbiguous, TxTypeOK, Working, Descriptor
    <2> QED BY <2>1, <2>2
  <1>13. CASE RecordAmbiguity
    <2>1. RestoreInv'
      BY <1>0, <1>a, <1>13, UntouchedType DEF RecordAmbiguity, Faults
    <2>2. TxTypeOK' /\ Working'
      BY <1>0, <1>13 DEF RecordAmbiguity, TxTypeOK, Working, Descriptor
    <2> QED BY <2>1, <2>2
  <1>14. CASE CompensateVolatile
    <2>1. RestoreInv'
      BY <1>0, <1>a, <1>14, UntouchedType DEF CompensateVolatile, Faults
    <2>2. TxTypeOK' /\ Working'
      BY <1>0, <1>14 DEF CompensateVolatile, TxTypeOK, Working, Descriptor
    <2> QED BY <2>1, <2>2
  <1>15. CASE RecordCursor
    <2>1. RestoreInv'
      BY <1>0, <1>a, <1>15, UntouchedType DEF RecordCursor, Faults
    <2>2. TxTypeOK' /\ Working'
      BY <1>0, <1>15 DEF RecordCursor, TxTypeOK, Working, Descriptor
    <2> QED BY <2>1, <2>2
  <1>16. CASE MarkCommitted
    <2>1. RestoreInv'
      BY <1>0, <1>a, <1>16, UntouchedType DEF MarkCommitted, Faults
    <2>2. TxTypeOK' /\ Working'
      BY <1>0, <1>16 DEF MarkCommitted, TxTypeOK, Working, Descriptor
    <2> QED BY <2>1, <2>2
  <1>17. CASE Cancel
    <2>1. RestoreInv'
      BY <1>0, <1>a, <1>17, UntouchedType DEF Cancel, Faults
    <2>2. TxTypeOK' /\ Working'
      BY <1>0, <1>17 DEF Cancel, TxTypeOK, Working, Descriptor
    <2> QED BY <2>1, <2>2
  <1>18. CASE OperationFails
    <2>1. RestoreInv'
      BY <1>0, <1>a, <1>18, UntouchedType DEF OperationFails, Faults
    <2>2. TxTypeOK' /\ Working'
      BY <1>0, <1>18, ZenonT(60) DEF OperationFails, TxTypeOK, Working, Descriptor
    <2> QED BY <2>1, <2>2
  <1>19. ASSUME NEW x \in 0..(leaves - 1), NavigateDiverges(x) PROVE TypeInv'
    <2>1. RestoreInv'
      BY <1>0, <1>a, <1>19, UntouchedType DEF NavigateDiverges, Faults
    <2>2. x \in Nat
      BY <1>0 DEF TxTypeOK
    <2>3. leaf' \in [Sessions -> Nat]
      BY <1>0, <1>19, <2>2 DEF NavigateDiverges, TxTypeOK
    <2>4. TxTypeOK' /\ Working'
      BY <1>0, <1>19, <2>3 DEF NavigateDiverges, TxTypeOK, Working
    <2> QED BY <2>1, <2>4
  <1>20. CASE ApplyTarget
    <2>1. cur \in Ops
      BY <1>0, <1>20 DEF ApplyTarget, Working
    <2>2. /\ desc[cur].rollback \in Manifests /\ desc[cur].target \in Manifests
          /\ DOMAIN desc[cur].rollback = DOMAIN desc[cur].target
      BY <1>0, <2>1 DEF TxTypeOK, Descriptor, Working
    <2>3. RestoreInv'
      BY <1>0, <1>a, <1>20, <2>1, <2>2, StartApplyType DEF ApplyTarget
    <2>4. TxTypeOK' /\ Working'
      BY <1>0, <1>20, <2>1 DEF ApplyTarget, TxTypeOK, Working
    <2> QED BY <2>3, <2>4
  <1>21. CASE TargetApplied
    <2>1. RestoreInv'
      BY <1>0, <1>a, <1>21, IdleType DEF TargetApplied, Returned
    <2>2. TxTypeOK' /\ Working'
      BY <1>0, <1>21 DEF TargetApplied, Returned, TxTypeOK, Working
    <2> QED BY <2>1, <2>2
  <1> QED
    BY <1>1, <1>2, <1>3, <1>4, <1>5, <1>6, <1>7, <1>8, <1>9, <1>10, <1>11, <1>12, <1>13, <1>14, <1>15, <1>16, <1>17, <1>18, <1>19, <1>20, <1>21 DEF Operation

(* The actions of a compensation.                                          *)
LEMMA CompensationType ==
  ASSUME TypeInv, Compensation
  PROVE  TypeInv'
  <1> USE DEF TypeInv, Release, Lock, SetPhase, Goto, At, Returned, restoreVars, sessionVars,
              Pcs, WorkingPcs, OperationPcs, CompensationPcs, RecoveryPcs
  <1>0. /\ RestoreTypeOK /\ RestoreInv /\ TxTypeOK /\ Working
        /\ {"ABORTING", "RECOVERY_REQUIRED", "ABORTED"} \subseteq Phases
    BY DEF RestoreInv, Phases, Terminal
  <1>1. CASE CompensateAborting
    <2>1. RestoreInv'
      BY <1>0, <1>1, UntouchedType DEF CompensateAborting, RestoreTypeOK
    <2>2. TxTypeOK' /\ Working'
      BY <1>0, <1>1 DEF CompensateAborting, TxTypeOK, Working
    <2> QED BY <2>1, <2>2
  <1>2. CASE RestoreLeaf
    <2>1. cur \in Ops
      BY <1>0, <1>2 DEF RestoreLeaf, Working
    <2>2. /\ desc[cur].rollback \in Manifests /\ desc[cur].target \in Manifests
          /\ desc[cur].from \in Nat /\ DOMAIN desc[cur].rollback = DOMAIN desc[cur].target
      BY <1>0, <2>1 DEF TxTypeOK, Descriptor, Working
    <2>3. RestoreInv'
      BY <1>0, <1>2, <2>1, <2>2, UntouchedType, StartApplyType
         DEF RestoreLeaf, RestoreTypeOK
    <2>4. TxTypeOK' /\ Working'
      BY <1>0, <1>2, <2>1, <2>2 DEF RestoreLeaf, TxTypeOK, Working
    <2> QED BY <2>3, <2>4
  <1>3. CASE RollbackApplied
    <2>1. RestoreInv'
      BY <1>0, <1>3, IdleType DEF RollbackApplied, RestoreTypeOK
    <2>2. TxTypeOK' /\ Working'
      BY <1>0, <1>3 DEF RollbackApplied, TxTypeOK, Working
    <2> QED BY <2>1, <2>2
  <1>4. CASE CompensationDone
    <2>1. RestoreInv'
      BY <1>0, <1>4, UntouchedType DEF CompensationDone, RestoreTypeOK
    <2>2. TxTypeOK' /\ Working'
      BY <1>0, <1>4 DEF CompensationDone, TxTypeOK, Working
    <2> QED BY <2>1, <2>2
  <1>5. CASE CompensationFails
    <2>1. (job' = job \/ job' = IdleJob) /\ (spent' = spent \/ Spend("fail"))
      BY <1>5 DEF CompensationFails
    <2>2. spent' \in [Faults -> Nat]
      BY <1>0, <2>1, SpendType DEF RestoreTypeOK, Faults
    <2>3. RestoreInv'
      BY <1>0, <1>5, <2>1, <2>2, UntouchedType, IdleType DEF CompensationFails
    <2>4. phase' \in [Ops -> Phases]
      BY <1>0, <1>5 DEF CompensationFails, TxTypeOK
    <2>5. TxTypeOK' /\ Working'
      BY <1>0, <1>5, <2>4 DEF CompensationFails, TxTypeOK, Working
    <2> QED BY <2>3, <2>5
  <1> QED BY <1>1, <1>2, <1>3, <1>4, <1>5 DEF Compensation

(* The actions of a recovery.                                              *)
LEMMA RecoveryType ==
  ASSUME TypeInv, Recovery
  PROVE  TypeInv'
  <1> USE DEF TypeInv, Release, Up, SetPhase, Goto, At, Returned, restoreVars, sessionVars,
              Pcs, WorkingPcs, OperationPcs, CompensationPcs, RecoveryPcs
  <1>0. /\ RestoreTypeOK /\ RestoreInv /\ TxTypeOK /\ Working
        /\ {"ABORTED", "COMMITTED"} \subseteq Phases
    BY DEF RestoreInv, Phases, Terminal
  <1>a. ASSUME NEW op, NotSettled(op) PROVE spent' \in [Faults -> Nat]
    BY <1>0, <1>a, SpendType DEF NotSettled, RestoreTypeOK, Faults
  <1>1. ASSUME NEW op \in Ops, RecoverSettle(op) PROVE TypeInv'
    <2>1. RestoreInv'
      BY <1>0, <1>1, UntouchedType DEF RecoverSettle, RestoreTypeOK
    <2>2. TxTypeOK' /\ Working'
      BY <1>0, <1>1 DEF RecoverSettle, TxTypeOK, Working
    <2> QED BY <2>1, <2>2
  <1>2. ASSUME NEW op \in Ops, RecoverIgnore(op) PROVE TypeInv'
    <2>1. RestoreInv'
      BY <1>0, <1>a, <1>2, UntouchedType DEF RecoverIgnore
    <2>2. TxTypeOK' /\ Working'
      BY <1>0, <1>2 DEF RecoverIgnore, TxTypeOK, Working
    <2> QED BY <2>1, <2>2
  <1>3. ASSUME NEW op \in Ops, RecoverMutations(op) PROVE TypeInv'
    <2>1. RestoreInv'
      <3>1. PICK step \in {"unwind", "forward"} :
              job' = [IdleJob EXCEPT !.op = op, !.ctx = "recover", !.step = step]
        BY <1>3 DEF RecoverMutations, StartRecoverMutations
      <3>2. job' \in Job /\ JobOK'
        BY <3>1, IdleJobType DEF Job, JobOK, IdleJob, Steps
      <3>3. spent' \in [Faults -> Nat]
        BY <1>a, <1>3 DEF RecoverMutations
      <3> QED BY <1>0, <1>3, <3>2, <3>3
            DEF RecoverMutations, StartRecoverMutations, RestoreInv, RestoreTypeOK
    <2>2. TxTypeOK' /\ Working'
      BY <1>0, <1>3 DEF RecoverMutations, TxTypeOK, Working
    <2> QED BY <2>1, <2>2
  <1>4. CASE MutationsRecovered
    <2>1. RestoreInv'
      BY <1>0, <1>4, IdleType DEF MutationsRecovered, RestoreTypeOK
    <2>2. TxTypeOK' /\ Working'
      BY <1>0, <1>4 DEF MutationsRecovered, TxTypeOK, Working
    <2> QED BY <2>1, <2>2
  <1>5. CASE RestoreManifest
    <2>1. cur \in Ops
      BY <1>0, <1>5 DEF RestoreManifest, Working
    <2>2. /\ desc[cur].target \in Manifests /\ RecoveryTarget(cur) \in Manifests
          /\ DOMAIN RecoveryTarget(cur) = DOMAIN desc[cur].target
      BY <1>0, <2>1 DEF TxTypeOK, Descriptor, Working, RecoveryTarget
    <2>3. /\ Captured(DOMAIN desc[cur].target) \in Manifests
          /\ DOMAIN Captured(DOMAIN desc[cur].target) = DOMAIN desc[cur].target
      BY <1>0, <2>2, ManifestValue, CapturedType
    <2>4. RestoreInv'
      BY <1>0, <1>5, <2>1, <2>2, <2>3, StartApplyType DEF RestoreManifest, RestoreTypeOK
    <2>5. TxTypeOK' /\ Working'
      BY <1>0, <1>5, <2>1 DEF RestoreManifest, TxTypeOK, Working
    <2> QED BY <2>4, <2>5
  <1>6. CASE ManifestRestored
    <2>1. RestoreInv'
      BY <1>0, <1>6, IdleType DEF ManifestRestored, RestoreTypeOK
    <2>2. TxTypeOK' /\ Working'
      BY <1>0, <1>6 DEF ManifestRestored, TxTypeOK, Working
    <2> QED BY <2>1, <2>2
  <1>7. CASE SettleRecovery
    <2>1. RestoreInv'
      BY <1>0, <1>7, UntouchedType DEF SettleRecovery, RestoreTypeOK
    <2>2. TxTypeOK' /\ Working'
      BY <1>0, <1>7 DEF SettleRecovery, TxTypeOK, Working
    <2> QED BY <2>1, <2>2
  <1>8. CASE RecoveryDone
    <2>1. RestoreInv'
      BY <1>0, <1>8, UntouchedType DEF RecoveryDone, RestoreTypeOK
    <2>2. TxTypeOK' /\ Working'
      BY <1>0, <1>8 DEF RecoveryDone, TxTypeOK, Working
    <2> QED BY <2>1, <2>2
  <1>9. CASE RecoveryLocks
    <2>1. (job' = job \/ job' = IdleJob) /\ (spent' = spent \/ Spend("fail"))
      BY <1>9 DEF RecoveryLocks, NotSettled
    <2>2. spent' \in [Faults -> Nat]
      BY <1>0, <2>1, SpendType DEF RestoreTypeOK, Faults
    <2>3. RestoreInv'
      BY <1>0, <1>9, <2>1, <2>2, UntouchedType, IdleType DEF RecoveryLocks
    <2>4. TxTypeOK' /\ Working'
      BY <1>0, <1>9 DEF RecoveryLocks, TxTypeOK, Working
    <2> QED BY <2>3, <2>4
  <1> QED BY <1>1, <1>2, <1>3, <1>4, <1>5, <1>6, <1>7, <1>8, <1>9 DEF Recovery

(* The engine, the environment, and the step of each session.              *)
LEMMA RestoringType ==
  ASSUME TypeInv, Restoring
  PROVE  TypeInv'
  <1> USE DEF TypeInv
  <1>1. RestoreInv'
    BY EngineStepType DEF Restoring
  <1>2. dirty' \in [Ops -> SUBSET Paths]
    BY DEF Restoring, NoteChanges, TxTypeOK
  <1>3. TxTypeOK' /\ Working'
    BY <1>2 DEF Restoring, TxTypeOK, Working, sessionVars, txVars
  <1> QED BY <1>1, <1>3

(* A session that crashes, starts again, asks for a recovery or goes on    *)
(* with its conversation keeps the types.                                  *)
LEMMA SessionStepType ==
  ASSUME TypeInv, NEW s \in Sessions,
         StartRecovery(s) \/ Crash(s) \/ Restart(s) \/ AskRecover(s) \/ Chat(s)
  PROVE  TypeInv'
  <1> USE DEF TypeInv, restoreVars, sessionVars, txVars
  <1>0. RestoreTypeOK /\ RestoreInv /\ TxTypeOK /\ Working /\ Pending \subseteq Ops
    BY DEF RestoreInv, Pending
  <1>1. CASE StartRecovery(s)
    <2>1. RestoreInv'
      BY <1>0, <1>1, UntouchedType DEF StartRecovery, RestoreTypeOK
    <2>2. TxTypeOK' /\ Working'
      BY <1>0, <1>1 DEF StartRecovery, TxTypeOK, Working, Goto, Pcs, RecoveryPcs,
                        WorkingPcs, OperationPcs, CompensationPcs
    <2> QED BY <2>1, <2>2
  <1>2. CASE Crash(s)
    <2>1. (job' = job \/ job' = IdleJob) /\ Spend("crash")
      BY <1>2 DEF Crash
    <2>2. spent' \in [Faults -> Nat]
      BY <1>0, <2>1, SpendType DEF Faults
    <2>3. RestoreInv'
      BY <1>0, <1>2, <2>1, <2>2, UntouchedType, IdleType DEF Crash
    <2>4. TxTypeOK' /\ Working'
      BY <1>0, <1>2 DEF Crash, TxTypeOK, Working, Release, Pcs,
                        WorkingPcs, OperationPcs, CompensationPcs
    <2> QED BY <2>3, <2>4
  <1>3. CASE Restart(s)
    <2>1. RestoreInv'
      BY <1>0, <1>3, UntouchedType DEF Restart, RestoreTypeOK
    <2>2. TxTypeOK' /\ Working'
      BY <1>0, <1>3 DEF Restart, TxTypeOK, Working
    <2> QED BY <2>1, <2>2
  <1>4. CASE AskRecover(s)
    <2>1. RestoreInv'
      BY <1>0, <1>4, UntouchedType DEF AskRecover, RestoreTypeOK
    <2>2. TxTypeOK' /\ Working'
      BY <1>0, <1>4 DEF AskRecover, TxTypeOK, Working
    <2> QED BY <2>1, <2>2
  <1>5. CASE Chat(s)
    <2>1. spent' \in [Faults -> Nat]
      BY <1>0, <1>5, SpendType DEF Chat, Faults
    <2>2. RestoreInv'
      BY <1>0, <1>5, <2>1, UntouchedType DEF Chat
    <2>3. TxTypeOK' /\ Working'
      BY <1>0, <1>5 DEF Chat, TxTypeOK, Working
    <2> QED BY <2>2, <2>3
  <1> QED BY <1>1, <1>2, <1>3, <1>4, <1>5

(* So does another program that writes a file.                             *)
LEMMA EditType ==
  ASSUME TypeInv, NEW p \in Paths, NEW c \in Leaf, Edit(p, c)
  PROVE  TypeInv'
  <1> USE DEF TypeInv
  <1>1. RestoreInv'
    BY ExternalEditType DEF Edit
  <1>2. dirty' \in [Ops -> SUBSET Paths]
    BY DEF Edit, NoteChanges, TxTypeOK
  <1>3. TxTypeOK' /\ Working'
    BY <1>2 DEF Edit, TxTypeOK, Working, sessionVars, txVars
  <1> QED BY <1>1, <1>3

(* Every step keeps the types.                                             *)
LEMMA NextTypeInv == TypeInv /\ [Next]_vars => TypeInv'
  <1> SUFFICES ASSUME TypeInv, [Next]_vars PROVE TypeInv'
    OBVIOUS
  <1>1. CASE UNCHANGED vars
    BY <1>1 DEF vars, restoreVars, sessionVars, txVars, TypeInv, RestoreInv, RestoreTypeOK,
                JobOK, Ordinals, TxTypeOK, Working
  <1> QED BY <1>1, BeginType, OperationType, CompensationType, RecoveryType, RestoringType,
             SessionStepType, EditType DEF Next

(* Type correctness of the whole transaction: every reachable journal,     *)
(* log, call, session and lock has its type.                               *)
THEOREM TypeCorrect == Spec => []TypeInvariant
  <1>1. TypeInv => TypeInvariant
    BY DEF TypeInv, TypeInvariant, TypeOK, RestoreInv
  <1> QED BY <1>1, InitTypeInv, NextTypeInv, PTL DEF Spec

-----------------------------------------------------------------------------
(* Outcomes. The inductive invariant ties the owner of the lock to the     *)
(* journal it works on: what the phase and the cursor entry of that        *)
(* operation can be at each place. What it says of aborted operations      *)
(* holds as long as every append of a cursor entry reported what it did.   *)

CursorsKnown == spent["ambiguous"] = 0

ActivePcs ==
  (OperationPcs \ {"planned"}) \cup (CompensationPcs \ {"compensate"})
    \cup {"mutations", "restore", "restoring", "finish"}

UndecidedPcs == (OperationPcs \ {"commit", "finalize"}) \cup CompensationPcs

OutcomeInv ==
  /\ CommittedHasCursor
  /\ holder = NoSession => pc = "free"
  /\ queue \subseteq Pending
  /\ pc \notin RecoveryPcs => queue = {}
  /\ pc = "planned" => phase[cur] = "NONE"
  /\ pc \in ActivePcs => phase[cur] \notin Terminal \cup {"NONE"}
  /\ pc = "compensate" => phase[cur] \notin Terminal
  /\ pc \in {"commit", "finalize"} => cur \in cursors
  /\ CursorsKnown /\ pc \in UndecidedPcs => cur \notin cursors
  /\ CursorsKnown => \A op \in cursors : phase[op] \notin {"NONE", "ABORTED"}

(* Nothing is prepared and nobody holds the lock at first.                 *)
LEMMA InitOutcomeInv == Init => OutcomeInv
  BY DEF Init, OutcomeInv, CommittedHasCursor, ActivePcs, UndecidedPcs, OperationPcs,
         CompensationPcs, RecoveryPcs

(* Once an append did not report what it did, that stays known.            *)
LEMMA KnownBefore ==
  ASSUME RestoreTypeOK, spent' = spent \/ (\E f \in Faults : Spend(f))
  PROVE  CursorsKnown' => CursorsKnown
  BY DEF RestoreTypeOK, Spend, CursorsKnown, Faults

(* The steps of an operation keep the invariant.                           *)
LEMMA OperationOutcome ==
  ASSUME TypeInv, OutcomeInv, Operation
  PROVE  OutcomeInv'
  <1> USE DEF Release, Lock, Up, SetPhase, Goto, At, Returned, MayEnter, restoreVars, sessionVars,
              WriteCursor, ActivePcs, UndecidedPcs, OperationPcs, CompensationPcs, RecoveryPcs,
              Terminal, Pending, CommittedHasCursor
  <1>0. RestoreTypeOK /\ TxTypeOK /\ (pc \in WorkingPcs => cur \in Ops)
    BY DEF TypeInv, RestoreInv, Working
  <1>k. spent' = spent \/ Spend("fail") => (CursorsKnown' => CursorsKnown)
    BY <1>0, KnownBefore DEF Faults
  <1>1. CASE AbandonPlan
    BY <1>0, <1>k, <1>1 DEF AbandonPlan, OutcomeInv, TxTypeOK, WorkingPcs
  <1>2. CASE Prepare
    BY <1>0, <1>k, <1>2 DEF Prepare, OutcomeInv, TxTypeOK, WorkingPcs
  <1>3. CASE Navigate
    BY <1>0, <1>k, <1>3 DEF Navigate, OutcomeInv, TxTypeOK, WorkingPcs
  <1>4. CASE NavigateDeclined
    BY <1>0, <1>k, <1>4 DEF NavigateDeclined, OutcomeInv, TxTypeOK, WorkingPcs
  <1>5. CASE DeclineAborting
    BY <1>0, <1>k, <1>5 DEF DeclineAborting, OutcomeInv, TxTypeOK, WorkingPcs
  <1>6. CASE DeclineAborted
    BY <1>0, <1>k, <1>6 DEF DeclineAborted, OutcomeInv, TxTypeOK, WorkingPcs
  <1>7. CASE RecordDivergence
    BY <1>0, <1>k, <1>7 DEF RecordDivergence, OutcomeInv, TxTypeOK, WorkingPcs
  <1>8. CASE RecordMoved
    BY <1>0, <1>k, <1>8 DEF RecordMoved, OutcomeInv, TxTypeOK, WorkingPcs
  <1>9. CASE ApplyTarget
    BY <1>0, <1>k, <1>9 DEF ApplyTarget, OutcomeInv, TxTypeOK, WorkingPcs
  <1>10. CASE TargetApplied
    BY <1>0, <1>k, <1>10 DEF TargetApplied, OutcomeInv, TxTypeOK, WorkingPcs
  <1>11. CASE FilesVerified
    BY <1>0, <1>k, <1>11 DEF FilesVerified, OutcomeInv, TxTypeOK, WorkingPcs
  <1>12. CASE CursorDurable
    BY <1>0, <1>k, <1>12 DEF CursorDurable, OutcomeInv, TxTypeOK, WorkingPcs
  <1>13. CASE CursorVolatile
    BY <1>0, <1>k, <1>13 DEF CursorVolatile, OutcomeInv, TxTypeOK, WorkingPcs
  <1>14. CASE CursorAmbiguous
    <2>1. CASE Spend("fail") /\ UNCHANGED <<cursors, diskLeaf>>
      BY <1>0, <1>k, <1>14, <2>1 DEF CursorAmbiguous, OutcomeInv, TxTypeOK, WorkingPcs
    <2>2. CASE Spend("ambiguous") /\ WriteCursor
      <3>1. ~CursorsKnown'
        BY <1>0, <2>2 DEF Spend, CursorsKnown, RestoreTypeOK, Faults
      <3> QED BY <1>0, <1>14, <2>2, <3>1 DEF CursorAmbiguous, OutcomeInv, TxTypeOK, WorkingPcs
    <2> QED BY <1>14, <2>1, <2>2 DEF CursorAmbiguous
  <1>15. CASE RecordAmbiguity
    BY <1>0, <1>k, <1>15 DEF RecordAmbiguity, OutcomeInv, TxTypeOK, WorkingPcs
  <1>16. CASE CompensateVolatile
    BY <1>0, <1>k, <1>16 DEF CompensateVolatile, OutcomeInv, TxTypeOK, WorkingPcs
  <1>17. CASE RecordCursor
    BY <1>0, <1>k, <1>17 DEF RecordCursor, OutcomeInv, TxTypeOK, WorkingPcs
  <1>18. CASE MarkCommitted
    BY <1>0, <1>k, <1>18 DEF MarkCommitted, OutcomeInv, TxTypeOK, WorkingPcs
  <1>19. CASE Cancel
    BY <1>0, <1>k, <1>19 DEF Cancel, OutcomeInv, TxTypeOK, WorkingPcs
  <1>20. CASE OperationFails
    BY <1>0, <1>k, <1>20 DEF OperationFails, OutcomeInv, TxTypeOK, WorkingPcs
  <1>21. ASSUME NEW x \in 0..(leaves - 1), NavigateDiverges(x) PROVE OutcomeInv'
    BY <1>0, <1>k, <1>21 DEF NavigateDiverges, OutcomeInv, TxTypeOK, WorkingPcs
  <1> QED
    BY <1>1, <1>2, <1>3, <1>4, <1>5, <1>6, <1>7, <1>8, <1>9, <1>10, <1>11, <1>12, <1>13, <1>14, <1>15, <1>16, <1>17, <1>18, <1>19, <1>20, <1>21 DEF Operation

(* The steps of a compensation keep it.                                    *)
LEMMA CompensationOutcome ==
  ASSUME TypeInv, OutcomeInv, Compensation
  PROVE  OutcomeInv'
  <1> USE DEF Release, Lock, Up, SetPhase, Goto, At, Returned, MayEnter, restoreVars, sessionVars,
              txVars, ActivePcs, UndecidedPcs, OperationPcs, CompensationPcs, RecoveryPcs,
              Terminal, Pending, CommittedHasCursor
  <1>0. RestoreTypeOK /\ TxTypeOK /\ (pc \in WorkingPcs => cur \in Ops)
    BY DEF TypeInv, RestoreInv, Working
  <1>k. spent' = spent \/ Spend("fail") => (CursorsKnown' => CursorsKnown)
    BY <1>0, KnownBefore DEF Faults
  <1>1. CASE CompensateAborting
    BY <1>0, <1>k, <1>1 DEF CompensateAborting, OutcomeInv, TxTypeOK, WorkingPcs
  <1>2. CASE RestoreLeaf
    BY <1>0, <1>k, <1>2 DEF RestoreLeaf, OutcomeInv, TxTypeOK, WorkingPcs
  <1>3. CASE RollbackApplied
    BY <1>0, <1>k, <1>3 DEF RollbackApplied, OutcomeInv, TxTypeOK, WorkingPcs
  <1>4. CASE CompensationDone
    BY <1>0, <1>k, <1>4 DEF CompensationDone, OutcomeInv, TxTypeOK, WorkingPcs
  <1>5. CASE CompensationFails
    BY <1>0, <1>k, <1>5 DEF CompensationFails, OutcomeInv, TxTypeOK, WorkingPcs
  <1> QED
    BY <1>1, <1>2, <1>3, <1>4, <1>5 DEF Compensation

(* The steps of a recovery keep it: the queue is the journals it has yet   *)
(* to settle, and the cursor entry decides.                                *)
LEMMA RecoveryOutcome ==
  ASSUME TypeInv, OutcomeInv, Recovery
  PROVE  OutcomeInv'
  <1> USE DEF Release, Lock, Up, SetPhase, Goto, At, Returned, MayEnter, restoreVars, sessionVars,
              txVars, ActivePcs, UndecidedPcs, OperationPcs, CompensationPcs, RecoveryPcs,
              Terminal, Pending, CommittedHasCursor
  <1>0. RestoreTypeOK /\ TxTypeOK /\ (pc \in WorkingPcs => cur \in Ops)
    BY DEF TypeInv, RestoreInv, Working
  <1>k. spent' = spent \/ Spend("fail") => (CursorsKnown' => CursorsKnown)
    BY <1>0, KnownBefore DEF Faults
  <1>1. ASSUME NEW op \in Ops, RecoverSettle(op) PROVE OutcomeInv'
    BY <1>0, <1>k, <1>1 DEF RecoverSettle, Settleable, OutcomeInv, TxTypeOK, WorkingPcs
  <1>2. ASSUME NEW op \in Ops, RecoverIgnore(op) PROVE OutcomeInv'
    BY <1>0, <1>k, <1>2 DEF RecoverIgnore, NotSettled, OutcomeInv, TxTypeOK, WorkingPcs
  <1>3. ASSUME NEW op \in Ops, RecoverMutations(op) PROVE OutcomeInv'
    BY <1>0, <1>k, <1>3 DEF RecoverMutations, NotSettled, OutcomeInv, TxTypeOK, WorkingPcs
  <1>4. CASE MutationsRecovered
    BY <1>0, <1>k, <1>4 DEF MutationsRecovered, OutcomeInv, TxTypeOK, WorkingPcs
  <1>5. CASE RestoreManifest
    BY <1>0, <1>k, <1>5 DEF RestoreManifest, OutcomeInv, TxTypeOK, WorkingPcs
  <1>6. CASE ManifestRestored
    BY <1>0, <1>k, <1>6 DEF ManifestRestored, OutcomeInv, TxTypeOK, WorkingPcs
  <1>7. CASE SettleRecovery
    BY <1>0, <1>k, <1>7 DEF SettleRecovery, OutcomeInv, TxTypeOK, WorkingPcs
  <1>8. CASE RecoveryDone
    BY <1>0, <1>k, <1>8 DEF RecoveryDone, OutcomeInv, TxTypeOK, WorkingPcs
  <1>9. CASE RecoveryLocks
    BY <1>0, <1>k, <1>9, SMTT(60) DEF RecoveryLocks, NotSettled, OutcomeInv, TxTypeOK, WorkingPcs
  <1> QED
    BY <1>1, <1>2, <1>3, <1>4, <1>5, <1>6, <1>7, <1>8, <1>9 DEF Recovery

(* A step of the engine is a failure, or no fault at all.                  *)
LEMMA EngineSpends ==
  ASSUME EngineStep
  PROVE  spent' = spent \/ Spend("fail")
  BY Zenon DEF EngineStep, BatchStep, UnwindStep, ForwardStep, OpenDeletes, OpenWrites,
         OpenBatch, Verify, BeginIntent, CreateTarget, FillTarget, LinkSource, RemoveSource,
         InstallTarget, MarkVerified, RemoveArtifacts, MarkCleaned, MutationFails, Fails,
         Unwound, RestoreKeep, RestoreUnlink, RestoreLink, RestoreFinish, Forwarded,
         ForwardDetach, ForwardInstall, ForwardClean, RecordConflict

(* So do the engine, which does not touch journals, and the environment.   *)
LEMMA EnvironmentOutcome ==
  ASSUME TypeInv, OutcomeInv, [Next]_vars, ~Operation, ~Compensation, ~Recovery
  PROVE  OutcomeInv'
  <1> USE DEF Release, Lock, Up, SetPhase, Goto, At, Returned, MayEnter, restoreVars, sessionVars,
              txVars, ActivePcs, UndecidedPcs, OperationPcs, CompensationPcs, RecoveryPcs,
              Terminal, Pending, CommittedHasCursor
  <1>0. RestoreTypeOK /\ TxTypeOK /\ (pc \in WorkingPcs => cur \in Ops)
    BY DEF TypeInv, RestoreInv, Working
  <1>k. spent' = spent \/ Spend("fail") => (CursorsKnown' => CursorsKnown)
    BY <1>0, KnownBefore DEF Faults
  <1>1. ASSUME NEW s \in Sessions, NEW op \in Ops, NEW target \in Targets,
               NEW to \in 0..(leaves - 1), Begin(s, op, target, to)
        PROVE  OutcomeInv'
    BY <1>0, <1>k, <1>1, SessionsAssumption DEF Begin, OutcomeInv, TxTypeOK, WorkingPcs
  <1>2. ASSUME NEW s \in Sessions, StartRecovery(s) PROVE OutcomeInv'
    BY <1>0, <1>k, <1>2, SessionsAssumption DEF StartRecovery, OutcomeInv, TxTypeOK, WorkingPcs
  <1>3. ASSUME NEW s \in Sessions, Restart(s) \/ AskRecover(s) PROVE OutcomeInv'
    BY <1>0, <1>k, <1>3 DEF Restart, AskRecover, OutcomeInv, TxTypeOK, WorkingPcs
  <1>4. CASE UNCHANGED vars
    BY <1>0, <1>k, <1>4 DEF vars, CursorsKnown, OutcomeInv, TxTypeOK, WorkingPcs
  <1>5. ASSUME UNCHANGED <<phase, cursors>>,
               UNCHANGED <<holder, pc, cur, queue>> \/ Release,
               spent' = spent \/ (\E f \in Faults : Spend(f))
        PROVE  OutcomeInv'
    <2>1. CursorsKnown' => CursorsKnown
      BY <1>0, <1>5, KnownBefore
    <2> QED BY <1>5, <2>1 DEF OutcomeInv
  <1>6. CASE Restoring
    <2>1. spent' = spent \/ Spend("fail")
      BY <1>6, EngineSpends DEF Restoring
    <2> QED BY <1>5, <1>6, <2>1 DEF Restoring, Faults
  <1>7. ASSUME NEW s \in Sessions, Crash(s) PROVE OutcomeInv'
    BY <1>5, <1>7 DEF Crash, Faults
  <1>8. ASSUME NEW s \in Sessions, Chat(s) PROVE OutcomeInv'
    BY <1>5, <1>8 DEF Chat, Faults
  <1>9. ASSUME NEW p \in Paths, NEW c \in Leaf, Edit(p, c) PROVE OutcomeInv'
    BY <1>5, <1>9 DEF Edit, ExternalEdit, Faults
  <1> QED
    BY <1>1, <1>2, <1>3, <1>4, <1>6, <1>7, <1>8, <1>9 DEF Next

(* Every step keeps the tie between the owner of the lock and its journal. *)
LEMMA NextOutcomeInv == TypeInv /\ OutcomeInv /\ [Next]_vars => OutcomeInv'
  BY OperationOutcome, CompensationOutcome, RecoveryOutcome, EnvironmentOutcome

(* The journal says committed only with a cursor entry behind it, for any  *)
(* sessions, operations, crashes, failures, edits and recoveries.          *)
THEOREM CommittedHasCursorAlways == Spec => []CommittedHasCursor
  <1>1. OutcomeInv => CommittedHasCursor
    BY DEF OutcomeInv
  <1> QED
    BY <1>1, InitTypeInv, NextTypeInv, InitOutcomeInv, NextOutcomeInv, PTL DEF Spec

(* While every append of a cursor entry reports what it did, an aborted    *)
(* operation has no entry, whoever aborted it.                             *)
THEOREM AbortedHasNoKnownCursorAlways == Spec => []AbortedHasNoKnownCursor
  <1>1. TypeInv /\ OutcomeInv => AbortedHasNoKnownCursor
    BY DEF OutcomeInv, AbortedHasNoKnownCursor, CursorsKnown
  <1> QED
    BY <1>1, InitTypeInv, NextTypeInv, InitOutcomeInv, NextOutcomeInv, PTL DEF Spec

(* Faults are only ever added.                                             *)
LEMMA SpentStep ==
  ASSUME [Next]_vars
  PROVE  spent' = spent \/ (\E f \in Faults : Spend(f))
  <1> USE DEF restoreVars, sessionVars, txVars, Faults
  <1>1. CASE Operation
    BY <1>1 DEF Operation, AbandonPlan, Prepare, Navigate, NavigateDeclined, NavigateDiverges,
                DeclineAborting, DeclineAborted, RecordDivergence, RecordMoved, ApplyTarget,
                TargetApplied, FilesVerified, CursorDurable, CursorVolatile, CursorAmbiguous,
                RecordAmbiguity, CompensateVolatile, RecordCursor, MarkCommitted, Cancel,
                OperationFails
  <1>2. CASE Compensation
    BY <1>2 DEF Compensation, CompensateAborting, RestoreLeaf, RollbackApplied, CompensationDone,
                CompensationFails
  <1>3. CASE Recovery
    BY <1>3 DEF Recovery, RecoverSettle, RecoverIgnore, RecoverMutations, NotSettled,
                MutationsRecovered, RestoreManifest, ManifestRestored, SettleRecovery,
                RecoveryDone, RecoveryLocks
  <1>4. CASE Restoring
    BY <1>4, EngineSpends DEF Restoring
  <1>5. CASE UNCHANGED vars
    BY <1>5 DEF vars
  <1> QED
    BY <1>1, <1>2, <1>3, <1>4, <1>5
       DEF Next, Begin, StartRecovery, Crash, Restart, AskRecover, Chat, Edit, ExternalEdit

-----------------------------------------------------------------------------
(* The transaction implements AtomicUndo: a step of Next changes the phase *)
(* of one operation, or adds the cursor entry of one, and either keeps the *)
(* outcome or moves it the way AtomicUndo allows.                          *)

Live(op) == phase[op] \notin Terminal \cup {"NONE"}

LegalPhase(op, next) ==
  \/ phase[op] = "NONE" /\ next = "PREPARED"
  \/ Live(op) /\ next \notin Terminal \cup {"NONE"}
  \/ Live(op) /\ next = "COMMITTED" /\ op \in cursors
  \/ Live(op) /\ next = "ABORTED" /\ op \notin cursors

PhaseStep == \E op \in Ops, next \in Phases : SetPhase(op, next) /\ LegalPhase(op, next)

CursorStep ==
  cur \in Ops /\ Live(cur) /\ cur \notin cursors /\ cursors' = cursors \cup {cur}

DurableStep ==
  \/ UNCHANGED <<phase, cursors>>
  \/ PhaseStep /\ UNCHANGED cursors
  \/ CursorStep /\ UNCHANGED phase

(* As long as every append of a cursor entry reports what it did, a step   *)
(* writes one phase, by a transition of the journal that the cursor entry  *)
(* allows, or one cursor entry.                                            *)
LEMMA DurableStepHolds ==
  ASSUME TypeInv, OutcomeInv, CursorsKnown', [Next]_vars
  PROVE  DurableStep
  <1> USE DEF Release, Lock, Up, SetPhase, Goto, At, Returned, MayEnter, restoreVars, sessionVars,
              txVars, WorkingPcs, ActivePcs, UndecidedPcs, OperationPcs, CompensationPcs,
              RecoveryPcs, Terminal, Pending, Live
  <1>0. /\ RestoreTypeOK /\ TxTypeOK /\ (pc \in WorkingPcs => cur \in Ops) /\ CursorsKnown
        /\ {"PREPARED", "APPLYING", "FILES_VERIFIED", "CURSOR_COMMITTED", "ABORTING",
            "RECOVERY_REQUIRED", "ABORTED", "COMMITTED"} \subseteq Phases
    <2>1. spent' = spent \/ (\E f \in Faults : Spend(f))
      BY SpentStep
    <2>2. RestoreTypeOK /\ TxTypeOK /\ (pc \in WorkingPcs => cur \in Ops)
      BY DEF TypeInv, RestoreInv, Working
    <2> QED BY <2>1, <2>2, KnownBefore DEF Phases
  <1>1. CASE Prepare
    BY <1>0, <1>1 DEF Prepare, OutcomeInv, DurableStep, PhaseStep, LegalPhase
  <1>2. CASE DeclineAborting
    BY <1>0, <1>2 DEF DeclineAborting, OutcomeInv, DurableStep, PhaseStep, LegalPhase
  <1>3. CASE RecordDivergence
    BY <1>0, <1>3 DEF RecordDivergence, OutcomeInv, DurableStep, PhaseStep, LegalPhase
  <1>4. CASE RecordMoved
    BY <1>0, <1>4 DEF RecordMoved, OutcomeInv, DurableStep, PhaseStep, LegalPhase
  <1>5. CASE FilesVerified
    BY <1>0, <1>5 DEF FilesVerified, OutcomeInv, DurableStep, PhaseStep, LegalPhase
  <1>6. CASE RecordCursor
    BY <1>0, <1>6 DEF RecordCursor, OutcomeInv, DurableStep, PhaseStep, LegalPhase
  <1>7. CASE MarkCommitted
    BY <1>0, <1>7 DEF MarkCommitted, OutcomeInv, DurableStep, PhaseStep, LegalPhase
  <1>8. CASE DeclineAborted
    BY <1>0, <1>8 DEF DeclineAborted, OutcomeInv, DurableStep, PhaseStep, LegalPhase
  <1>9. CASE CursorDurable
    BY <1>0, <1>9 DEF CursorDurable, WriteCursor, OutcomeInv, DurableStep, CursorStep
  <1>10. CASE CursorAmbiguous
    <2>1. ~Spend("ambiguous")
      BY <1>0 DEF Spend, CursorsKnown, RestoreTypeOK, Faults
    <2> QED BY <1>10, <2>1 DEF CursorAmbiguous, DurableStep
  <1>11. CASE RecordAmbiguity
    BY <1>0, <1>11 DEF RecordAmbiguity, OutcomeInv, DurableStep, PhaseStep, LegalPhase
  <1>12. CASE OperationFails
    BY <1>0, <1>12 DEF OperationFails, OutcomeInv, DurableStep, PhaseStep, LegalPhase
  <1>13. CASE \/ AbandonPlan \/ Navigate \/ NavigateDeclined \/ (\E x \in 0..(leaves - 1) : NavigateDiverges(x))
            \/ ApplyTarget \/ TargetApplied \/ CursorVolatile \/ CompensateVolatile \/ Cancel
    BY <1>13 DEF AbandonPlan, Navigate, NavigateDeclined, NavigateDiverges, ApplyTarget, TargetApplied,
                 CursorVolatile, CompensateVolatile, Cancel, DurableStep
  <1>14. CASE CompensateAborting
    BY <1>0, <1>14 DEF CompensateAborting, OutcomeInv, DurableStep, PhaseStep, LegalPhase
  <1>15. CASE CompensationDone
    BY <1>0, <1>15 DEF CompensationDone, OutcomeInv, DurableStep, PhaseStep, LegalPhase
  <1>16. CASE CompensationFails
    BY <1>0, <1>16 DEF CompensationFails, OutcomeInv, DurableStep, PhaseStep, LegalPhase
  <1>17. CASE RestoreLeaf \/ RollbackApplied
    BY <1>17 DEF RestoreLeaf, RollbackApplied, DurableStep
  <1>18. ASSUME NEW op \in Ops, RecoverSettle(op) PROVE DurableStep
    BY <1>0, <1>18 DEF RecoverSettle, Settleable, OutcomeInv, DurableStep, PhaseStep, LegalPhase
  <1>19. ASSUME NEW op \in Ops, RecoverIgnore(op) \/ RecoverMutations(op) PROVE DurableStep
    BY <1>19 DEF RecoverIgnore, RecoverMutations, DurableStep
  <1>20. CASE SettleRecovery
    BY <1>0, <1>20 DEF SettleRecovery, OutcomeInv, DurableStep, PhaseStep, LegalPhase
  <1>21. CASE MutationsRecovered \/ RestoreManifest \/ ManifestRestored \/ RecoveryDone \/ RecoveryLocks
    BY <1>21 DEF MutationsRecovered, RestoreManifest, ManifestRestored, RecoveryDone, RecoveryLocks,
                 DurableStep
  <1>22. ASSUME NEW s \in Sessions, NEW op \in Ops, NEW target \in Targets,
               NEW to \in 0..(leaves - 1), Begin(s, op, target, to)
        PROVE  DurableStep
    BY <1>22 DEF Begin, DurableStep
  <1>23. ASSUME NEW s \in Sessions,
               StartRecovery(s) \/ Crash(s) \/ Restart(s) \/ AskRecover(s) \/ Chat(s)
        PROVE  DurableStep
    BY <1>23 DEF StartRecovery, Crash, Restart, AskRecover, Chat, DurableStep
  <1>24. CASE Restoring \/ (\E p \in Paths, c \in Leaf : Edit(p, c)) \/ UNCHANGED vars
    BY <1>24 DEF Restoring, Edit, vars, DurableStep
  <1> QED
    BY <1>1, <1>2, <1>3, <1>4, <1>5, <1>6, <1>7, <1>8, <1>9, <1>10, <1>11, <1>12, <1>13, <1>14, <1>15, <1>16, <1>17, <1>18, <1>19, <1>20, <1>21, <1>22, <1>23, <1>24
       DEF Next, Operation, Compensation, Recovery

(* A step that changes nothing but the outcome of one operation.           *)
LEMMA OutcomeOf ==
  ASSUME NEW op \in Ops,
         \A x \in Ops \ {op} : phase'[x] = phase[x] /\ (x \in cursors' <=> x \in cursors)
  PROVE  AllOutcomes' = [AllOutcomes EXCEPT ![op] = Outcome(op)']
  <1>1. \A x \in Ops \ {op} : Outcome(x)' = Outcome(x)
    BY DEF Outcome
  <1> QED BY <1>1 DEF AllOutcomes

(* What the steps allow of the journal is what AtomicUndo allows of the    *)
(* outcome.                                                                *)
LEMMA DurableStepRefines ==
  ASSUME TypeInv, OutcomeInv, CursorsKnown, DurableStep
  PROVE  [Atomic!Next]_AllOutcomes
  <1> USE DEF Terminal, Live, AllOutcomes
  <1>0. /\ phase \in [Ops -> Phases] /\ cursors \subseteq Ops
        /\ \A op \in cursors : phase[op] \notin {"NONE", "ABORTED"}
    BY DEF TypeInv, TxTypeOK, OutcomeInv
  <1>1. CASE UNCHANGED <<phase, cursors>>
    BY <1>1 DEF Outcome
  <1>2. CASE CursorStep /\ UNCHANGED phase
    <2>1. PICK op \in Ops : Live(op) /\ op \notin cursors /\ cursors' = cursors \cup {op}
      BY <1>2 DEF CursorStep
    <2>2. Outcome(op) = "pending" /\ Outcome(op)' = "decided"
      BY <1>2, <2>1 DEF Outcome
    <2>3. AllOutcomes' = [AllOutcomes EXCEPT ![op] = "decided"]
      BY <1>2, <2>1, <2>2, OutcomeOf
    <2>4. Atomic!Decide(op)
      BY <2>2, <2>3 DEF Atomic!Decide, Atomic!Moves
    <2> QED BY <2>4 DEF Atomic!Next
  <1>3. CASE PhaseStep /\ UNCHANGED cursors
    <2>1. PICK op \in Ops, next \in Phases : SetPhase(op, next) /\ LegalPhase(op, next)
      BY <1>3 DEF PhaseStep
    <2>2. phase'[op] = next /\ \A x \in Ops \ {op} : phase'[x] = phase[x]
      BY <1>0, <2>1 DEF SetPhase
    <2>3. AllOutcomes' = [AllOutcomes EXCEPT ![op] = Outcome(op)']
      BY <1>3, <2>2, OutcomeOf
    <2>4. CASE phase[op] = "NONE" /\ next = "PREPARED"
      <3>1. Outcome(op) = "none" /\ Outcome(op)' = "pending"
        BY <1>0, <1>3, <2>2, <2>4 DEF Outcome
      <3>2. Atomic!Start(op)
        BY <2>3, <3>1 DEF Atomic!Start, Atomic!Moves
      <3> QED BY <3>2 DEF Atomic!Next
    <2>5. CASE Live(op) /\ next \notin Terminal \cup {"NONE"}
      <3>1. Outcome(op)' = Outcome(op)
        BY <1>3, <2>2, <2>5 DEF Outcome
      <3> QED BY <2>3, <3>1
    <2>6. CASE Live(op) /\ next = "COMMITTED" /\ op \in cursors
      <3>1. Outcome(op) = "decided" /\ Outcome(op)' = "committed"
        BY <2>2, <2>6 DEF Outcome
      <3>2. Atomic!Commit(op)
        BY <2>3, <3>1 DEF Atomic!Commit, Atomic!Moves
      <3> QED BY <3>2 DEF Atomic!Next
    <2>7. CASE Live(op) /\ next = "ABORTED" /\ op \notin cursors
      <3>1. Outcome(op) = "pending" /\ Outcome(op)' = "aborted"
        BY <2>2, <2>7 DEF Outcome
      <3>2. Atomic!Abort(op)
        BY <2>3, <3>1 DEF Atomic!Abort, Atomic!Moves
      <3> QED BY <3>2 DEF Atomic!Next
    <2> QED BY <2>1, <2>4, <2>5, <2>6, <2>7 DEF LegalPhase
  <1> QED BY <1>1, <1>2, <1>3 DEF DurableStep

(* While no append of a cursor entry goes wrong unnoticed, the transaction *)
(* implements AtomicUndo: an operation is decided at most once, by its     *)
(* cursor entry, and no crash, cancellation or recovery revises what was   *)
(* decided (controller.ts performOperation, recovery.ts recover).          *)
THEOREM ImplementsAtomicUndo ==
  ASSUME Limit["ambiguous"] = 0
  PROVE  Spec => AtomicSpec
  <1> DEFINE Inv == TypeInv /\ OutcomeInv /\ CursorsKnown
  <1>1. Init => Inv /\ Atomic!Init
    <2>1. Init => CursorsKnown
      BY DEF Init, CursorsKnown, Faults
    <2>2. Init => Atomic!Init
      BY DEF Init, Atomic!Init, AllOutcomes, Outcome
    <2> QED BY <2>1, <2>2, InitTypeInv, InitOutcomeInv
  <1>2. Inv /\ [Next]_vars => Inv' /\ [Atomic!Next]_AllOutcomes
    <2> SUFFICES ASSUME Inv, [Next]_vars PROVE Inv' /\ [Atomic!Next]_AllOutcomes
      OBVIOUS
    <2>1. TypeInv' /\ OutcomeInv'
      BY NextTypeInv, NextOutcomeInv
    <2>2. CursorsKnown'
      BY SpentStep, LimitAssumption, SMTT(60) DEF Spend, CursorsKnown, TypeInv, RestoreInv,
                                        RestoreTypeOK, Faults
    <2>3. [Atomic!Next]_AllOutcomes
      BY <2>2, DurableStepHolds, DurableStepRefines
    <2> QED BY <2>1, <2>2, <2>3
  <1> QED BY <1>1, <1>2, PTL DEF Spec, AtomicSpec, Atomic!Spec

-----------------------------------------------------------------------------
(* Who may own an unsettled operation: the session that works on it, a     *)
(* locked session, or one whose process is down or recovering.             *)

(* The owner of the lock is up and works on an operation of its own, or it *)
(* recovers and every pending operation of its session is in its queue.    *)
LockInv ==
  /\ pc = "free" => holder = NoSession
  /\ pc \in OperationPcs \cup CompensationPcs =>
       status[holder] = "up" /\ desc[cur].session = holder
  /\ pc \in RecoveryPcs =>
       /\ status[holder] = "starting"
       /\ \A op \in Pending : desc[op].session = holder => op \in queue
  /\ pc \in {"diverged", "ambiguous"} => locked[holder]
  /\ \A op \in Pending :
       status[desc[op].session] = "up" /\ ~locked[desc[op].session]
         => holder = desc[op].session /\ op = cur

(* What the steps below need of the types and of the phase at each place.  *)
Typed ==
  /\ phase \in [Ops -> Phases]
  /\ status \in [Sessions -> {"down", "starting", "up"}]
  /\ locked \in [Sessions -> BOOLEAN]
  /\ \A op \in Ops : desc[op].session \in Sessions
  /\ pc /= "free" => holder \in Sessions
  /\ pc \in WorkingPcs => cur \in Ops
  /\ pc = "planned" => phase[cur] = "NONE"
  /\ holder \in Sessions \cup {NoSession}
  /\ pc \in Pcs

(* They follow from the invariants of the transaction.                     *)
LEMMA TypedFacts ==
  ASSUME TypeInv, OutcomeInv
  PROVE  Typed
  BY DEF TypeInv, TxTypeOK, Working, OutcomeInv, Typed, Descriptor

(* Nothing is pending at first.                                            *)
LEMMA InitLockInv == Init => LockInv
  BY DEF Init, LockInv, Pending, Terminal, OperationPcs, CompensationPcs, RecoveryPcs

(* An operation that stops unsettled locks its session, or settles first.  *)
LEMMA OperationLocks ==
  ASSUME TypeInv, OutcomeInv, LockInv, Operation
  PROVE  LockInv'
  <1> USE DEF Release, Lock, Up, SetPhase, Goto, At, Returned, MayEnter, restoreVars, sessionVars,
              txVars, LockInv, WorkingPcs, ActivePcs, OperationPcs, CompensationPcs, RecoveryPcs,
              Terminal, Pending
  <1>0. Typed
    BY TypedFacts
  <1>1. CASE AbandonPlan
    BY <1>0, <1>1 DEF AbandonPlan, Typed
  <1>2. CASE Prepare
    BY <1>0, <1>2 DEF Prepare, Typed
  <1>3. CASE Navigate
    BY <1>0, <1>3 DEF Navigate, Typed
  <1>4. CASE NavigateDeclined
    BY <1>0, <1>4 DEF NavigateDeclined, Typed
  <1>5. CASE DeclineAborting
    BY <1>0, <1>5 DEF DeclineAborting, Typed
  <1>6. CASE DeclineAborted
    BY <1>0, <1>6 DEF DeclineAborted, Typed
  <1>7. CASE RecordDivergence
    BY <1>0, <1>7 DEF RecordDivergence, Typed
  <1>8. CASE RecordMoved
    BY <1>0, <1>8 DEF RecordMoved, Typed
  <1>9. CASE ApplyTarget
    BY <1>0, <1>9 DEF ApplyTarget, Typed
  <1>10. CASE TargetApplied
    BY <1>0, <1>10 DEF TargetApplied, Typed
  <1>11. CASE FilesVerified
    BY <1>0, <1>11 DEF FilesVerified, Typed
  <1>12. CASE CursorDurable
    BY <1>0, <1>12 DEF CursorDurable, Typed, WriteCursor
  <1>13. CASE CursorVolatile
    BY <1>0, <1>13 DEF CursorVolatile, Typed, WriteCursor
  <1>14. CASE CursorAmbiguous
    BY <1>0, <1>14 DEF CursorAmbiguous, Typed, WriteCursor
  <1>15. CASE RecordAmbiguity
    BY <1>0, <1>15 DEF RecordAmbiguity, Typed
  <1>16. CASE CompensateVolatile
    BY <1>0, <1>16 DEF CompensateVolatile, Typed
  <1>17. CASE RecordCursor
    BY <1>0, <1>17 DEF RecordCursor, Typed
  <1>18. CASE MarkCommitted
    BY <1>0, <1>18 DEF MarkCommitted, Typed
  <1>19. CASE Cancel
    BY <1>0, <1>19 DEF Cancel, Typed
  <1>20. CASE OperationFails
    BY <1>0, <1>20 DEF OperationFails, Typed
  <1>21. ASSUME NEW x \in 0..(leaves - 1), NavigateDiverges(x) PROVE LockInv'
    BY <1>0, <1>21 DEF NavigateDiverges, Typed
  <1> QED
    BY <1>1, <1>2, <1>3, <1>4, <1>5, <1>6, <1>7, <1>8, <1>9, <1>10, <1>11, <1>12, <1>13, <1>14, <1>15, <1>16, <1>17, <1>18, <1>19, <1>20, <1>21 DEF Operation

(* So does its compensation.                                               *)
LEMMA CompensationLocks ==
  ASSUME TypeInv, OutcomeInv, LockInv, Compensation
  PROVE  LockInv'
  <1> USE DEF Release, Lock, Up, SetPhase, Goto, At, Returned, MayEnter, restoreVars, sessionVars,
              txVars, LockInv, WorkingPcs, ActivePcs, OperationPcs, CompensationPcs, RecoveryPcs,
              Terminal, Pending
  <1>0. Typed
    BY TypedFacts
  <1>1. CASE CompensateAborting
    BY <1>0, <1>1 DEF CompensateAborting, Typed
  <1>2. CASE RestoreLeaf
    BY <1>0, <1>2 DEF RestoreLeaf, Typed
  <1>3. CASE RollbackApplied
    BY <1>0, <1>3 DEF RollbackApplied, Typed
  <1>4. CASE CompensationDone
    BY <1>0, <1>4 DEF CompensationDone, Typed
  <1>5. CASE CompensationFails
    BY <1>0, <1>5 DEF CompensationFails, Typed
  <1> QED
    BY <1>1, <1>2, <1>3, <1>4, <1>5 DEF Compensation

(* A recovery takes an operation of its own session out of the queue only  *)
(* when it is settled.                                                     *)
LEMMA RecoveryLocksOrSettles ==
  ASSUME TypeInv, OutcomeInv, LockInv, Recovery
  PROVE  LockInv'
  <1> USE DEF Release, Lock, Up, SetPhase, Goto, At, Returned, MayEnter, restoreVars, sessionVars,
              txVars, LockInv, WorkingPcs, ActivePcs, OperationPcs, CompensationPcs, RecoveryPcs,
              Terminal, Pending
  <1>0. Typed
    BY TypedFacts
  <1>1. ASSUME NEW op \in Ops, RecoverSettle(op) PROVE LockInv'
    BY <1>0, <1>1 DEF RecoverSettle, Typed
  <1>2. ASSUME NEW op \in Ops, RecoverIgnore(op) PROVE LockInv'
    BY <1>0, <1>2 DEF RecoverIgnore, Typed, Foreign
  <1>3. ASSUME NEW op \in Ops, RecoverMutations(op) PROVE LockInv'
    BY <1>0, <1>3 DEF RecoverMutations, Typed
  <1>4. CASE MutationsRecovered
    BY <1>0, <1>4 DEF MutationsRecovered, Typed
  <1>5. CASE RestoreManifest
    BY <1>0, <1>5 DEF RestoreManifest, Typed
  <1>6. CASE ManifestRestored
    BY <1>0, <1>6 DEF ManifestRestored, Typed
  <1>7. CASE SettleRecovery
    BY <1>0, <1>7 DEF SettleRecovery, Typed
  <1>8. CASE RecoveryDone
    BY <1>0, <1>8 DEF RecoveryDone, Typed
  <1>9. CASE RecoveryLocks
    BY <1>0, <1>9 DEF RecoveryLocks, Typed
  <1> QED
    BY <1>1, <1>2, <1>3, <1>4, <1>5, <1>6, <1>7, <1>8, <1>9 DEF Recovery

(* A session begins an operation or a recovery only while nobody holds the *)
(* lock, and a crash takes its own session down.                           *)
LEMMA EnvironmentLocks ==
  ASSUME TypeInv, OutcomeInv, LockInv, [Next]_vars, ~Operation, ~Compensation, ~Recovery
  PROVE  LockInv'
  <1> USE DEF Release, Lock, Up, SetPhase, Goto, At, Returned, MayEnter, restoreVars, sessionVars,
              txVars, LockInv, WorkingPcs, ActivePcs, OperationPcs, CompensationPcs, RecoveryPcs,
              Terminal, Pending
  <1>0. Typed
    BY TypedFacts
  <1>1. ASSUME NEW s \in Sessions, NEW op \in Ops, NEW target \in Targets,
               NEW to \in 0..(leaves - 1), Begin(s, op, target, to)
        PROVE  LockInv'
    <2>1. desc'[op].session = s /\ \A q \in Ops \ {op} : desc'[q] = desc[q]
      BY <1>1 DEF Begin, TypeInv, TxTypeOK
    <2> QED BY <1>0, <1>1, <2>1, SessionsAssumption DEF Begin, Typed
  <1>2. ASSUME NEW s \in Sessions, StartRecovery(s) PROVE LockInv'
    BY <1>0, <1>2, SessionsAssumption DEF StartRecovery, Typed
  <1>3. ASSUME NEW s \in Sessions, Restart(s) PROVE LockInv'
    BY <1>0, <1>3 DEF Restart, Typed
  <1>4. ASSUME NEW s \in Sessions, AskRecover(s) PROVE LockInv'
    BY <1>0, <1>4 DEF AskRecover, Typed
  <1>5. ASSUME NEW s \in Sessions, Crash(s) PROVE LockInv'
    BY <1>0, <1>5 DEF Crash, Typed
  <1>6. ASSUME UNCHANGED <<phase, desc, status, locked, holder, pc, cur, queue>> PROVE LockInv'
    BY <1>6
  <1>7. UNCHANGED vars \/ Restoring \/ (\E s \in Sessions : Chat(s))
          \/ (\E p \in Paths, c \in Leaf : Edit(p, c)) => LockInv'
    BY <1>6 DEF vars, Restoring, Chat, Edit
  <1> QED
    BY <1>1, <1>2, <1>3, <1>4, <1>5, <1>7 DEF Next

(* Every step keeps it.                                                    *)
LEMMA NextLockInv == TypeInv /\ OutcomeInv /\ LockInv /\ [Next]_vars => LockInv'
  BY OperationLocks, CompensationLocks, RecoveryLocksOrSettles, EnvironmentLocks

(* A session that is up and not locked owns nothing unsettled beside what  *)
(* it works on, for any number of sessions, crashes and failures           *)
(* (controller.ts performOperation, compensate; recovery.ts recover).      *)
THEOREM UnlockedMeansSettledAlways == Spec => []UnlockedMeansSettled
  <1>1. LockInv => UnlockedMeansSettled
    BY DEF LockInv, UnlockedMeansSettled, Owned, Pending
  <1> QED
    BY <1>1, InitTypeInv, NextTypeInv, InitOutcomeInv, NextOutcomeInv, InitLockInv, NextLockInv,
       PTL DEF Spec

-----------------------------------------------------------------------------
(* What the outcome of an operation says of its log, of the session leaf   *)
(* and of the files: where the call in progress belongs (CallInv), what is *)
(* left in the logs (CleanInv), where the leaf is (LeafInv), where the     *)
(* files are (FilesInv) and what the log tells about them (HistInv).       *)

(* The call in progress is the one the place in the protocol says, with    *)
(* the manifests of the operation at work.                                 *)
CallPcs == {"applying", "compensating", "restoring", "mutations"}

CallInv ==
  /\ pc \notin CallPcs => job = IdleJob
  /\ pc \in CallPcs => job.op = cur /\ job.step /= "idle"
  /\ pc = "mutations" => job.ctx = "recover" /\ job.step \in {"unwind", "forward", "done"}
  /\ pc \in CallPcs \ {"mutations"} =>
       job.ctx \in {"apply", "rollback"} /\ job.step /= "forward"
  /\ pc \in {"apply", "applying", "compensating", "restore", "restoring"} => ~SessionOnly(cur)
  /\ pc = "applying" => job.base = desc[cur].rollback /\ job.goal = desc[cur].target
  /\ pc = "compensating" => job.base = desc[cur].target /\ job.goal = desc[cur].rollback
  /\ pc = "restoring" => job.goal = RecoveryTarget(cur)

(* Only the engine and other programs write files, and only the engine     *)
(* writes logs. The rest of the protocol starts a call, takes its result,  *)
(* dies with it or leaves it alone.                                        *)
Waits == UNCHANGED <<wal, job>> \/ (job' = IdleJob /\ UNCHANGED wal)
Calls == ApplyTarget \/ RestoreLeaf \/ RestoreManifest \/ \E op \in Ops : RecoverMutations(op)

(* Every step writes in one of these ways.                                 *)
LEMMA WhoWrites ==
  ASSUME [Next]_vars
  PROVE  /\ Restoring \/ Waits \/ Calls
         /\ Restoring \/ (\E p \in Paths, c \in Leaf : Edit(p, c)) \/ UNCHANGED <<files, dirty>>
              \/ (\E s \in Sessions, op \in Ops, target \in Targets, to \in 0..(leaves - 1) :
                    Begin(s, op, target, to))
         /\ Restoring \/ UNCHANGED wal
  <1> USE DEF restoreVars, Waits, Calls
  <1>1. CASE Operation
    BY <1>1 DEF Operation, AbandonPlan, Prepare, Navigate, NavigateDeclined, NavigateDiverges,
                DeclineAborting, DeclineAborted, RecordDivergence, RecordMoved, ApplyTarget,
                TargetApplied, FilesVerified, CursorDurable, CursorVolatile, CursorAmbiguous,
                RecordAmbiguity, CompensateVolatile, RecordCursor, MarkCommitted, Cancel,
                OperationFails, Returned, StartApply
  <1>2. CASE Compensation
    BY <1>2, SMTT(60) DEF Compensation, CompensateAborting, RestoreLeaf, RollbackApplied, CompensationDone,
                CompensationFails, Returned, StartApply
  <1>3. CASE Recovery
    BY <1>3 DEF Recovery, RecoverSettle, RecoverIgnore, RecoverMutations, MutationsRecovered,
                RestoreManifest, ManifestRestored, SettleRecovery, RecoveryDone, RecoveryLocks,
                Returned, StartApply, StartRecoverMutations
  <1>4. CASE UNCHANGED vars
    BY <1>4 DEF vars
  <1> QED
    BY <1>1, <1>2, <1>3, <1>4
       DEF Next, Begin, StartRecovery, Crash, Restart, AskRecover, Chat, Edit, ExternalEdit

(* So the engine's invariant holds of the whole transaction.               *)
LEMMA InitEngineInv == Init => EngineInv
  BY InitEngine DEF Init

(* Every step keeps it.                                                    *)
LEMMA NextEngineInv ==
  ASSUME TypeInv, EngineInv, [Next]_vars
  PROVE  EngineInv'
  <1>0. RestoreInv /\ TxTypeOK /\ Working
    BY DEF TypeInv
  <1>1. CASE Restoring
    BY <1>0, <1>1, EngineStepEngine DEF Restoring
  <1>2. CASE Waits
    BY <1>2, OthersEngine, IdleEngine DEF Waits
  <1>3. ASSUME At("apply") \/ At("restoreLeaf") \/ At("restore")
        PROVE  /\ cur \in Ops /\ desc[cur].rollback \in Manifests /\ desc[cur].target \in Manifests
               /\ Captured(DOMAIN desc[cur].target) \in Manifests
               /\ RecoveryTarget(cur) \in Manifests
    <2>1. cur \in Ops
      BY <1>0, <1>3 DEF At, Working, WorkingPcs, OperationPcs, CompensationPcs
    <2>2. desc[cur].rollback \in Manifests /\ desc[cur].target \in Manifests
      BY <1>0, <2>1 DEF TxTypeOK, Descriptor
    <2>3. Captured(DOMAIN desc[cur].target) \in Manifests
      BY <1>0, <2>2, ManifestValue, CapturedType DEF RestoreInv
    <2> QED BY <2>1, <2>2, <2>3 DEF RecoveryTarget
  <1>4. CASE ApplyTarget \/ RestoreLeaf \/ RestoreManifest
    <2>1. At("apply") \/ At("restoreLeaf") \/ At("restore")
      BY <1>4 DEF ApplyTarget, RestoreLeaf, RestoreManifest
    <2>2. \/ UNCHANGED <<wal, job>>
          \/ StartApply(cur, desc[cur].rollback, desc[cur].target)
          \/ StartApply(cur, desc[cur].target, desc[cur].rollback)
          \/ StartApply(cur, Captured(DOMAIN desc[cur].target), RecoveryTarget(cur))
      BY <1>4 DEF ApplyTarget, RestoreLeaf, RestoreManifest
    <2> QED BY <1>3, <2>1, <2>2, StartApplyEngine, OthersEngine
  <1>5. ASSUME NEW op \in Ops, RecoverMutations(op) PROVE EngineInv'
    BY <1>5, StartRecoverEngine DEF RecoverMutations
  <1> QED BY <1>1, <1>2, <1>4, <1>5, WhoWrites DEF Calls

(* A call that starts.                                                     *)
LEMMA StartedApply ==
  ASSUME NEW op, NEW base, NEW goal, StartApply(op, base, goal)
  PROVE  /\ job'.op = op /\ job'.step \in {"done", "delete"} /\ job'.ctx = "apply"
         /\ job'.base = base /\ job'.goal = goal /\ UNCHANGED <<files, wal>>
         /\ job'.step = "done" => job'.result /= "ok"
  BY DEF StartApply, IdleJob

(* No call is in progress at first.                                        *)
LEMMA InitCallInv == Init => CallInv
  BY DEF Init, CallInv, CallPcs

(* The steps of an operation.                                              *)
LEMMA OperationCall ==
  ASSUME TypeInv, OutcomeInv, CallInv, Operation
  PROVE  CallInv'
  <1> USE DEF Release, Lock, Up, SetPhase, Goto, At, Returned, restoreVars, sessionVars, txVars,
              CallInv, CallPcs, OperationPcs, CompensationPcs, WorkingPcs
  <1>0. /\ job \in Job /\ desc \in [Ops -> Descriptor]
        /\ pc \in WorkingPcs => cur \in Ops
        /\ \A op \in Ops : DOMAIN desc[op].rollback = DOMAIN desc[op].target
    BY DEF TypeInv, RestoreInv, RestoreTypeOK, TxTypeOK, Working
  <1>1. CASE AbandonPlan
    BY <1>0, <1>1 DEF AbandonPlan, SessionOnly
  <1>2. CASE Prepare
    BY <1>0, <1>2 DEF Prepare, SessionOnly
  <1>3. CASE Navigate
    BY <1>0, <1>3 DEF Navigate, SessionOnly
  <1>4. CASE NavigateDeclined
    BY <1>0, <1>4 DEF NavigateDeclined, SessionOnly
  <1>5. CASE DeclineAborting
    BY <1>0, <1>5 DEF DeclineAborting, SessionOnly
  <1>6. CASE DeclineAborted
    BY <1>0, <1>6 DEF DeclineAborted, SessionOnly
  <1>7. CASE RecordDivergence
    BY <1>0, <1>7 DEF RecordDivergence, SessionOnly
  <1>8. CASE RecordMoved
    BY <1>0, <1>8 DEF RecordMoved, SessionOnly, SessionOnly
  <1>9. CASE ApplyTarget
    <2>1. job'.op = cur /\ job'.step \in {"done", "delete"} /\ job'.ctx = "apply"
            /\ job'.base = desc[cur].rollback /\ job'.goal = desc[cur].target
      BY <1>9, StartedApply DEF ApplyTarget
    <2> QED BY <1>0, <1>9, <2>1 DEF ApplyTarget, SessionOnly, RecoveryTarget
  <1>10. CASE TargetApplied
    BY <1>0, <1>10 DEF TargetApplied, SessionOnly
  <1>11. CASE FilesVerified
    BY <1>0, <1>11 DEF FilesVerified, SessionOnly
  <1>12. CASE CursorDurable
    BY <1>0, <1>12 DEF CursorDurable, SessionOnly
  <1>13. CASE CursorVolatile
    BY <1>0, <1>13 DEF CursorVolatile, SessionOnly
  <1>14. CASE CursorAmbiguous
    BY <1>0, <1>14 DEF CursorAmbiguous, SessionOnly
  <1>15. CASE RecordAmbiguity
    BY <1>0, <1>15 DEF RecordAmbiguity, SessionOnly
  <1>16. CASE CompensateVolatile
    BY <1>0, <1>16 DEF CompensateVolatile, SessionOnly
  <1>17. CASE RecordCursor
    BY <1>0, <1>17 DEF RecordCursor, SessionOnly
  <1>18. CASE MarkCommitted
    BY <1>0, <1>18 DEF MarkCommitted, SessionOnly
  <1>19. CASE Cancel
    BY <1>0, <1>19 DEF Cancel, SessionOnly
  <1>20. CASE OperationFails
    BY <1>0, <1>20 DEF OperationFails, SessionOnly
  <1>21. ASSUME NEW x \in 0..(leaves - 1), NavigateDiverges(x) PROVE CallInv'
    BY <1>0, <1>21 DEF NavigateDiverges, SessionOnly
  <1> QED
    BY <1>1, <1>2, <1>3, <1>4, <1>5, <1>6, <1>7, <1>8, <1>9, <1>10, <1>11, <1>12, <1>13,
       <1>14, <1>15, <1>16, <1>17, <1>18, <1>19, <1>20, <1>21 DEF Operation

(* The steps of a compensation.                                            *)
LEMMA CompensationCall ==
  ASSUME TypeInv, OutcomeInv, CallInv, Compensation
  PROVE  CallInv'
  <1> USE DEF Release, Lock, Up, SetPhase, Goto, At, Returned, restoreVars, sessionVars, txVars,
              CallInv, CallPcs, OperationPcs, CompensationPcs, WorkingPcs
  <1>0. /\ job \in Job /\ desc \in [Ops -> Descriptor]
        /\ pc \in WorkingPcs => cur \in Ops
        /\ \A op \in Ops : DOMAIN desc[op].rollback = DOMAIN desc[op].target
    BY DEF TypeInv, RestoreInv, RestoreTypeOK, TxTypeOK, Working
  <1>1. CASE CompensateAborting
    BY <1>0, <1>1 DEF CompensateAborting, SessionOnly
  <1>2. CASE RestoreLeaf
    <2>1. CASE SessionOnly(cur)
      BY <1>0, <1>2, <2>1 DEF RestoreLeaf
    <2>2. CASE ~SessionOnly(cur)
      <3>1. StartApply(cur, desc[cur].target, desc[cur].rollback)
        BY <1>2, <2>2 DEF RestoreLeaf
      <3>2. job'.op = cur /\ job'.step \in {"done", "delete"} /\ job'.ctx = "apply"
              /\ job'.base = desc[cur].target /\ job'.goal = desc[cur].rollback
        BY <3>1, StartedApply
      <3> QED BY <1>0, <1>2, <2>2, <3>2 DEF RestoreLeaf, SessionOnly, RecoveryTarget
    <2> QED BY <2>1, <2>2
  <1>3. CASE RollbackApplied
    BY <1>0, <1>3 DEF RollbackApplied, SessionOnly
  <1>4. CASE CompensationDone
    BY <1>0, <1>4 DEF CompensationDone, SessionOnly
  <1>5. CASE CompensationFails
    BY <1>0, <1>5 DEF CompensationFails, SessionOnly
  <1> QED
    BY <1>1, <1>2, <1>3, <1>4, <1>5 DEF Compensation

(* The steps of a recovery.                                                *)
LEMMA RecoveryCall ==
  ASSUME TypeInv, OutcomeInv, CallInv, Recovery
  PROVE  CallInv'
  <1> USE DEF Release, Lock, Up, SetPhase, Goto, At, Returned, restoreVars, sessionVars, txVars,
              CallInv, CallPcs, OperationPcs, CompensationPcs, WorkingPcs, RecoveryPcs
  <1>0. /\ job \in Job /\ desc \in [Ops -> Descriptor]
        /\ pc \in WorkingPcs => cur \in Ops
        /\ \A op \in Ops : DOMAIN desc[op].rollback = DOMAIN desc[op].target
    BY DEF TypeInv, RestoreInv, RestoreTypeOK, TxTypeOK, Working
  <1>1. ASSUME NEW op \in Ops, RecoverSettle(op) PROVE CallInv'
    BY <1>0, <1>1 DEF RecoverSettle, SessionOnly
  <1>2. ASSUME NEW op \in Ops, RecoverIgnore(op) PROVE CallInv'
    BY <1>0, <1>2 DEF RecoverIgnore, SessionOnly
  <1>3. ASSUME NEW op \in Ops, RecoverMutations(op) PROVE CallInv'
    <2>1. job'.op = op /\ job'.ctx = "recover" /\ job'.step \in {"unwind", "forward"}
      BY <1>3 DEF RecoverMutations, StartRecoverMutations, IdleJob
    <2> QED BY <1>0, <1>3, <2>1 DEF RecoverMutations
  <1>4. CASE MutationsRecovered
    BY <1>0, <1>4 DEF MutationsRecovered, SessionOnly
  <1>5. CASE RestoreManifest
    <2>1. StartApply(cur, Captured(DOMAIN desc[cur].target), RecoveryTarget(cur))
      BY <1>5 DEF RestoreManifest
    <2>2. job'.op = cur /\ job'.step \in {"done", "delete"} /\ job'.ctx = "apply"
            /\ job'.goal = RecoveryTarget(cur)
      BY <2>1, StartedApply
    <2> QED BY <1>0, <1>5, <2>2 DEF RestoreManifest, SessionOnly, RecoveryTarget
  <1>6. CASE ManifestRestored
    BY <1>0, <1>6 DEF ManifestRestored, SessionOnly
  <1>7. CASE SettleRecovery
    BY <1>0, <1>7 DEF SettleRecovery, SessionOnly
  <1>8. CASE RecoveryDone
    BY <1>0, <1>8 DEF RecoveryDone, SessionOnly
  <1>9. CASE RecoveryLocks
    BY <1>0, <1>9 DEF RecoveryLocks, SessionOnly
  <1> QED
    BY <1>1, <1>2, <1>3, <1>4, <1>5, <1>6, <1>7, <1>8, <1>9 DEF Recovery

(* The engine goes on with the call it works on, and the environment       *)
(* leaves it alone or dies with it.                                        *)
LEMMA EnvironmentCall ==
  ASSUME TypeInv, OutcomeInv, CallInv, [Next]_vars, ~Operation, ~Compensation, ~Recovery
  PROVE  CallInv'
  <1> USE DEF Release, Goto, restoreVars, sessionVars, txVars, CallInv, CallPcs, SessionOnly
  <1>0. /\ RestoreInv /\ desc \in [Ops -> Descriptor] /\ holder \in Sessions \cup {NoSession}
        /\ (holder = NoSession => pc = "free")
        /\ (pc \in WorkingPcs => cur \in Ops)
    BY DEF TypeInv, TxTypeOK, Working, OutcomeInv
  <1>1. CASE Restoring
    <2>1. EngineStep /\ UNCHANGED <<pc, cur, desc, cursors>>
      BY <1>1 DEF Restoring
    <2>2. job'.op = job.op /\ job'.base = job.base /\ job'.goal = job.goal /\ job' \in Job
      BY <1>0, <2>1, EngineKeepsCall, EngineStepType DEF RestoreInv, RestoreTypeOK
    <2>3. TurnsOver
      BY <1>0, <2>1, EngineTurns
    <2>4. pc \in CallPcs
      BY <2>1 DEF EngineStep, Calling, IdleJob
    <2> QED BY <2>1, <2>2, <2>3, <2>4 DEF TurnsOver, RecoveryTarget, Job
  <1>2. ASSUME NEW s \in Sessions, NEW op \in Ops, NEW target \in Targets,
               NEW to \in 0..(leaves - 1), Begin(s, op, target, to)
        PROVE  CallInv'
    BY <1>0, <1>2 DEF Begin
  <1>3. ASSUME NEW s \in Sessions, StartRecovery(s) PROVE CallInv'
    BY <1>0, <1>3 DEF StartRecovery
  <1>4. ASSUME NEW s \in Sessions, Crash(s) PROVE CallInv'
    BY <1>0, <1>4 DEF Crash, RecoveryTarget
  <1>5. CASE UNCHANGED <<job, pc, cur, desc, cursors>>
    BY <1>5 DEF RecoveryTarget
  <1>6. UNCHANGED vars \/ (\E s \in Sessions : Chat(s) \/ Restart(s) \/ AskRecover(s))
          \/ (\E p \in Paths, c \in Leaf : Edit(p, c)) => CallInv'
    BY <1>5 DEF vars, Chat, Restart, AskRecover, Edit, ExternalEdit
  <1> QED
    BY <1>1, <1>2, <1>3, <1>4, <1>6 DEF Next

(* Every step keeps the call in progress where it belongs.                 *)
LEMMA NextCallInv == TypeInv /\ OutcomeInv /\ CallInv /\ [Next]_vars => CallInv'
  BY OperationCall, CompensationCall, RecoveryCall, EnvironmentCall

-----------------------------------------------------------------------------
(* The logs. An operation without a journal, or without files, has no      *)
(* record; a settled one has no unfinished record.                         *)
CleanInv ==
  \A op \in Ops :
    /\ phase[op] = "NONE" => wal[op] = <<>>
    /\ phase[op] \in Terminal => AssertCleaned(op)
    /\ SessionOnly(op) => wal[op] = <<>>
    /\ cur = op /\ pc \in {"prepared", "declined", "aborting", "diverged", "navigated", "apply"}
         => wal[op] = <<>>
    /\ cur = op /\ pc = "compensated" => AssertCleaned(op)

(* A log without records.                                                  *)
LEMMA EmptyLog ==
  ASSUME NEW op \in Ops, wal[op] = <<>>
  PROVE  Active(op) = {}
  BY DEF Active, Ordinals

(* The logs are empty at first.                                            *)
LEMMA InitCleanInv == Init => CleanInv
  BY DEF Init, CleanInv, Terminal

(* The steps of an operation.                                              *)
LEMMA OperationClean ==
  ASSUME TypeInv, OutcomeInv, EngineInv, CallInv, CleanInv, Operation
  PROVE  CleanInv'
  <1> USE DEF Release, Lock, Up, SetPhase, Goto, At, Returned, restoreVars, sessionVars, txVars,
              CleanInv, Terminal, OperationPcs, CompensationPcs, WorkingPcs, ActivePcs, SessionOnly,
              AssertCleaned
  <1>0. /\ phase \in [Ops -> Phases]
        /\ pc \in WorkingPcs => cur \in Ops
        /\ pc = "planned" => phase[cur] = "NONE"
        /\ pc \in ActivePcs => phase[cur] \notin Terminal \cup {"NONE"}
    BY DEF TypeInv, TxTypeOK, Working, OutcomeInv
  <1>w. UNCHANGED wal => \A op \in Ops : Active(op)' = Active(op)
    BY LogUntouched
  <1>e. \A op \in Ops : wal[op] = <<>> => Active(op) = {}
    BY EmptyLog
  <1>1. CASE AbandonPlan
    BY <1>0, <1>w, <1>e, <1>1 DEF AbandonPlan
  <1>2. CASE Prepare
    BY <1>0, <1>w, <1>e, <1>2 DEF Prepare
  <1>3. CASE Navigate
    BY <1>0, <1>w, <1>e, <1>3 DEF Navigate
  <1>4. CASE NavigateDeclined
    BY <1>0, <1>w, <1>e, <1>4 DEF NavigateDeclined
  <1>5. CASE DeclineAborting
    BY <1>0, <1>w, <1>e, <1>5 DEF DeclineAborting
  <1>6. CASE DeclineAborted
    BY <1>0, <1>w, <1>e, <1>6 DEF DeclineAborted
  <1>7. CASE RecordDivergence
    BY <1>0, <1>w, <1>e, <1>7 DEF RecordDivergence
  <1>8. CASE RecordMoved
    BY <1>0, <1>w, <1>e, <1>8 DEF RecordMoved
  <1>9. CASE ApplyTarget
    BY <1>0, <1>w, <1>e, <1>9, StartedApply DEF ApplyTarget
  <1>10. CASE TargetApplied
    BY <1>0, <1>w, <1>e, <1>10 DEF TargetApplied
  <1>11. CASE FilesVerified
    BY <1>0, <1>w, <1>e, <1>11 DEF FilesVerified
  <1>12. CASE CursorDurable
    BY <1>0, <1>w, <1>e, <1>12 DEF CursorDurable
  <1>13. CASE CursorVolatile
    BY <1>0, <1>w, <1>e, <1>13 DEF CursorVolatile
  <1>14. CASE CursorAmbiguous
    BY <1>0, <1>w, <1>e, <1>14 DEF CursorAmbiguous
  <1>15. CASE RecordAmbiguity
    BY <1>0, <1>w, <1>e, <1>15 DEF RecordAmbiguity
  <1>16. CASE CompensateVolatile
    BY <1>0, <1>w, <1>e, <1>16 DEF CompensateVolatile
  <1>17. CASE RecordCursor
    BY <1>0, <1>w, <1>e, <1>17 DEF RecordCursor
  <1>18. CASE MarkCommitted
    BY <1>0, <1>w, <1>e, <1>18 DEF MarkCommitted
  <1>19. CASE Cancel
    BY <1>0, <1>w, <1>e, <1>19 DEF Cancel
  <1>20. CASE OperationFails
    BY <1>0, <1>w, <1>e, <1>20 DEF OperationFails
  <1>21. ASSUME NEW x \in 0..(leaves - 1), NavigateDiverges(x) PROVE CleanInv'
    BY <1>0, <1>w, <1>e, <1>21 DEF NavigateDiverges
  <1> QED
    BY <1>1, <1>2, <1>3, <1>4, <1>5, <1>6, <1>7, <1>8, <1>9, <1>10, <1>11, <1>12, <1>13,
       <1>14, <1>15, <1>16, <1>17, <1>18, <1>19, <1>20, <1>21 DEF Operation

(* The steps of a compensation: a rollback that reports success left no    *)
(* unfinished record.                                                      *)
LEMMA CompensationClean ==
  ASSUME TypeInv, OutcomeInv, EngineInv, CallInv, CleanInv, Compensation
  PROVE  CleanInv'
  <1> USE DEF Release, Lock, Up, SetPhase, Goto, At, Returned, restoreVars, sessionVars, txVars,
              CleanInv, Terminal, OperationPcs, CompensationPcs, WorkingPcs, ActivePcs, SessionOnly,
              AssertCleaned
  <1>0. /\ phase \in [Ops -> Phases]
        /\ pc \in WorkingPcs => cur \in Ops
        /\ pc = "planned" => phase[cur] = "NONE"
        /\ pc \in ActivePcs => phase[cur] \notin Terminal \cup {"NONE"}
    BY DEF TypeInv, TxTypeOK, Working, OutcomeInv
  <1>w. UNCHANGED wal => \A op \in Ops : Active(op)' = Active(op)
    BY LogUntouched
  <1>e. \A op \in Ops : wal[op] = <<>> => Active(op) = {}
    BY EmptyLog
  <1>1. CASE CompensateAborting
    BY <1>0, <1>w, <1>e, <1>1 DEF CompensateAborting
  <1>2. CASE RestoreLeaf
    BY <1>0, <1>w, <1>e, <1>2, StartedApply DEF RestoreLeaf
  <1>3. CASE RollbackApplied
    <2>1. job.op = cur /\ cur \in Ops /\ job.step = "done" /\ job.result = "ok"
      BY <1>0, <1>3 DEF RollbackApplied, CallInv, CallPcs
    <2>2. Active(cur) = {}
      BY <2>1, OpsAssumption DEF EngineInv, BatchOK, Calling
    <2> QED BY <1>0, <1>w, <1>e, <1>3, <2>2 DEF RollbackApplied
  <1>4. CASE CompensationDone
    BY <1>0, <1>w, <1>e, <1>4 DEF CompensationDone
  <1>5. CASE CompensationFails
    BY <1>0, <1>w, <1>e, <1>5 DEF CompensationFails
  <1> QED
    BY <1>1, <1>2, <1>3, <1>4, <1>5 DEF Compensation

(* The steps of a recovery.                                                *)
LEMMA RecoveryClean ==
  ASSUME TypeInv, OutcomeInv, EngineInv, CallInv, CleanInv, Recovery
  PROVE  CleanInv'
  <1> USE DEF Release, Lock, Up, SetPhase, Goto, At, Returned, restoreVars, sessionVars, txVars,
              CleanInv, Terminal, OperationPcs, CompensationPcs, WorkingPcs, RecoveryPcs, ActivePcs, SessionOnly,
              AssertCleaned
  <1>0. /\ phase \in [Ops -> Phases]
        /\ pc \in WorkingPcs => cur \in Ops
        /\ pc = "planned" => phase[cur] = "NONE"
        /\ pc \in ActivePcs => phase[cur] \notin Terminal \cup {"NONE"}
    BY DEF TypeInv, TxTypeOK, Working, OutcomeInv
  <1>w. UNCHANGED wal => \A op \in Ops : Active(op)' = Active(op)
    BY LogUntouched
  <1>e. \A op \in Ops : wal[op] = <<>> => Active(op) = {}
    BY EmptyLog
  <1>1. ASSUME NEW op \in Ops, RecoverSettle(op) PROVE CleanInv'
    BY <1>0, <1>w, <1>e, <1>1 DEF RecoverSettle, Settleable, FullyCompensated
  <1>2. ASSUME NEW op \in Ops, RecoverIgnore(op) PROVE CleanInv'
    BY <1>0, <1>w, <1>e, <1>2 DEF RecoverIgnore
  <1>3. ASSUME NEW op \in Ops, RecoverMutations(op) PROVE CleanInv'
    BY <1>0, <1>w, <1>e, <1>3 DEF RecoverMutations, StartRecoverMutations
  <1>4. CASE MutationsRecovered
    BY <1>0, <1>w, <1>e, <1>4 DEF MutationsRecovered
  <1>5. CASE RestoreManifest
    BY <1>0, <1>w, <1>e, <1>5, StartedApply DEF RestoreManifest
  <1>6. CASE ManifestRestored
    BY <1>0, <1>w, <1>e, <1>6 DEF ManifestRestored
  <1>7. CASE SettleRecovery
    BY <1>0, <1>w, <1>e, <1>7 DEF SettleRecovery
  <1>8. CASE RecoveryDone
    BY <1>0, <1>w, <1>e, <1>8 DEF RecoveryDone
  <1>9. CASE RecoveryLocks
    BY <1>0, <1>w, <1>e, <1>9 DEF RecoveryLocks
  <1> QED
    BY <1>1, <1>2, <1>3, <1>4, <1>5, <1>6, <1>7, <1>8, <1>9 DEF Recovery

(* The engine writes only the log of an operation that is not settled, and *)
(* a recovery of the log of one without files finds nothing to do.         *)
LEMMA EnvironmentClean ==
  ASSUME TypeInv, OutcomeInv, EngineInv, CallInv, CleanInv, [Next]_vars,
         ~Operation, ~Compensation, ~Recovery
  PROVE  CleanInv'
  <1> USE DEF Release, Goto, restoreVars, sessionVars, txVars, CleanInv, AssertCleaned,
              SessionOnly, Terminal
  <1>0. /\ RestoreInv /\ desc \in [Ops -> Descriptor] /\ (pc \in WorkingPcs => cur \in Ops)
        /\ (pc \in ActivePcs => phase[cur] \notin Terminal \cup {"NONE"})
    BY DEF TypeInv, TxTypeOK, Working, OutcomeInv
  <1>w. UNCHANGED wal => \A op \in Ops : Active(op)' = Active(op)
    BY LogUntouched
  <1>1. CASE Restoring
    <2>1. EngineStep /\ UNCHANGED <<pc, cur, desc, phase>>
      BY <1>1 DEF Restoring
    <2>2. pc \in CallPcs /\ job.op = cur
      BY <2>1 DEF EngineStep, Calling, IdleJob, CallInv
    <2>3. PICK op \in Ops : op = cur /\ job.op = op
      BY <1>0, <2>2 DEF WorkingPcs, OperationPcs, CompensationPcs, CallPcs
    <2>4. phase[op] \notin Terminal \cup {"NONE"}
      BY <1>0, <2>2, <2>3 DEF ActivePcs, OperationPcs, CompensationPcs, CallPcs
    <2>5. \A o \in Ops : o /= op => wal'[o] = wal[o] /\ Active(o)' = Active(o)
      BY <1>0, <2>1, <2>3, EngineWritesOwnLog DEF RestoreInv, Active, Ordinals
    <2>6. SessionOnly(op) => wal'[op] = <<>>
      <3> SUFFICES ASSUME SessionOnly(op) PROVE wal'[op] = <<>>
        OBVIOUS
      <3>1. pc = "mutations"
        BY <2>2, <2>3 DEF CallInv, CallPcs
      <3>2. job.step \in {"unwind", "forward"}
        BY <1>0, <2>1, <3>1, EngineTurns DEF CallInv, TurnsOver
      <3> QED BY <1>0, <2>1, <2>3, <3>2, RecoveryKeepsEmpty
    <2> QED BY <2>1, <2>2, <2>3, <2>4, <2>5, <2>6 DEF CallPcs
  <1>2. ASSUME NEW s \in Sessions, NEW op \in Ops, NEW target \in Targets,
               NEW to \in 0..(leaves - 1), Begin(s, op, target, to)
        PROVE  CleanInv'
    <2>1. /\ UNCHANGED <<wal, phase>> /\ phase[op] = "NONE" /\ pc' = "planned"
          /\ \A o \in Ops : o /= op => desc'[o] = desc[o]
      BY <1>0, <1>2 DEF Begin
    <2> QED BY <1>w, <2>1
  <1>3. ASSUME UNCHANGED <<wal, phase, desc>>,
               UNCHANGED <<pc, cur>> \/ pc' \in {"free", "recover"}
        PROVE  CleanInv'
    BY <1>w, <1>3
  <1>4. UNCHANGED vars
          \/ (\E s \in Sessions :
                 StartRecovery(s) \/ Crash(s) \/ Chat(s) \/ Restart(s) \/ AskRecover(s))
          \/ (\E p \in Paths, c \in Leaf : Edit(p, c)) => CleanInv'
    BY <1>3 DEF vars, StartRecovery, Crash, Chat, Restart, AskRecover, Edit, ExternalEdit
  <1> QED
    BY <1>1, <1>2, <1>4 DEF Next

(* Every step keeps what the outcome says of the log.                      *)
LEMMA NextCleanInv ==
  TypeInv /\ OutcomeInv /\ EngineInv /\ CallInv /\ CleanInv /\ [Next]_vars => CleanInv'
  BY OperationClean, CompensationClean, RecoveryClean, EnvironmentClean

(* A settled operation has no unfinished record, so no artifact of it is   *)
(* the only copy of a file: not after a decline or a compensation, whose   *)
(* phase writes check nothing, nor after a recovery (journal.ts            *)
(* markCommitted, settleRecovery; controller.ts compensate).               *)
THEOREM SettledMeansCleanAlways == Spec => []SettledMeansClean
  <1>1. CleanInv => SettledMeansClean
    BY DEF CleanInv, SettledMeansClean
  <1>2. TypeInv /\ EngineInv /\ [Next]_vars => EngineInv'
    BY NextEngineInv
  <1> QED
    BY <1>1, <1>2, InitTypeInv, NextTypeInv, InitOutcomeInv, NextOutcomeInv, InitEngineInv,
       InitCallInv, NextCallInv, InitCleanInv, NextCleanInv, PTL DEF Spec

-----------------------------------------------------------------------------
(* Which steps settle an operation.                                        *)
LEMMA WhoSettles ==
  ASSUME TypeInv, [Next]_vars, NEW op \in Ops, phase'[op] /= phase[op], phase'[op] \in Terminal
  PROVE  \/ cur = op /\ (DeclineAborted \/ MarkCommitted \/ CompensationDone \/ SettleRecovery)
         \/ RecoverSettle(op)
  <1> USE DEF SetPhase, Terminal, sessionVars, txVars
  <1>0. phase \in [Ops -> Phases]
    BY DEF TypeInv, TxTypeOK
  <1>1. CASE Operation
    BY <1>0, <1>1
       DEF Operation, AbandonPlan, Prepare, Navigate, NavigateDeclined, NavigateDiverges,
           DeclineAborting, DeclineAborted, RecordDivergence, RecordMoved, ApplyTarget,
           TargetApplied, FilesVerified, CursorDurable, CursorVolatile, CursorAmbiguous,
           RecordAmbiguity, CompensateVolatile, RecordCursor, MarkCommitted, Cancel, OperationFails
  <1>2. CASE Compensation
    BY <1>0, <1>2
       DEF Compensation, CompensateAborting, RestoreLeaf, RollbackApplied, CompensationDone,
           CompensationFails
  <1>3. CASE Recovery
    <2>1. ASSUME NEW o \in Ops, RecoverSettle(o) PROVE RecoverSettle(op)
      BY <1>0, <2>1 DEF RecoverSettle
    <2>2. SettleRecovery => cur = op
      BY <1>0 DEF SettleRecovery
    <2> QED
      BY <1>3, <2>1, <2>2
         DEF Recovery, RecoverIgnore, RecoverMutations, MutationsRecovered, RestoreManifest,
             ManifestRestored, RecoveryDone, RecoveryLocks
  <1>4. CASE UNCHANGED vars
    BY <1>4 DEF vars
  <1> QED
    BY <1>1, <1>2, <1>3, <1>4
       DEF Next, Begin, StartRecovery, Crash, Restart, AskRecover, Chat, Edit, Restoring

-----------------------------------------------------------------------------
(* The leaf. While a session works on an operation, its leaf in memory is  *)
(* the old one until the navigation and after the way back, the new one in *)
(* between; nobody else moves it.                                          *)
LeafInv ==
  \A s \in Sessions : holder = s =>
    /\ pc \in {"planned", "prepared", "declined", "aborting", "compensating", "compensated"}
         => leaf[s] = desc[cur].from
    /\ pc \in {"navigated", "apply", "applying", "applied", "cursor", "commit", "finalize"}
         => leaf[s] = desc[cur].to

(* No operation has moved the leaf at first.                               *)
LEMMA InitLeafInv == Init => LeafInv
  BY DEF Init, LeafInv

(* The steps of an operation.                                              *)
LEMMA OperationLeaf ==
  ASSUME TypeInv, OutcomeInv, LeafInv, Operation
  PROVE  LeafInv'
  <1> USE DEF Release, Lock, Up, SetPhase, Goto, At, Returned, restoreVars, sessionVars, txVars,
              LeafInv, OperationPcs, CompensationPcs, WorkingPcs
  <1>0. /\ leaf \in [Sessions -> Nat]
        /\ pc /= "free" => holder \in Sessions
    BY DEF TypeInv, TxTypeOK, OutcomeInv
  <1>1. CASE AbandonPlan
    BY <1>0, <1>1 DEF AbandonPlan
  <1>2. CASE Prepare
    BY <1>0, <1>2 DEF Prepare
  <1>3. CASE Navigate
    BY <1>0, <1>3 DEF Navigate
  <1>4. CASE NavigateDeclined
    BY <1>0, <1>4 DEF NavigateDeclined
  <1>5. CASE DeclineAborting
    BY <1>0, <1>5 DEF DeclineAborting
  <1>6. CASE DeclineAborted
    BY <1>0, <1>6 DEF DeclineAborted
  <1>7. CASE RecordDivergence
    BY <1>0, <1>7 DEF RecordDivergence
  <1>8. CASE RecordMoved
    BY <1>0, <1>8 DEF RecordMoved
  <1>9. CASE ApplyTarget
    BY <1>0, <1>9 DEF ApplyTarget
  <1>10. CASE TargetApplied
    BY <1>0, <1>10 DEF TargetApplied
  <1>11. CASE FilesVerified
    BY <1>0, <1>11 DEF FilesVerified
  <1>12. CASE CursorDurable
    BY <1>0, <1>12 DEF CursorDurable, WriteCursor
  <1>13. CASE CursorVolatile
    BY <1>0, <1>13 DEF CursorVolatile
  <1>14. CASE CursorAmbiguous
    BY <1>0, <1>14 DEF CursorAmbiguous, WriteCursor
  <1>15. CASE RecordAmbiguity
    BY <1>0, <1>15 DEF RecordAmbiguity
  <1>16. CASE CompensateVolatile
    BY <1>0, <1>16 DEF CompensateVolatile
  <1>17. CASE RecordCursor
    BY <1>0, <1>17 DEF RecordCursor
  <1>18. CASE MarkCommitted
    BY <1>0, <1>18 DEF MarkCommitted
  <1>19. CASE Cancel
    BY <1>0, <1>19 DEF Cancel
  <1>20. CASE OperationFails
    BY <1>0, <1>20 DEF OperationFails
  <1>21. ASSUME NEW x \in 0..(leaves - 1), NavigateDiverges(x) PROVE LeafInv'
    BY <1>0, <1>21 DEF NavigateDiverges
  <1> QED
    BY <1>1, <1>2, <1>3, <1>4, <1>5, <1>6, <1>7, <1>8, <1>9, <1>10, <1>11, <1>12, <1>13,
       <1>14, <1>15, <1>16, <1>17, <1>18, <1>19, <1>20, <1>21 DEF Operation

(* The steps of a compensation: the leaf goes back first.                  *)
LEMMA CompensationLeaf ==
  ASSUME TypeInv, OutcomeInv, LeafInv, Compensation
  PROVE  LeafInv'
  <1> USE DEF Release, Lock, Up, SetPhase, Goto, At, Returned, restoreVars, sessionVars, txVars,
              LeafInv, OperationPcs, CompensationPcs, WorkingPcs
  <1>0. /\ leaf \in [Sessions -> Nat]
        /\ pc /= "free" => holder \in Sessions
    BY DEF TypeInv, TxTypeOK, OutcomeInv
  <1>1. CASE CompensateAborting
    BY <1>0, <1>1 DEF CompensateAborting
  <1>2. CASE RestoreLeaf
    BY <1>0, <1>2 DEF RestoreLeaf
  <1>3. CASE RollbackApplied
    BY <1>0, <1>3 DEF RollbackApplied
  <1>4. CASE CompensationDone
    BY <1>0, <1>4 DEF CompensationDone
  <1>5. CASE CompensationFails
    BY <1>0, <1>5 DEF CompensationFails
  <1> QED
    BY <1>1, <1>2, <1>3, <1>4, <1>5 DEF Compensation

(* The steps of a recovery, which leaves the session where it is.          *)
LEMMA RecoveryLeaf ==
  ASSUME TypeInv, OutcomeInv, LeafInv, Recovery
  PROVE  LeafInv'
  <1> USE DEF Release, Lock, Up, SetPhase, Goto, At, Returned, restoreVars, sessionVars, txVars,
              LeafInv, OperationPcs, CompensationPcs, WorkingPcs
  <1>0. /\ leaf \in [Sessions -> Nat]
        /\ pc /= "free" => holder \in Sessions
    BY DEF TypeInv, TxTypeOK, OutcomeInv
  <1>1. ASSUME NEW op \in Ops, RecoverSettle(op) PROVE LeafInv'
    BY <1>0, <1>1 DEF RecoverSettle
  <1>2. ASSUME NEW op \in Ops, RecoverIgnore(op) PROVE LeafInv'
    BY <1>0, <1>2 DEF RecoverIgnore
  <1>3. ASSUME NEW op \in Ops, RecoverMutations(op) PROVE LeafInv'
    BY <1>0, <1>3 DEF RecoverMutations
  <1>4. CASE MutationsRecovered
    BY <1>0, <1>4 DEF MutationsRecovered
  <1>5. CASE RestoreManifest
    BY <1>0, <1>5 DEF RestoreManifest
  <1>6. CASE ManifestRestored
    BY <1>0, <1>6 DEF ManifestRestored
  <1>7. CASE SettleRecovery
    BY <1>0, <1>7 DEF SettleRecovery
  <1>8. CASE RecoveryDone
    BY <1>0, <1>8 DEF RecoveryDone
  <1>9. CASE RecoveryLocks
    BY <1>0, <1>9 DEF RecoveryLocks
  <1> QED
    BY <1>1, <1>2, <1>3, <1>4, <1>5, <1>6, <1>7, <1>8, <1>9 DEF Recovery

(* A session at work on an operation does not chat.                        *)
LEMMA EnvironmentLeaf ==
  ASSUME TypeInv, OutcomeInv, LeafInv, [Next]_vars, ~Operation, ~Compensation, ~Recovery
  PROVE  LeafInv'
  <1> USE DEF Release, Goto, restoreVars, sessionVars, txVars, LeafInv
  <1>0. /\ leaf \in [Sessions -> Nat] /\ desc \in [Ops -> Descriptor]
    BY DEF TypeInv, TxTypeOK
  <1>1. ASSUME NEW s \in Sessions, NEW op \in Ops, NEW target \in Targets,
               NEW to \in 0..(leaves - 1), Begin(s, op, target, to)
        PROVE  LeafInv'
    <2> DEFINE d == [session |-> s, from |-> leaf[s], to |-> to,
                     rollback |-> Captured(DOMAIN target), target |-> target]
    <2>1. /\ pc' = "planned" /\ holder' = s /\ cur' = op /\ UNCHANGED leaf
          /\ desc' = [desc EXCEPT ![op] = d]
      BY <1>1 DEF Begin
    <2>2. d.from = leaf[s]
      OBVIOUS
    <2> HIDE DEF d
    <2> QED BY <1>0, <2>1, <2>2
  <1>2. ASSUME NEW s \in Sessions, StartRecovery(s) PROVE LeafInv'
    BY <1>2 DEF StartRecovery
  <1>3. ASSUME NEW s \in Sessions, Crash(s) PROVE LeafInv'
    BY <1>0, <1>3, SessionsAssumption DEF Crash
  <1>4. ASSUME NEW s \in Sessions, Chat(s) PROVE LeafInv'
    BY <1>0, <1>4 DEF Chat
  <1>5. CASE UNCHANGED <<leaf, holder, pc, cur, desc>>
    BY <1>5
  <1>6. UNCHANGED vars \/ Restoring \/ (\E s \in Sessions : Restart(s) \/ AskRecover(s))
          \/ (\E p \in Paths, c \in Leaf : Edit(p, c)) => LeafInv'
    BY <1>5 DEF vars, Restoring, Restart, AskRecover, Edit
  <1> QED
    BY <1>1, <1>2, <1>3, <1>4, <1>6 DEF Next

(* Every step keeps the leaf where the outcome says.                       *)
LEMMA NextLeafInv == TypeInv /\ OutcomeInv /\ LeafInv /\ [Next]_vars => LeafInv'
  BY OperationLeaf, CompensationLeaf, RecoveryLeaf, EnvironmentLeaf

(* An operation that settles and leaves its session unlocked leaves it at  *)
(* the leaf of its outcome (controller.ts performOperation, compensate).   *)
THEOREM LeafFollowsOutcomeAlways == Spec => LeafFollowsOutcome
  <1>1. TypeInv /\ OutcomeInv /\ LeafInv /\ [Next]_vars =>
          [\A op \in Ops : cur = op /\ phase'[op] \in Terminal /\ holder' = NoSession
              /\ pc \in OperationPcs \cup CompensationPcs
              /\ ~locked'[holder]
           => leaf'[holder] = IF phase'[op] = "COMMITTED" THEN desc[op].to ELSE desc[op].from]_vars
    <2> SUFFICES ASSUME TypeInv, OutcomeInv, LeafInv, [Next]_vars, NEW op \in Ops, cur = op,
                        phase'[op] \in Terminal,
                        pc \in OperationPcs \cup CompensationPcs
                 PROVE  leaf'[holder] = IF phase'[op] = "COMMITTED" THEN desc[op].to ELSE desc[op].from
      OBVIOUS
    <2>1. phase[op] \notin Terminal
      BY DEF OutcomeInv, ActivePcs, OperationPcs, CompensationPcs, Terminal
    <2>2. DeclineAborted \/ MarkCommitted \/ CompensationDone
      BY <2>1, WhoSettles DEF RecoverSettle, SettleRecovery, At, OperationPcs, CompensationPcs
    <2>3. holder \in Sessions /\ phase \in [Ops -> Phases]
      BY DEF TypeInv, TxTypeOK, OutcomeInv, OperationPcs, CompensationPcs
    <2> QED
      BY <2>2, <2>3 DEF LeafInv, DeclineAborted, MarkCommitted, CompensationDone, At, SetPhase,
                        sessionVars
  <1> QED
    BY <1>1, InitTypeInv, NextTypeInv, InitOutcomeInv, NextOutcomeInv, InitLeafInv, NextLeafInv,
       PTL DEF Spec, LeafFollowsOutcome

-----------------------------------------------------------------------------
(* The files. Every path of the scope of an operation that nobody else     *)
(* changed is at the captured content, at the target, or where a recovery  *)
(* brings it.                                                              *)
AtCapture(op) == FilesAt(op, desc[op].rollback)
AtTarget(op) == FilesAt(op, desc[op].target)
AtGoal(op) == FilesAt(op, RecoveryTarget(op))

ReturnedOK(place) == pc = place /\ job.step = "done" /\ job.result = "ok"

FilesInv ==
  \A op \in Ops : cur = op =>
    /\ pc \in {"planned", "prepared", "declined", "aborting", "navigated", "apply", "compensated"}
         \/ ReturnedOK("compensating")
       => AtCapture(op)
    /\ pc \in {"applied", "cursor", "commit", "finalize"} \/ ReturnedOK("applying")
       => AtTarget(op)
    /\ pc = "finish" \/ ReturnedOK("restoring")
       => AtGoal(op)

(* Where nothing moves, that stays; without a scope there is nothing to    *)
(* ask.                                                                    *)
LEMMA SameFiles ==
  ASSUME UNCHANGED <<files, dirty, desc>>, NEW op \in Ops
  PROVE  /\ AtCapture(op)' <=> AtCapture(op)
         /\ AtTarget(op)' <=> AtTarget(op)
         /\ UNCHANGED cursors => (AtGoal(op)' <=> AtGoal(op))
  BY DEF AtCapture, AtTarget, AtGoal, FilesAt, RecoveryTarget

(* The files of an operation that restores none are everywhere.            *)
LEMMA NoScope ==
  ASSUME Working, NEW op \in Ops, SessionOnly(op)
  PROVE  AtCapture(op) /\ AtTarget(op) /\ AtGoal(op)
  BY DEF Working, SessionOnly, AtCapture, AtTarget, AtGoal, FilesAt, RecoveryTarget

(* No operation has touched a file at first.                               *)
LEMMA InitFilesInv == Init => FilesInv
  BY OpsAssumption DEF Init, FilesInv

(* The steps of an operation.                                              *)
LEMMA OperationFiles ==
  ASSUME TypeInv, OutcomeInv, CallInv, FilesInv, Operation
  PROVE  FilesInv'
  <1> USE DEF Release, Lock, Up, SetPhase, Goto, At, Returned, restoreVars, sessionVars, txVars,
              FilesInv, ReturnedOK, OperationPcs, CompensationPcs, WorkingPcs
  <1>0. /\ pc \in WorkingPcs => cur \in Ops
        /\ \A op \in Ops : SessionOnly(op) => AtCapture(op) /\ AtTarget(op)
    BY NoScope DEF TypeInv, Working
  <1>f. UNCHANGED <<files, dirty, desc>> =>
          \A op \in Ops : /\ AtCapture(op)' <=> AtCapture(op)
                          /\ AtTarget(op)' <=> AtTarget(op)
                          /\ UNCHANGED cursors => (AtGoal(op)' <=> AtGoal(op))
    BY SameFiles
  <1>1. CASE AbandonPlan
    BY <1>0, <1>f, <1>1 DEF AbandonPlan
  <1>2. CASE Prepare
    BY <1>0, <1>f, <1>2 DEF Prepare
  <1>3. CASE Navigate
    BY <1>0, <1>f, <1>3 DEF Navigate
  <1>4. CASE NavigateDeclined
    BY <1>0, <1>f, <1>4 DEF NavigateDeclined
  <1>5. CASE DeclineAborting
    BY <1>0, <1>f, <1>5 DEF DeclineAborting
  <1>6. CASE DeclineAborted
    BY <1>0, <1>f, <1>6 DEF DeclineAborted
  <1>7. CASE RecordDivergence
    BY <1>0, <1>f, <1>7 DEF RecordDivergence
  <1>8. CASE RecordMoved
    BY <1>0, <1>f, <1>8 DEF RecordMoved
  <1>9. CASE ApplyTarget
    <2>1. job'.step = "done" => job'.result /= "ok"
      BY <1>9, StartedApply DEF ApplyTarget
    <2> QED BY <1>0, <1>f, <1>9, <2>1 DEF ApplyTarget
  <1>10. CASE TargetApplied
    BY <1>0, <1>f, <1>10 DEF TargetApplied
  <1>11. CASE FilesVerified
    BY <1>0, <1>f, <1>11 DEF FilesVerified
  <1>12. CASE CursorDurable
    BY <1>0, <1>f, <1>12 DEF CursorDurable
  <1>13. CASE CursorVolatile
    BY <1>0, <1>f, <1>13 DEF CursorVolatile
  <1>14. CASE CursorAmbiguous
    BY <1>0, <1>f, <1>14 DEF CursorAmbiguous
  <1>15. CASE RecordAmbiguity
    BY <1>0, <1>f, <1>15 DEF RecordAmbiguity
  <1>16. CASE CompensateVolatile
    BY <1>0, <1>f, <1>16 DEF CompensateVolatile
  <1>17. CASE RecordCursor
    BY <1>0, <1>f, <1>17 DEF RecordCursor
  <1>18. CASE MarkCommitted
    BY <1>0, <1>f, <1>18 DEF MarkCommitted
  <1>19. CASE Cancel
    BY <1>0, <1>f, <1>19 DEF Cancel
  <1>20. CASE OperationFails
    BY <1>0, <1>f, <1>20 DEF OperationFails
  <1>21. ASSUME NEW x \in 0..(leaves - 1), NavigateDiverges(x) PROVE FilesInv'
    BY <1>0, <1>f, <1>21 DEF NavigateDiverges
  <1> QED
    BY <1>1, <1>2, <1>3, <1>4, <1>5, <1>6, <1>7, <1>8, <1>9, <1>10, <1>11, <1>12, <1>13,
       <1>14, <1>15, <1>16, <1>17, <1>18, <1>19, <1>20, <1>21 DEF Operation

(* The steps of a compensation.                                            *)
LEMMA CompensationFiles ==
  ASSUME TypeInv, OutcomeInv, CallInv, FilesInv, Compensation
  PROVE  FilesInv'
  <1> USE DEF Release, Lock, Up, SetPhase, Goto, At, Returned, restoreVars, sessionVars, txVars,
              FilesInv, ReturnedOK, OperationPcs, CompensationPcs, WorkingPcs
  <1>0. /\ pc \in WorkingPcs => cur \in Ops
        /\ \A op \in Ops : SessionOnly(op) => AtCapture(op) /\ AtTarget(op)
    BY NoScope DEF TypeInv, Working
  <1>f. UNCHANGED <<files, dirty, desc>> =>
          \A op \in Ops : /\ AtCapture(op)' <=> AtCapture(op)
                          /\ AtTarget(op)' <=> AtTarget(op)
                          /\ UNCHANGED cursors => (AtGoal(op)' <=> AtGoal(op))
    BY SameFiles
  <1>1. CASE CompensateAborting
    BY <1>0, <1>f, <1>1 DEF CompensateAborting
  <1>2. CASE RestoreLeaf
    <2>1. CASE SessionOnly(cur)
      BY <1>0, <1>f, <1>2, <2>1 DEF RestoreLeaf
    <2>2. CASE ~SessionOnly(cur)
      <3>1. /\ StartApply(cur, desc[cur].target, desc[cur].rollback) /\ pc' = "compensating"
            /\ UNCHANGED cur
        BY <1>2, <2>2 DEF RestoreLeaf
      <3>2. job'.step = "done" => job'.result /= "ok"
        BY <3>1, StartedApply
      <3> QED BY <3>1, <3>2
    <2> QED BY <2>1, <2>2
  <1>3. CASE RollbackApplied
    BY <1>0, <1>f, <1>3 DEF RollbackApplied
  <1>4. CASE CompensationDone
    BY <1>0, <1>f, <1>4 DEF CompensationDone
  <1>5. CASE CompensationFails
    BY <1>0, <1>f, <1>5 DEF CompensationFails
  <1> QED
    BY <1>1, <1>2, <1>3, <1>4, <1>5 DEF Compensation

(* The steps of a recovery.                                                *)
LEMMA RecoveryFiles ==
  ASSUME TypeInv, OutcomeInv, CallInv, FilesInv, Recovery
  PROVE  FilesInv'
  <1> USE DEF Release, Lock, Up, SetPhase, Goto, At, Returned, restoreVars, sessionVars, txVars,
              FilesInv, ReturnedOK, OperationPcs, CompensationPcs, WorkingPcs
  <1>0. /\ pc \in WorkingPcs => cur \in Ops
        /\ \A op \in Ops : SessionOnly(op) => AtGoal(op)
    BY NoScope DEF TypeInv, Working
  <1>f. UNCHANGED <<files, dirty, desc>> =>
          \A op \in Ops : /\ AtCapture(op)' <=> AtCapture(op)
                          /\ AtTarget(op)' <=> AtTarget(op)
                          /\ UNCHANGED cursors => (AtGoal(op)' <=> AtGoal(op))
    BY SameFiles
  <1>1. ASSUME NEW op \in Ops, RecoverSettle(op) PROVE FilesInv'
    BY <1>0, <1>f, <1>1 DEF RecoverSettle
  <1>2. ASSUME NEW op \in Ops, RecoverIgnore(op) PROVE FilesInv'
    BY <1>0, <1>f, <1>2 DEF RecoverIgnore
  <1>3. ASSUME NEW op \in Ops, RecoverMutations(op) PROVE FilesInv'
    BY <1>0, <1>f, <1>3 DEF RecoverMutations
  <1>4. CASE MutationsRecovered
    BY <1>0, <1>f, <1>4 DEF MutationsRecovered
  <1>5. CASE RestoreManifest
    <2>1. job'.step = "done" => job'.result /= "ok"
      BY <1>5, StartedApply DEF RestoreManifest
    <2> QED BY <1>0, <1>f, <1>5, <2>1 DEF RestoreManifest
  <1>6. CASE ManifestRestored
    BY <1>0, <1>f, <1>6 DEF ManifestRestored
  <1>7. CASE SettleRecovery
    BY <1>0, <1>f, <1>7 DEF SettleRecovery
  <1>8. CASE RecoveryDone
    BY <1>0, <1>f, <1>8 DEF RecoveryDone
  <1>9. CASE RecoveryLocks
    BY <1>0, <1>f, <1>9 DEF RecoveryLocks
  <1> QED
    BY <1>1, <1>2, <1>3, <1>4, <1>5, <1>6, <1>7, <1>8, <1>9 DEF Recovery

(* A call that succeeds has verified what it restored; whoever else        *)
(* changes a path makes it dirty.                                          *)
LEMMA EnvironmentFiles ==
  ASSUME TypeInv, OutcomeInv, CallInv, FilesInv, [Next]_vars,
         ~Operation, ~Compensation, ~Recovery
  PROVE  FilesInv'
  <1> USE DEF Release, Goto, restoreVars, sessionVars, txVars, FilesInv, ReturnedOK
  <1>0. /\ RestoreInv /\ desc \in [Ops -> Descriptor] /\ dirty \in [Ops -> SUBSET Paths]
        /\ \A op \in Ops : DOMAIN desc[op].rollback = DOMAIN desc[op].target
    BY DEF TypeInv, TxTypeOK, Working
  <1>f. UNCHANGED <<files, dirty, desc>> =>
          \A op \in Ops : /\ AtCapture(op)' <=> AtCapture(op)
                          /\ AtTarget(op)' <=> AtTarget(op)
                          /\ UNCHANGED cursors => (AtGoal(op)' <=> AtGoal(op))
    BY SameFiles
  <1>1. CASE Restoring
    <2>1. EngineStep /\ NoteChanges(job.op) /\ UNCHANGED <<pc, cur, desc, cursors>>
      BY <1>1 DEF Restoring
    <2>2. pc \in CallPcs /\ job.op = cur
      BY <2>1 DEF EngineStep, Calling, IdleJob, CallInv
    <2> SUFFICES ASSUME NEW op \in Ops, cur = op, pc \in {"applying", "compensating", "restoring"},
                        job'.step = "done", job'.result = "ok"
                 PROVE  /\ pc = "compensating" => AtCapture(op)'
                        /\ pc = "applying" => AtTarget(op)'
                        /\ pc = "restoring" => AtGoal(op)'
      BY <2>1, <2>2 DEF CallPcs
    <2>3. AtManifest(job.goal) /\ UNCHANGED files
      <3>1. job.ctx /= "recover" /\ job.step /= "forward"
        BY <2>2 DEF CallInv, CallPcs
      <3> QED BY <1>0, <2>1, <3>1, EngineTurns DEF TurnsOver
    <2>4. FilesAt(op, job.goal) /\ UNCHANGED <<files, desc, cursors>> /\ dirty'[op] = dirty[op]
      BY <1>0, <2>1, <2>2, <2>3 DEF FilesAt, AtManifest, NoteChanges
    <2> QED
      BY <2>4 DEF CallInv, CallPcs, AtCapture, AtTarget, AtGoal, FilesAt, RecoveryTarget
  <1>2. ASSUME NEW s \in Sessions, NEW op \in Ops, NEW target \in Targets,
               NEW to \in 0..(leaves - 1), Begin(s, op, target, to)
        PROVE  FilesInv'
    <2> DEFINE d == [session |-> s, from |-> leaf[s], to |-> to,
                     rollback |-> Captured(DOMAIN target), target |-> target]
    <2>1. /\ pc' = "planned" /\ cur' = op /\ UNCHANGED files
          /\ desc' = [desc EXCEPT ![op] = d]
      BY <1>2 DEF Begin
    <2>2. d.rollback = [p \in DOMAIN target |-> files[p]]
      BY DEF Captured
    <2> HIDE DEF d
    <2>3. desc'[op].rollback = [p \in DOMAIN target |-> files[p]]
      BY <1>0, <2>1, <2>2
    <2>4. AtCapture(op)'
      BY <2>1, <2>3 DEF AtCapture, FilesAt
    <2> QED BY <2>1, <2>4
  <1>3. ASSUME NEW p \in Paths, NEW c \in Leaf, Edit(p, c) PROVE FilesInv'
    <2>1. UNCHANGED <<job, pc, cur, desc, cursors>> /\ NoteChanges(NoOp)
      BY <1>3 DEF Edit, ExternalEdit
    <2> SUFFICES ASSUME NEW op \in Ops, cur = op
                 PROVE  /\ AtCapture(op) => AtCapture(op)'
                        /\ AtTarget(op) => AtTarget(op)'
                        /\ AtGoal(op) => AtGoal(op)'
      BY <2>1
    <2>2. dirty'[op] = dirty[op] \cup {x \in Paths : files'[x] /= files[x]}
      BY <2>1, OpsAssumption DEF NoteChanges, Watched
    <2>3. DOMAIN desc[op].rollback \subseteq Paths
      BY <1>0, ManifestValue DEF Descriptor
    <2>4. \A x \in DOMAIN desc[op].rollback : x \notin dirty'[op] =>
            x \notin dirty[op] /\ files'[x] = files[x]
      BY <2>2, <2>3
    <2> QED BY <1>0, <2>1, <2>4 DEF AtCapture, AtTarget, AtGoal, FilesAt, RecoveryTarget
  <1>4. CASE /\ UNCHANGED <<files, dirty, desc, cursors>>
             /\ UNCHANGED <<job, pc, cur>> \/ pc' \in {"free", "recover"}
    BY <1>f, <1>4
  <1>5. UNCHANGED vars
          \/ (\E s \in Sessions :
                 StartRecovery(s) \/ Crash(s) \/ Chat(s) \/ Restart(s) \/ AskRecover(s))
        => FilesInv'
    BY <1>4 DEF vars, StartRecovery, Crash, Chat, Restart, AskRecover
  <1> QED
    BY <1>1, <1>2, <1>3, <1>5 DEF Next

(* Every step keeps the files where the outcome says.                      *)
LEMMA NextFilesInv == TypeInv /\ OutcomeInv /\ CallInv /\ FilesInv /\ [Next]_vars => FilesInv'
  BY OperationFiles, CompensationFiles, RecoveryFiles, EnvironmentFiles

(* A commit, by the operation or by a recovery after any number of         *)
(* crashes, finds every path of the scope that nobody else changed at the  *)
(* target (controller.ts performOperation; recovery.ts recover).           *)
THEOREM CommitInstallsTargetAlways == Spec => CommitInstallsTarget
  <1>1. TypeInv /\ FilesInv /\ [Next]_vars =>
          [\A op \in Ops : Settles(op, "COMMITTED") => FilesAt(op, desc[op].target)]_vars
    <2> SUFFICES ASSUME TypeInv, FilesInv, [Next]_vars, NEW op \in Ops, Settles(op, "COMMITTED")
                 PROVE  FilesAt(op, desc[op].target)
      OBVIOUS
    <2>1. phase \in [Ops -> Phases]
      BY DEF TypeInv, TxTypeOK
    <2>2. cur = op /\ (MarkCommitted \/ (SettleRecovery /\ cur \in cursors))
      BY <2>1, WhoSettles DEF Settles, Terminal, DeclineAborted, CompensationDone, RecoverSettle,
                              SettleRecovery, SetPhase
    <2> QED
      BY <2>2 DEF FilesInv, MarkCommitted, SettleRecovery, At, AtTarget, AtGoal, RecoveryTarget
  <1> QED
    BY <1>1, InitTypeInv, NextTypeInv, InitOutcomeInv, NextOutcomeInv, InitCallInv, NextCallInv,
       InitFilesInv, NextFilesInv, PTL DEF Spec, CommitInstallsTarget

(* While an operation or its compensation restores files it takes away     *)
(* only contents of its own (restore-engine.ts applyPinned and the checks  *)
(* of every mutation on the way there and back).                           *)
THEOREM OperationKeepsForeignContentAlways == Spec => OperationKeepsForeignContent
  <1>1. TypeInv /\ EngineInv /\ CallInv /\ [Next]_vars =>
          [(pc \in {"applying", "compensating"}) /\ spent'["edit"] = spent["edit"] =>
             \A p \in Paths : files'[p] /= files[p] =>
               p \in DOMAIN desc[cur].target /\ files[p] \in OwnContents(cur, p)]_vars
    <2> SUFFICES ASSUME TypeInv, EngineInv, CallInv, [Next]_vars,
                        pc \in {"applying", "compensating"}, spent'["edit"] = spent["edit"],
                        NEW p \in Paths, files'[p] /= files[p]
                 PROVE  p \in DOMAIN desc[cur].target /\ files[p] \in OwnContents(cur, p)
      OBVIOUS
    <2>1. EngineStep
      <3>1. \A x \in Paths, c \in Leaf : ~Edit(x, c)
        BY DEF Edit, ExternalEdit, Spend, TypeInv, RestoreInv, RestoreTypeOK, Faults
      <3>2. \A s \in Sessions, op \in Ops, target \in Targets, to \in 0..(leaves - 1) :
              ~Begin(s, op, target, to)
        BY DEF Begin, restoreVars
      <3> QED BY <3>1, <3>2, WhoWrites DEF Restoring
    <2>2. RestoreInv /\ cur \in Ops /\ job.op = cur
            /\ DOMAIN desc[cur].rollback = DOMAIN desc[cur].target
      BY DEF TypeInv, Working, WorkingPcs, OperationPcs, CompensationPcs, CallInv, CallPcs
    <2>3. PICK k \in Active(job.op) :
            /\ wal[job.op][k].path = p
            /\ files[p] \in {wal[job.op][k].src, wal[job.op][k].dst, Absent}
      BY <2>1, <2>2, EngineChangesRecorded
    <2>4. job.step \notin {"idle", "done"}
      BY <2>1, <2>2, EngineTurns DEF TurnsOver
    <2>5. /\ p \in Scope /\ OwnContent(p, wal[job.op][k].src) /\ OwnContent(p, wal[job.op][k].dst)
      BY <2>1, <2>3, <2>4 DEF EngineInv, OwnOK, EngineStep, CallInv, CallPcs
    <2> QED BY <2>2, <2>3, <2>5 DEF OwnContent, OwnContents, Scope, CallInv
  <1>2. TypeInv /\ EngineInv /\ [Next]_vars => EngineInv'
    BY NextEngineInv
  <1> QED
    BY <1>1, <1>2, InitTypeInv, NextTypeInv, InitOutcomeInv, NextOutcomeInv, InitEngineInv,
       InitCallInv, NextCallInv, PTL DEF Spec, OperationKeepsForeignContent

-----------------------------------------------------------------------------
(* What the log of an operation tells about a path that nobody else        *)
(* changed: with no record on it the path is as captured; the first record *)
(* starts from the captured content; and where the last one is finished    *)
(* without having been rolled back, the path is at its target.             *)
HistAt(op, p, c) ==
  /\ RecordsOf(op, p) = {} => files[p] = c
  /\ \A k \in RecordsOf(op, p) :
       /\ (\A j \in RecordsOf(op, p) : k <= j) => wal[op][k].src = c
       /\ (\A j \in RecordsOf(op, p) : j <= k) /\ wal[op][k].st = "CLEANED" /\ ~wal[op][k].undone
            => files[p] = wal[op][k].dst

(* It holds of every operation that is not settled, the one at work        *)
(* included, together with what the unfinished records can account for.    *)
HistInv ==
  \A op \in Ops : Watched(op) =>
    \A p \in DOMAIN desc[op].rollback \ dirty[op] :
      FitAt(op, p) /\ VerifiedAt(op, p) /\ HistAt(op, p, desc[op].rollback[p])

(* The engine keeps it for the operation it works on: it announces a path  *)
(* at the content it finds, finishes a record where it has seen the file,  *)
(* and changes only files that have an unfinished record.                  *)
LEMMA EngineKeepsHist ==
  ASSUME RestoreInv, EngineInv, EngineStep, NEW op \in Ops, job.op = op, NEW p \in Paths, NEW c,
         FitAt(op, p), VerifiedAt(op, p), HistAt(op, p, c)
  PROVE  HistAt(op, p, c)'
  <1> USE DEF RestoreInv
  <1>1. /\ RecordsOf(op, p) \subseteq Ordinals(op) /\ Ordinals(op) \subseteq Nat
        /\ \A k \in RecordsOf(op, p) : wal[op][k].path = p
    BY DEF RecordsOf, Ordinals, RestoreTypeOK
  <1>2. files'[p] /= files[p] => \E k \in Active(op) : wal[op][k].path = p
    BY EngineChangesRecorded
  <1>3. \A k \in Active(op), j \in RecordsOf(op, p) :
          wal[op][k].path = p => k \in RecordsOf(op, p) /\ j <= k
    BY <1>1 DEF EngineInv, LatestActive, Active, RecordsOf
  (* A path whose last record is finished has no unfinished one.           *)
  <1>4. ASSUME NEW k \in RecordsOf(op, p), \A j \in RecordsOf(op, p) : j <= k,
               wal[op][k].st = "CLEANED"
        PROVE  files'[p] = files[p]
    <2> SUFFICES ASSUME NEW i \in Active(op), wal[op][i].path = p PROVE FALSE
      BY <1>2
    <2>1. i = k
      BY <1>1, <1>3, <1>4
    <2> QED BY <1>4, <2>1 DEF Active
  <1>5. RecordsOf(op, p) = {} => files'[p] = files[p]
    BY <1>2, <1>3 DEF Active, RecordsOf
  <1>6. CASE UNCHANGED wal
    <2>1. RecordsOf(op, p)' = RecordsOf(op, p)
      BY <1>6 DEF RecordsOf, Ordinals
    <2> QED BY <1>4, <1>5, <1>6, <2>1 DEF HistAt
  <1>7. ASSUME NEW k \in Active(op), NEW r \in MutationRecord, Rewrite(op, k, r),
               r.path = wal[op][k].path, r.src = wal[op][k].src, r.dst = wal[op][k].dst,
               r.st = "CLEANED" =>
                 UNCHANGED files /\ (r.undone \/ job.step = "clean" \/ files[r.path] = r.dst)
        PROVE  HistAt(op, p, c)'
    <2>1. k \in Ordinals(op)
      BY DEF Active
    <2>2. /\ wal'[op][k] = r /\ Ordinals(op)' = Ordinals(op)
          /\ \A j \in Ordinals(op) : j /= k => wal'[op][j] = wal[op][j]
      BY <1>7, <2>1, RewriteFacts
    <2>3. RecordsOf(op, p)' = RecordsOf(op, p)
      <3>1. \A j \in Ordinals(op) : wal'[op][j].path = wal[op][j].path
        BY <1>7, <2>2
      <3> QED BY <2>2, <3>1 DEF RecordsOf
    <2>4. \A j \in RecordsOf(op, p) : wal'[op][j].src = wal[op][j].src
      BY <1>1, <1>7, <2>2
    <2>5. ASSUME NEW j \in RecordsOf(op, p), \A i \in RecordsOf(op, p) : i <= j,
                 wal'[op][j].st = "CLEANED", ~wal'[op][j].undone
          PROVE  files'[p] = wal'[op][j].dst
      <3>1. CASE j = k
        <4>1. wal[op][k].path = p
          BY <1>1, <3>1
        <4>2. job.step = "clean" => files[p] = wal[op][k].dst
          BY <4>1 DEF VerifiedAt
        <4> QED BY <1>7, <2>2, <2>5, <3>1, <4>1, <4>2
      <3>2. CASE j /= k
        <4>1. wal'[op][j] = wal[op][j]
          BY <1>1, <2>2, <3>2
        <4>2. files[p] = wal[op][j].dst
          BY <2>5, <4>1 DEF HistAt
        <4>3. files'[p] = files[p]
          BY <1>4, <2>5, <4>1
        <4> QED BY <4>1, <4>2, <4>3
      <3> QED BY <3>1, <3>2
    <2> QED BY <1>5, <2>3, <2>4, <2>5 DEF HistAt
  <1>8. ASSUME NEW x \in Paths, BeginIntent(x) PROVE HistAt(op, p, c)'
    <2> DEFINE n == Len(wal[op]) + 1
               r == [path |-> x, src |-> job.intents[x], dst |-> Into[x], st |-> "INTENT",
                     arts |-> {}, undone |-> FALSE]
    <2>1. /\ job.step = "intent" /\ x \in DOMAIN job.intents /\ UNCHANGED files
          /\ wal' = [wal EXCEPT ![op] = Append(@, r)]
      BY <1>8 DEF BeginIntent
    <2>2. r \in MutationRecord
      BY <2>1, ManifestValue, CallingOp
         DEF MutationRecord, RecordStates, Job, JobOK, Into, EngineStep
    <2>3. r.path = x /\ r.src = job.intents[x] /\ r.st = "INTENT"
      OBVIOUS
    <2> HIDE DEF r
    <2>4. /\ Ordinals(op)' = Ordinals(op) \cup {n} /\ n \notin Ordinals(op) /\ wal'[op][n] = r
          /\ \A j \in Ordinals(op) : wal'[op][j] = wal[op][j] /\ j <= n
      BY <2>1, <2>2, <2>3, AppendFacts
    <2>5. CASE x /= p
      <3>1. RecordsOf(op, p)' = RecordsOf(op, p)
        BY <2>3, <2>4, <2>5 DEF RecordsOf
      <3>2. \A j \in RecordsOf(op, p) : wal'[op][j] = wal[op][j]
        BY <1>1, <2>4
      <3>3. UNCHANGED files
        BY <2>1
      <3> QED BY <3>1, <3>2, <3>3 DEF HistAt
    <2>6. CASE x = p
      <3>1. RecordsOf(op, p)' = RecordsOf(op, p) \cup {n}
        BY <2>3, <2>4, <2>6 DEF RecordsOf
      <3>2. n \in Nat
        BY DEF RestoreTypeOK
      <3> HIDE DEF n
      <3>3. \A j \in RecordsOf(op, p) : wal'[op][j] = wal[op][j] /\ j <= n /\ j /= n /\ j \in Nat
        BY <1>1, <2>4
      <3>4. RecordsOf(op, p) = {} => r.src = c
        BY <2>1, <2>3, <2>6 DEF FitAt, HistAt
      <3>5. ASSUME NEW k \in RecordsOf(op, p)', \A j \in RecordsOf(op, p)' : k <= j
            PROVE  wal'[op][k].src = c
        <4>1. CASE k = n
          <5>1. RecordsOf(op, p) = {}
            BY <3>1, <3>2, <3>3, <3>5, <4>1
          <5> QED BY <2>4, <3>4, <4>1, <5>1
        <4>2. CASE k /= n
          BY <3>1, <3>3, <3>5, <4>2 DEF HistAt
        <4> QED BY <4>1, <4>2
      <3>6. ASSUME NEW k \in RecordsOf(op, p)', \A j \in RecordsOf(op, p)' : j <= k
            PROVE  wal'[op][k].st /= "CLEANED"
        <4>1. k = n
          BY <3>1, <3>2, <3>3, <3>6
        <4> QED BY <2>3, <2>4, <4>1
      <3> QED BY <3>1, <3>5, <3>6 DEF HistAt
    <2> QED BY <2>5, <2>6
  <1> QED BY <1>6, <1>7, <1>8, EngineLog DEF LogStep

(* So do the steps that leave the file, the log and the stages of the call *)
(* alone, and those that belong to another operation.                      *)
LEMMA OthersKeepHist ==
  ASSUME NEW op \in Ops, NEW p \in Paths, NEW c, wal'[op] = wal[op], files'[p] = files[p],
         UNCHANGED job \/ job'.op /= op \/ job'.step \notin {"intent", "target", "cleanup", "clean"},
         FitAt(op, p), VerifiedAt(op, p), HistAt(op, p, c)
  PROVE  FitAt(op, p)' /\ VerifiedAt(op, p)' /\ HistAt(op, p, c)'
  <1>1. FitAt(op, p)'
    BY OthersKeepFit
  <1>2. Active(op)' = Active(op) /\ RecordsOf(op, p)' = RecordsOf(op, p)
    BY DEF Active, Ordinals, RecordsOf
  <1>3. VerifiedAt(op, p)'
    BY <1>2 DEF VerifiedAt
  <1>4. HistAt(op, p, c)'
    BY <1>2 DEF HistAt
  <1> QED BY <1>1, <1>3, <1>4

(* An operation that begins has captured the files and has no log yet.     *)
LEMMA BeginHist ==
  ASSUME TypeInv, OutcomeInv, CallInv, CleanInv, HistInv,
         NEW s \in Sessions, NEW op \in Ops, NEW target \in Targets,
         NEW to \in 0..(leaves - 1), Begin(s, op, target, to)
  PROVE  HistInv'
  <1> DEFINE d == [session |-> s, from |-> leaf[s], to |-> to,
                   rollback |-> Captured(DOMAIN target), target |-> target]
  <1>1. /\ phase[op] = "NONE" /\ cur' = op /\ holder = NoSession
        /\ UNCHANGED <<files, wal, job, phase>>
        /\ desc' = [desc EXCEPT ![op] = d] /\ dirty' = [dirty EXCEPT ![op] = {}]
    BY DEF Begin, restoreVars
  <1>2. d.rollback = [p \in DOMAIN target |-> files[p]]
    BY DEF Captured
  <1> HIDE DEF d
  <1>3. /\ desc'[op].rollback = [p \in DOMAIN target |-> files[p]]
        /\ \A o \in Ops : o /= op => desc'[o] = desc[o] /\ dirty'[o] = dirty[o]
    BY <1>1, <1>2 DEF TypeInv, TxTypeOK
  <1>4. wal[op] = <<>> /\ job = IdleJob
    BY <1>1 DEF CleanInv, CallInv, CallPcs, OutcomeInv
  <1>5. ASSUME NEW o \in Ops, Watched(o)', NEW p \in DOMAIN desc'[o].rollback, p \notin dirty'[o],
               NEW c, c = desc'[o].rollback[p]
        PROVE  FitAt(o, p)' /\ VerifiedAt(o, p)' /\ HistAt(o, p, c)'
    <2>1. CASE o = op
      <3>1. wal'[op] = <<>> /\ job'.op /= op
        BY <1>1, <1>4, OpsAssumption DEF IdleJob
      <3>2. Active(op)' = {} /\ RecordsOf(op, p)' = {}
        BY <3>1 DEF Active, RecordsOf, Ordinals
      <3>3. files'[p] = c
        BY <1>1, <1>3, <1>5, <2>1
      <3> QED BY <2>1, <3>1, <3>2, <3>3 DEF FitAt, VerifiedAt, HistAt
    <2>2. CASE o /= op
      <3>1. Watched(o)
        BY <1>1, <1>5, <2>2 DEF Watched, Pending
      <3>2. c = desc[o].rollback[p] /\ p \in DOMAIN desc[o].rollback \ dirty[o]
        BY <1>3, <1>5, <2>2
      <3>3. p \in Paths
        <4>1. desc[o].rollback \in Manifests
          BY DEF TypeInv, TxTypeOK, Descriptor
        <4> QED BY <3>2, <4>1, ManifestValue
      <3>4. FitAt(o, p) /\ VerifiedAt(o, p) /\ HistAt(o, p, c)
        BY <3>1, <3>2 DEF HistInv
      <3>5. wal'[o] = wal[o] /\ files'[p] = files[p] /\ UNCHANGED job
        BY <1>1
      <3> QED BY <3>3, <3>4, <3>5, OthersKeepHist
    <2> QED BY <2>1, <2>2
  <1> QED BY <1>5 DEF HistInv
(* No operation is watched before the first one begins.                    *)
LEMMA InitHistInv == Init => HistInv
  BY OpsAssumption DEF Init, HistInv, Watched, Pending

(* Manifests stay as they are written. Others note a change as somebody    *)
(* else's for every operation that is watched; an operation that is        *)
(* watched was so before, unless it begins.                                *)
LEMMA WhoWatches ==
  ASSUME TypeInv, OutcomeInv, [Next]_vars,
         ~\E s \in Sessions, op \in Ops, target \in Targets, to \in 0..(leaves - 1) :
            Begin(s, op, target, to)
  PROVE  /\ UNCHANGED desc
         /\ \A op \in Ops : Watched(op)' => Watched(op)
  <1> USE DEF SetPhase, sessionVars, txVars, Release, Goto, Watched, Pending
  <1>0. phase \in [Ops -> Phases] /\ NoOp \notin Ops /\ queue \subseteq Pending
    BY OpsAssumption DEF TypeInv, TxTypeOK, OutcomeInv
  <1>1. CASE Operation
    BY <1>0, <1>1
       DEF Operation, AbandonPlan, Prepare, Navigate, NavigateDeclined, NavigateDiverges,
           DeclineAborting, DeclineAborted, RecordDivergence, RecordMoved, ApplyTarget,
           TargetApplied, FilesVerified, CursorDurable, CursorVolatile, CursorAmbiguous,
           RecordAmbiguity, CompensateVolatile, RecordCursor, MarkCommitted, Cancel, OperationFails
  <1>2. CASE Compensation
    BY <1>0, <1>2
       DEF Compensation, CompensateAborting, RestoreLeaf, RollbackApplied, CompensationDone,
           CompensationFails
  <1>3. CASE Recovery
    BY <1>0, <1>3
       DEF Recovery, RecoverSettle, RecoverIgnore, RecoverMutations, MutationsRecovered,
           RestoreManifest, ManifestRestored, SettleRecovery, RecoveryDone, RecoveryLocks, Terminal
  <1>4. CASE UNCHANGED vars
    BY <1>4 DEF vars
  <1> QED
    BY <1>0, <1>1, <1>2, <1>3, <1>4
       DEF Next, StartRecovery, Crash, Restart, AskRecover, Chat, Edit, Restoring

(* A step that writes no file and no log enters no stage of a call in      *)
(* which records are announced or cleaned.                                 *)
LEMMA WhoStarts ==
  ASSUME Waits \/ Calls
  PROVE  UNCHANGED wal /\ (UNCHANGED job \/ job'.step \notin {"intent", "target", "cleanup", "clean"})
  <1>1. CASE Waits
    BY <1>1 DEF Waits, IdleJob
  <1>2. ASSUME NEW op, NEW base, NEW goal, StartApply(op, base, goal)
        PROVE  UNCHANGED wal /\ job'.step \notin {"intent", "target", "cleanup", "clean"}
    BY <1>2, StartedApply
  <1>3. CASE ApplyTarget \/ RestoreManifest
    BY <1>2, <1>3 DEF ApplyTarget, RestoreManifest
  <1>4. CASE RestoreLeaf
    BY <1>2, <1>4 DEF RestoreLeaf
  <1>5. ASSUME NEW op \in Ops, RecoverMutations(op)
        PROVE  UNCHANGED wal /\ job'.step \notin {"intent", "target", "cleanup", "clean"}
    BY <1>5 DEF RecoverMutations, StartRecoverMutations, IdleJob
  <1> QED BY <1>1, <1>3, <1>4, <1>5 DEF Calls

(* Every step keeps what the logs tell.                                    *)
LEMMA NextHistInv ==
  ASSUME TypeInv, OutcomeInv, EngineInv, CallInv, CleanInv, HistInv, [Next]_vars
  PROVE  HistInv'
  <1>1. CASE \E s \in Sessions, op \in Ops, target \in Targets, to \in 0..(leaves - 1) :
               Begin(s, op, target, to)
    BY <1>1, BeginHist
  <1>2. ASSUME ~\E s \in Sessions, op \in Ops, target \in Targets, to \in 0..(leaves - 1) :
                  Begin(s, op, target, to)
        PROVE  HistInv'
    <2>0. RestoreInv /\ desc \in [Ops -> Descriptor] /\ dirty \in [Ops -> SUBSET Paths]
      BY DEF TypeInv, TxTypeOK
    <2>1. UNCHANGED desc /\ \A op \in Ops : Watched(op)' => Watched(op)
      BY <1>2, WhoWatches
    <2>2. ASSUME NEW op \in Ops, Watched(op)', NEW p \in DOMAIN desc'[op].rollback,
                 p \notin dirty'[op], NEW c, c = desc'[op].rollback[p]
          PROVE  FitAt(op, p)' /\ VerifiedAt(op, p)' /\ HistAt(op, p, c)'
      <3>1. Watched(op) /\ p \in DOMAIN desc[op].rollback /\ c = desc[op].rollback[p]
        BY <2>1, <2>2
      <3>2. p \in Paths
        <4>1. desc[op].rollback \in Manifests
          BY <2>0 DEF Descriptor
        <4> QED BY <3>1, <4>1, ManifestValue
      <3>3. p \notin dirty[op] => FitAt(op, p) /\ VerifiedAt(op, p) /\ HistAt(op, p, c)
        BY <3>1 DEF HistInv
      (* What others do shows in dirty.                                    *)
      <3>4. ASSUME NEW self, NoteChanges(self), self /= op
            PROVE  p \notin dirty[op] /\ files'[p] = files[p]
        BY <2>2, <3>1, <3>2, <3>4 DEF NoteChanges
      <3>5. CASE Restoring
        <4>1. EngineStep /\ NoteChanges(job.op) /\ RestoreTypeOK
          BY <2>0, <3>5 DEF Restoring, RestoreInv
        <4>2. CASE op = job.op
          <5>1. dirty'[op] = dirty[op]
            BY <4>1, <4>2 DEF NoteChanges
          <5>2. FitAt(op, p) /\ VerifiedAt(op, p) /\ HistAt(op, p, c)
            BY <2>2, <3>3, <5>1
          <5>3. FitAt(op, p)'
            BY <2>0, <3>2, <4>1, <4>2, <5>2, EngineKeepsFit
          <5>4. VerifiedAt(op, p)'
            BY <2>0, <3>2, <4>1, <4>2, <5>2, EngineKeepsVerified
          <5>5. HistAt(op, p, c)'
            BY <2>0, <3>2, <4>1, <4>2, <5>2, EngineKeepsHist
          <5> QED BY <5>3, <5>4, <5>5
        <4>3. CASE op /= job.op
          <5>1. p \notin dirty[op] /\ files'[p] = files[p]
            BY <3>4, <4>1, <4>3
          <5>2. wal'[op] = wal[op]
            BY <4>1, <4>3, EngineWritesOwnLog
          <5>3. job'.op /= op
            BY <4>1, <4>3, EngineKeepsCall
          <5> QED BY <3>2, <3>3, <5>1, <5>2, <5>3, OthersKeepHist
        <4> QED BY <4>2, <4>3
      <3>6. ASSUME NEW x \in Paths, NEW y \in Leaf, Edit(x, y)
            PROVE  FitAt(op, p)' /\ VerifiedAt(op, p)' /\ HistAt(op, p, c)'
        <4>1. NoteChanges(NoOp) /\ UNCHANGED <<wal, job>>
          BY <3>6 DEF Edit, ExternalEdit
        <4>2. p \notin dirty[op] /\ files'[p] = files[p]
          BY <3>4, <4>1, OpsAssumption
        <4> QED BY <3>2, <3>3, <4>1, <4>2, OthersKeepHist
      <3>7. ASSUME ~Restoring, UNCHANGED <<files, dirty>>
            PROVE  FitAt(op, p)' /\ VerifiedAt(op, p)' /\ HistAt(op, p, c)'
        <4>1. UNCHANGED wal /\ (UNCHANGED job \/ job'.step \notin {"intent", "target", "cleanup", "clean"})
          BY <3>7, WhoWrites, WhoStarts
        <4>2. p \notin dirty[op] /\ files'[p] = files[p] /\ wal'[op] = wal[op]
          BY <2>2, <3>7, <4>1
        <4> QED BY <3>2, <3>3, <4>1, <4>2, OthersKeepHist
      <3> QED BY <1>2, <3>5, <3>6, <3>7, WhoWrites
    <2> QED BY <2>2 DEF HistInv
  <1> QED BY <1>1, <1>2

(* An aborted operation leaves every path of its scope that nobody else    *)
(* changed as it was captured: after a decline and a compensation, after   *)
(* any number of crashes and recoveries. The exception is a recovery that  *)
(* trusts a chain of records of which one was rolled back: a chain without *)
(* one starts at the captured content and ends where the file is           *)
(* (recovery.ts settleCompensated; journal.ts                              *)
(* fingerprintChainsFoldToIdentity).                                       *)
THEOREM AbortRestoresExceptFoldedAlways == Spec => AbortRestoresExceptFolded
  <1>1. TypeInv /\ OutcomeInv /\ HistInv /\ FilesInv /\ [Next]_vars =>
          [\A op \in Ops : Settles(op, "ABORTED") =>
             FilesAt(op, desc[op].rollback) \/ (pc = "recover" /\ RolledBackRecord(op))]_vars
    <2> SUFFICES ASSUME TypeInv, OutcomeInv, HistInv, FilesInv, [Next]_vars,
                        NEW op \in Ops, Settles(op, "ABORTED")
                 PROVE  FilesAt(op, desc[op].rollback) \/ (pc = "recover" /\ RolledBackRecord(op))
      OBVIOUS
    <2>0. phase \in [Ops -> Phases] /\ desc \in [Ops -> Descriptor]
            /\ wal \in [Ops -> Seq(MutationRecord)]
      BY DEF TypeInv, TxTypeOK, RestoreInv, RestoreTypeOK
    <2>1. \/ cur = op /\ (DeclineAborted \/ CompensationDone \/ (SettleRecovery /\ cur \notin cursors))
          \/ RecoverSettle(op)
      BY <2>0, WhoSettles DEF Settles, Terminal, MarkCommitted, SettleRecovery, SetPhase
    <2>2. CASE cur = op
                 /\ (DeclineAborted \/ CompensationDone \/ (SettleRecovery /\ cur \notin cursors))
      BY <2>2 DEF FilesInv, DeclineAborted, CompensationDone, SettleRecovery, At, AtCapture, AtGoal,
                  RecoveryTarget
    <2>3. CASE RecoverSettle(op)
      <3> SUFFICES ASSUME ~RolledBackRecord(op), NEW p \in DOMAIN desc[op].rollback \ dirty[op]
                   PROVE  files[p] = desc[op].rollback[p]
        BY <2>3 DEF RecoverSettle, At, FilesAt
      <3>1. /\ Watched(op) /\ AssertCleaned(op) /\ \A x \in Paths : ChainsFold(op, x)
        BY <2>3 DEF RecoverSettle, Settleable, FullyCompensated, OutcomeInv, Watched
      <3>2. p \in Paths
        <4>1. desc[op].rollback \in Manifests
          BY <2>0 DEF Descriptor
        <4> QED BY <4>1, ManifestValue
      <3> DEFINE K == RecordsOf(op, p)
                 c == desc[op].rollback[p]
      <3>3. HistAt(op, p, c) /\ ChainsFold(op, p)
        BY <3>1, <3>2 DEF HistInv
      <3>4. K \in SUBSET (1..Len(wal[op])) /\ Len(wal[op]) \in Nat /\ K \in SUBSET Nat
        BY <2>0 DEF RecordsOf, Ordinals
      <3>5. \A k \in K : wal[op][k].st = "CLEANED" /\ ~wal[op][k].undone
        BY <3>1 DEF RecordsOf, AssertCleaned, Active, RolledBackRecord
      <3>6. CASE K /= {}
        <4>1. Least(K) \in K /\ \A j \in K : Least(K) <= j
          BY <3>4, <3>6, LeastExists
        <4>2. Greatest(K) \in K /\ \A j \in K : j <= Greatest(K)
          BY <3>4, <3>6, GreatestExists
        <4>3. wal[op][Least(K)].src = c
          BY <3>3, <4>1 DEF HistAt
        <4>4. files[p] = wal[op][Greatest(K)].dst
          BY <3>3, <3>5, <4>2 DEF HistAt
        <4>5. wal[op][Greatest(K)].dst = wal[op][Least(K)].src
          BY <3>3, <3>6 DEF ChainsFold
        <4> QED BY <4>3, <4>4, <4>5
      <3> QED BY <3>3, <3>6 DEF HistAt
    <2> QED BY <2>1, <2>2, <2>3
  <1>2. TypeInv /\ EngineInv /\ [Next]_vars => EngineInv'
    BY NextEngineInv
  <1>3. /\ TypeInv /\ OutcomeInv /\ EngineInv /\ CallInv /\ CleanInv /\ HistInv /\ [Next]_vars
        => HistInv'
    BY NextHistInv
  <1> QED
    BY <1>1, <1>2, <1>3, InitTypeInv, NextTypeInv, InitOutcomeInv, NextOutcomeInv, InitEngineInv,
       InitCallInv, NextCallInv, InitCleanInv, NextCleanInv, InitFilesInv, NextFilesInv,
       InitHistInv, PTL DEF Spec, AbortRestoresExceptFolded


=============================================================================
