------------------------ MODULE RestoreCalls_proofs ------------------------
(***************************************************************************)
(* Restore calls on their own, for any workspace, any number of operations *)
(* and any faults: types, what a step of the engine may take away, and     *)
(* what alone can keep an unfinished record from being rolled back.        *)
(***************************************************************************)
EXTENDS RestoreCalls, RestoreApply_proofs

(* It holds of a workspace with an empty log and no call.                  *)
LEMMA RestoreInitInv == RestoreInit => RestoreInv
  <1> SUFFICES ASSUME RestoreInit PROVE RestoreInv
    OBVIOUS
  <1>1. wal \in [Ops -> Seq(MutationRecord)]
    BY DEF RestoreInit
  <1>2. job \in Job /\ JobOK
    BY IdleJobType, EmptyManifestType DEF RestoreInit, JobOK, IdleJob
  <1> QED BY <1>1, <1>2 DEF RestoreInit, RestoreInv, RestoreTypeOK

(* A caller, the engine, a crash and another program all keep it.          *)
LEMMA RestoreNextInv == RestoreInv /\ [RestoreNext]_restoreVars => RestoreInv'
  <1> SUFFICES ASSUME RestoreInv, [RestoreNext]_restoreVars PROVE RestoreInv'
    OBVIOUS
  <1> USE DEF RestoreInv
  <1>1. ASSUME NEW op \in Ops, NEW goal \in Targets, CallApply(op, goal) PROVE RestoreInv'
    <2>1. goal \in Manifests
      BY TargetsAssumption
    <2>2. Captured(DOMAIN goal) \in Manifests /\ DOMAIN Captured(DOMAIN goal) = DOMAIN goal
      BY <2>1, ManifestValue, ManifestIntro DEF Captured, RestoreTypeOK
    <2>3. spent' \in [Faults -> Nat]
      BY <1>1, SpendType DEF CallApply, Faults
    <2> QED BY <1>1, <2>1, <2>2, <2>3, StartApplyType DEF CallApply
  <1>2. ASSUME NEW op \in Ops, NEW decision \in {"rollback", "roll_forward"},
               CallRecover(op, decision)
        PROVE  RestoreInv'
    BY <1>2, StartRecoverMutationsType DEF CallRecover
  <1>3. CASE EngineStep
    BY <1>3, EngineStepType
  <1>4. CASE Return
    BY <1>4, IdleType DEF Return, RestoreTypeOK
  <1>5. CASE CrashJob
    BY <1>5, IdleType, SpendType DEF CrashJob, Faults
  <1>6. CASE Edit
    BY <1>6, ExternalEditType DEF Edit
  <1>7. CASE UNCHANGED restoreVars
    BY <1>7 DEF restoreVars, RestoreTypeOK, JobOK, Ordinals
  <1> QED BY <1>1, <1>2, <1>3, <1>4, <1>5, <1>6, <1>7 DEF RestoreNext

(* Type correctness of the engine under any caller, and that the records a *)
(* stage has left to do are records of the log.                            *)
THEOREM RestoreTypeCorrect == RestoreSpec => []TypeInvariant
  <1>1. RestoreInv => TypeInvariant
    BY DEF RestoreInv, TypeInvariant
  <1> QED BY <1>1, RestoreInitInv, RestoreNextInv, PTL DEF RestoreSpec

-----------------------------------------------------------------------------
(* What a call knows about its log holds at the start ...                  *)
LEMMA RestoreInitEngine == RestoreInit => EngineInv
  BY InitEngine DEF RestoreInit

(* ... and after every step, whoever takes it.                             *)
LEMMA RestoreNextEngine ==
  RestoreInv /\ EngineInv /\ [RestoreNext]_restoreVars => EngineInv'
  <1> SUFFICES ASSUME RestoreInv, EngineInv, [RestoreNext]_restoreVars PROVE EngineInv'
    OBVIOUS
  <1>1. ASSUME NEW op \in Ops, NEW goal \in Targets, CallApply(op, goal) PROVE EngineInv'
    <2>1. goal \in Manifests
      BY TargetsAssumption
    <2>2. Captured(DOMAIN goal) \in Manifests
      BY <2>1, ManifestValue, ManifestIntro DEF Captured, RestoreInv, RestoreTypeOK
    <2> QED BY <1>1, <2>1, <2>2, StartApplyEngine DEF CallApply
  <1>2. ASSUME NEW op \in Ops, NEW decision \in {"rollback", "roll_forward"},
               CallRecover(op, decision)
        PROVE  EngineInv'
    BY <1>2, StartRecoverEngine DEF CallRecover
  <1>3. CASE EngineStep
    BY <1>3, EngineStepEngine
  <1>4. CASE Return \/ CrashJob
    BY <1>4, IdleEngine DEF Return, CrashJob
  <1>5. CASE Edit
    BY <1>5, OthersEngine DEF Edit, ExternalEdit
  <1>6. CASE UNCHANGED restoreVars
    BY <1>6, OthersEngine DEF restoreVars
  <1> QED BY <1>1, <1>2, <1>3, <1>4, <1>5, <1>6 DEF RestoreNext

(* Both invariants hold in every behaviour of the restore calls.           *)
LEMMA RestoreEngineInv == RestoreSpec => [](RestoreInv /\ EngineInv)
  BY RestoreInitInv, RestoreNextInv, RestoreInitEngine, RestoreNextEngine, PTL DEF RestoreSpec

(* A path that is written again waits for its first record to be cleaned   *)
(* (restore-engine.ts: a batch starts over a clean log and announces each  *)
(* path once), whatever failed or crashed before.                          *)
THEOREM OneRecordPerPath == RestoreSpec => []OneActiveRecordPerPath
  <1>1. RestoreInv /\ EngineInv => OneActiveRecordPerPath
    <2> SUFFICES ASSUME EngineInv, NEW op \in Ops, NEW j \in Active(op), NEW k \in Active(op),
                        wal[op][j].path = wal[op][k].path
                 PROVE  j = k
      BY DEF OneActiveRecordPerPath
    <2>1. j \in Ordinals(op) /\ k \in Ordinals(op) /\ j \in Int /\ k \in Int
      BY DEF Active, Ordinals
    <2>2. j <= k /\ k <= j
      BY <2>1, SMTT(60) DEF EngineInv, LatestActive
    <2> QED BY <2>1, <2>2
  <1> QED BY <1>1, RestoreEngineInv, PTL

(* The steps that are not the engine's and not an edit touch no file.      *)
LEMMA CallersTouchNoFile ==
  ASSUME [RestoreNext]_restoreVars, files' /= files
  PROVE  EngineStep \/ Edit
  BY Zenon DEF RestoreNext, restoreVars, CallApply, StartApply, CallRecover, StartRecoverMutations,
         Return, CrashJob

(* An edit is counted.                                                     *)
LEMMA EditSpends ==
  ASSUME RestoreTypeOK, Edit
  PROVE  spent'["edit"] = spent["edit"] + 1 /\ spent["edit"] \in Nat
  BY DEF Edit, ExternalEdit, Spend, RestoreTypeOK, Faults

(* Whatever others write, and whenever they do, a step of the engine takes *)
(* away only a content that an unfinished record of its own operation      *)
(* accounts for (quarantine.ts: quarantineFileSources, restoreMutation,    *)
(* rollForwardMutation).                                                   *)
THEOREM RecordedContentOnly == RestoreSpec => OnlyRecordedContentRemoved
  <1>1. RestoreInv /\ EngineInv /\ [RestoreNext]_restoreVars =>
          [spent'["edit"] = spent["edit"] =>
             \A p \in Paths : files'[p] /= files[p] =>
               \E k \in Active(job.op) :
                 wal[job.op][k].path = p
                   /\ files[p] \in {wal[job.op][k].src, wal[job.op][k].dst, Absent}]_restoreVars
    <2> SUFFICES ASSUME RestoreInv, EngineInv, [RestoreNext]_restoreVars,
                        spent'["edit"] = spent["edit"],
                        NEW p \in Paths, files'[p] /= files[p]
                 PROVE  \E k \in Active(job.op) :
                          wal[job.op][k].path = p
                            /\ files[p] \in {wal[job.op][k].src, wal[job.op][k].dst, Absent}
      OBVIOUS
    <2>1. ~Edit
      BY EditSpends DEF RestoreInv
    <2>2. EngineStep
      BY <2>1, CallersTouchNoFile
    <2> QED BY <2>2, EngineChangesRecorded
  <1> QED BY <1>1, RestoreEngineInv, PTL DEF RestoreSpec, OnlyRecordedContentRemoved

-----------------------------------------------------------------------------
(***************************************************************************)
(* That a record can be rolled back is a claim about one operation at a    *)
(* time: the log of an operation says nothing of the records another one   *)
(* left unfinished, and StartApply does not look for them. The claim is    *)
(* therefore relative to what the callers owe the engine.                  *)
(***************************************************************************)

(* Unfinished records of different operations are about different paths.   *)
UnsharedPaths ==
  \A o1, o2 \in Ops : \A j \in Active(o1), k \in Active(o2) :
    wal[o1][j].path = wal[o2][k].path => o1 = o2

(* The inductive invariant behind both properties: until somebody else     *)
(* writes, every path fits the unfinished record that is about it.         *)
FitInv == spent["edit"] = 0 => \A op \in Ops : \A p \in Paths : FitAt(op, p)

(* No fault but an edit is counted as one.                                 *)
LEMMA EditsOnlyGrow ==
  ASSUME RestoreTypeOK, [RestoreNext]_restoreVars, spent'["edit"] = 0
  PROVE  spent["edit"] = 0
  <1>1. spent["edit"] \in Nat
    BY DEF RestoreTypeOK, Faults
  <1>2. CASE UNCHANGED spent
    BY <1>2
  <1>3. ASSUME NEW f \in Faults, Spend(f)
        PROVE  spent["edit"] = 0
    BY <1>1, <1>3, SMTT(60) DEF Spend, RestoreTypeOK, Faults
  <1>4. EngineStep => UNCHANGED spent \/ \E f \in Faults : Spend(f)
    <2>1. BatchStep \/ UnwindStep \/ ForwardStep => UNCHANGED spent
      BY Zenon DEF BatchStep, OpenDeletes, OpenWrites, OpenBatch, Verify, BeginIntent, CreateTarget,
             FillTarget, LinkSource, RemoveSource, InstallTarget, MarkVerified, RemoveArtifacts, MarkCleaned,
             UnwindStep, Unwound, RestoreKeep, RestoreUnlink, RestoreLink, RestoreFinish,
             ForwardStep, Forwarded, ForwardDetach, ForwardInstall, ForwardClean
    <2>2. MutationFails \/ RecordConflict => UNCHANGED spent \/ \E f \in Faults : Spend(f)
      BY DEF MutationFails, Fails, RecordConflict, Faults
    <2> QED BY <2>1, <2>2 DEF EngineStep
  <1>5. RestoreNext /\ ~EngineStep => UNCHANGED spent \/ \E f \in Faults : Spend(f)
    BY DEF RestoreNext, CallApply, CallRecover, Return, CrashJob, Edit, ExternalEdit, Faults
  <1> QED BY <1>2, <1>3, <1>4, <1>5 DEF restoreVars

(* Nothing is recorded at first, so nothing is out of place.               *)
LEMMA FitInit == RestoreInit => FitInv
  BY DEF RestoreInit, FitInv, FitAt, Active, Ordinals, IdleJob

(* A step takes a file away only from the one record that is about it.     *)
LEMMA FitNext ==
  ASSUME RestoreInv, EngineInv, UnsharedPaths, FitInv, [RestoreNext]_restoreVars
  PROVE  FitInv'
  <1> USE DEF RestoreInv
  <1> SUFFICES ASSUME spent'["edit"] = 0, NEW op \in Ops, NEW p \in Paths
               PROVE  FitAt(op, p)'
    BY DEF FitInv, FitAt, FitsAs, TornEarly, Torn, Linked, Active, Ordinals
  <1>1. spent["edit"] = 0 /\ FitAt(op, p)
    BY EditsOnlyGrow DEF FitInv
  <1>2. CASE EngineStep /\ job.op = op
    BY <1>1, <1>2, EngineKeepsFit
  <1>3. CASE EngineStep /\ job.op /= op
    <2>1. wal'[op] = wal[op]
      BY <1>3, EngineWritesOwnLog
    <2>2. PICK o \in Ops : job.op = o
      BY <1>3, CallingOp DEF EngineStep
    <2>3. job'.op /= op
      <3>1. job'.op = o
        BY <1>3, <2>2, EngineKeepsCall
      <3> QED BY <1>3, <2>2, <3>1
    <2>4. CASE files'[p] = files[p]
      BY <1>1, <2>1, <2>3, <2>4, OthersKeepFit
    <2>5. CASE files'[p] /= files[p]
      <3>1. PICK k \in Active(o) : wal[o][k].path = p
        BY <1>3, <2>2, <2>5, EngineChangesRecorded
      <3>2. \A j \in Active(op) : wal[op][j].path /= p
        BY <1>3, <2>2, <3>1 DEF UnsharedPaths
      <3> QED BY <2>1, <2>3, <3>2 DEF FitAt, Active, Ordinals
    <2> QED BY <2>4, <2>5
  <1>4. CASE ~EngineStep
    <2>1. ~Edit
      BY <1>1, EditSpends
    <2>2. UNCHANGED files
      BY <1>4, <2>1, CallersTouchNoFile, SMTT(60)
    <2>3. UNCHANGED wal
      BY <1>4, <2>1 DEF RestoreNext, restoreVars, CallApply, StartApply, CallRecover,
                        StartRecoverMutations, Return, CrashJob
    <2>4. UNCHANGED job \/ job'.step \notin {"intent", "target"}
      <3>1. ASSUME NEW o \in Ops, NEW goal \in Targets, CallApply(o, goal)
            PROVE  job'.step \notin {"intent", "target"}
        BY <3>1 DEF CallApply, StartApply, IdleJob
      <3>2. ASSUME NEW o \in Ops, NEW decision, CallRecover(o, decision)
            PROVE  job'.step \notin {"intent", "target"}
        BY <3>2 DEF CallRecover, StartRecoverMutations, IdleJob
      <3>3. Return \/ CrashJob => job'.step \notin {"intent", "target"}
        BY DEF Return, CrashJob, IdleJob
      <3> QED BY <1>4, <2>1, <3>1, <3>2, <3>3 DEF RestoreNext, restoreVars
    <2> QED BY <1>1, <2>2, <2>3, <2>4, OthersKeepFit
  <1> QED BY <1>2, <1>3, <1>4

(* With calls that share no path all three hold in every behaviour.        *)
LEMMA FitHolds == RestoreSpec /\ []UnsharedPaths => [](RestoreInv /\ EngineInv /\ FitInv)
  <1>1. RestoreInv /\ EngineInv /\ UnsharedPaths /\ FitInv /\ [RestoreNext]_restoreVars => FitInv'
    BY FitNext
  <1> QED BY <1>1, RestoreEngineInv, FitInit, PTL DEF RestoreSpec

(* As long as nobody else writes, the content a record replaces stays on   *)
(* disk until its replacement is verified, in place or in the source       *)
(* artifact, across failures, crashes, unwinding and rolling forward.      *)
THEOREM SourceStaysRecoverable ==
  RestoreSpec /\ []UnsharedPaths => []SourceRecoverable
  <1>1. RestoreInv /\ FitInv => SourceRecoverable
    <2> SUFFICES ASSUME RestoreInv, FitInv, spent["edit"] = 0, NEW op \in Ops,
                        NEW k \in Active(op), wal[op][k].st \in {"INTENT", "MIDDLE"},
                        wal[op][k].src /= Absent
                 PROVE  files[wal[op][k].path] = wal[op][k].src \/ "source" \in wal[op][k].arts
      BY DEF SourceRecoverable
    <2>1. wal[op][k].path \in Paths
      BY RecordType DEF RestoreInv, Active, MutationRecord
    <2> QED BY <2>1 DEF FitInv, FitAt, FitsAs, Linked
  <1> QED BY <1>1, FitHolds, PTL

(* As long as nobody else writes, the one thing a rollback cannot account  *)
(* for is a target artifact that was torn while it was written, and then   *)
(* the path still has the content the record was to replace (quarantine.ts *)
(* restoreMutation, cleanupRollbackTarget).                                *)
THEOREM RollbackAccountsUnlessTorn ==
  RestoreSpec /\ []UnsharedPaths => []RollbackBlockedOnlyByTornTarget
  <1>1. RestoreInv /\ FitInv => RollbackBlockedOnlyByTornTarget
    <2> SUFFICES ASSUME RestoreInv, FitInv, spent["edit"] = 0, NEW op \in Ops,
                        Active(op) /= {}, NEW r, r = wal[op][Greatest(Active(op))],
                        Unrestorable(r)
                 PROVE  Torn(r) /\ r.st \in {"INTENT", "MIDDLE"} /\ files[r.path] = r.src
      BY DEF RollbackBlockedOnlyByTornTarget
    <2>1. PICK k \in Active(op) : k = Greatest(Active(op))
      BY GreatestActive DEF RestoreInv
    <2>2. wal[op][k].path \in Paths
      BY RecordType DEF RestoreInv, Active, MutationRecord
    <2>3. FitsAs(wal[op][k], files[wal[op][k].path])
      BY <2>2 DEF FitInv, FitAt
    <2> QED BY <2>1, <2>3, FitRestorable
  <1> QED BY <1>1, FitHolds, PTL

=============================================================================
