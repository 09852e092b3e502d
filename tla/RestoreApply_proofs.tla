------------------------ MODULE RestoreApply_proofs ------------------------
(***************************************************************************)
(* The steps of a restore call, for every workspace, every set of          *)
(* operations and every bound on the faults: they keep the types, they     *)
(* keep what a call knows about the log it writes (EngineInv), they change *)
(* only files and logs of their own operation, and they never leave a path *)
(* where its unfinished record cannot put it back (FitAt).                 *)
(***************************************************************************)
EXTENDS RestoreApply, WellFoundedInduction, TLAPS

(* What the steps need beside their types: the records a stage has left to *)
(* do are records of the log, the manifests of a call have one scope, and  *)
(* only a batch of writes has a target to create and to install.           *)
JobOK ==
  /\ job.op /= NoOp => job.todo \subseteq Ordinals(job.op)
  /\ DOMAIN job.base = DOMAIN job.goal
  /\ DOMAIN job.intents \subseteq DOMAIN job.goal
  /\ job.step \in {"target", "install"} => job.batch = "write"

RestoreInv == RestoreTypeOK /\ JobOK

(* A sequence keeps its type and its length when an element is replaced.   *)
LEMMA ReplaceElement ==
  ASSUME NEW S, NEW s \in Seq(S), NEW k \in 1..Len(s), NEW e \in S
  PROVE  /\ [s EXCEPT ![k] = e] \in Seq(S)
         /\ Len([s EXCEPT ![k] = e]) = Len(s)
  OBVIOUS

(* Rewriting a record of the log keeps the log's type and every length.    *)
LEMMA RewriteType ==
  ASSUME RestoreTypeOK,
         NEW op \in Ops, NEW k \in Ordinals(op), NEW r \in MutationRecord,
         Rewrite(op, k, r)
  PROVE  /\ wal' \in [Ops -> Seq(MutationRecord)]
         /\ \A o \in Ops : Len(wal'[o]) = Len(wal[o])
  <1> DEFINE s == [wal[op] EXCEPT ![k] = r]
  <1>1. wal \in [Ops -> Seq(MutationRecord)] /\ wal[op] \in Seq(MutationRecord)
    BY DEF RestoreTypeOK
  <1>2. s \in Seq(MutationRecord) /\ Len(s) = Len(wal[op])
    BY <1>1, ReplaceElement DEF Ordinals
  <1>3. wal' = [wal EXCEPT ![op] = s]
    BY DEF Rewrite
  <1> HIDE DEF s
  <1> QED BY <1>1, <1>2, <1>3

(* The members of the log are records.                                     *)
LEMMA RecordType ==
  ASSUME RestoreTypeOK, NEW op \in Ops, NEW k \in Ordinals(op)
  PROVE  wal[op][k] \in MutationRecord
  <1>1. wal[op] \in Seq(MutationRecord)
    BY DEF RestoreTypeOK
  <1> QED BY <1>1 DEF Ordinals

(* A manifest maps paths to contents, and every such map is a manifest.    *)
LEMMA ManifestValue ==
  ASSUME NEW m \in Manifests
  PROVE  /\ DOMAIN m \subseteq Paths
         /\ \A p \in DOMAIN m : m[p] \in Leaf
         /\ m = [p \in DOMAIN m |-> m[p]]
  BY DEF Manifests

(* A map from some paths to contents is a manifest of that scope.          *)
LEMMA ManifestIntro ==
  ASSUME NEW S \in SUBSET Paths, NEW f \in [S -> Leaf]
  PROVE  f \in Manifests /\ DOMAIN f = S
  BY DEF Manifests

(* The manifest of an empty scope, which an idle call holds.               *)
LEMMA EmptyManifestType == EmptyManifest \in Manifests /\ DOMAIN EmptyManifest = {}
  BY DEF Manifests, EmptyManifest

(* The engine at rest, before a call and after it returned, is a well-     *)
(* typed call.                                                             *)
LEMMA IdleJobType == IdleJob \in Job
  BY EmptyManifestType DEF IdleJob, Job, Steps, Results, MutatingSteps, BatchSteps

(* The next stage of a batch is a step, and the stages that install belong *)
(* to batches of writes.                                                   *)
LEMMA NextStageType ==
  ASSUME NEW batch \in {"delete", "write"}, NEW step \in BatchSteps,
         step \in {"target", "install"} => batch = "write"
  PROVE  /\ NextStage[batch][step] \in Steps
         /\ NextStage[batch][step] \in {"target", "install"} => batch = "write"
  <1>1. CASE batch = "delete"
    BY <1>1 DEF NextStage, BatchSteps, Steps, MutatingSteps
  <1>2. CASE batch = "write"
    BY <1>2 DEF NextStage, BatchSteps, Steps, MutatingSteps
  <1> QED BY <1>1, <1>2

(* Going on with a stage keeps the call well-formed, whatever the step did *)
(* to the records without adding or removing one.                          *)
LEMMA ProceedType ==
  ASSUME RestoreInv, Calling, job.step \in BatchSteps,
         NEW left \in SUBSET job.todo, Proceed(left),
         \A o \in Ops : Len(wal'[o]) = Len(wal[o])
  PROVE  job' \in Job /\ JobOK'
  <1> USE DEF RestoreInv
  <1>1. job \in Job /\ job.op \in Ops /\ job.op /= NoOp
    BY OpsAssumption DEF RestoreTypeOK, Job, Calling
  <1>2. Ordinals(job.op)' = Ordinals(job.op) \/ job'.op /= job.op
    BY <1>1 DEF Ordinals
  <1>3. CASE left /= {}
    <2>1. job' = [job EXCEPT !.todo = left]
      BY <1>3 DEF Proceed
    <2> QED BY <2>1, <1>1 DEF Job, JobOK, Ordinals
  <1>4. CASE left = {}
    <2> DEFINE next == NextStage[job.batch][job.step]
               todo == IF next \in BatchSteps THEN Active(job.op) ELSE {}
    <2>1. job' = [job EXCEPT !.step = next, !.todo = todo]
      BY <1>4 DEF Proceed
    <2>2. next \in Steps /\ (next \in {"target", "install"} => job.batch = "write")
      BY <1>1, NextStageType DEF JobOK, Job
    <2>3. todo \in SUBSET Nat /\ todo \subseteq Ordinals(job.op)
      BY DEF Active, Ordinals
    <2> HIDE DEF next, todo
    <2> QED BY <2>1, <2>2, <2>3, <1>1 DEF Job, JobOK, Ordinals
  <1> QED BY <1>3, <1>4

(* A step of a batch that rewrites one record, or only moves a file.       *)
LEMMA RecordStepType ==
  ASSUME RestoreInv, Calling, job.step \in BatchSteps, NEW k \in job.todo,
         NEW r \in MutationRecord, Rewrite(job.op, k, r) \/ UNCHANGED wal,
         NEW left \in SUBSET job.todo, Proceed(left) \/ UNCHANGED job,
         files' \in [Paths -> Leaf], UNCHANGED spent
  PROVE  RestoreInv'
  <1> USE DEF RestoreInv
  <1>1. job.op \in Ops /\ job.op /= NoOp /\ k \in Ordinals(job.op)
    BY OpsAssumption DEF RestoreTypeOK, Job, Calling, JobOK
  <1>2. wal' \in [Ops -> Seq(MutationRecord)] /\ \A o \in Ops : Len(wal'[o]) = Len(wal[o])
    <2>1. CASE Rewrite(job.op, k, r)
      BY <2>1, <1>1, RewriteType
    <2>2. CASE UNCHANGED wal
      BY <2>2 DEF RestoreTypeOK
    <2> QED BY <2>1, <2>2
  <1>3. job' \in Job /\ JobOK'
    <2>1. CASE Proceed(left)
      BY <2>1, <1>2, ProceedType
    <2>2. CASE UNCHANGED job
      BY <2>2, <1>1, <1>2 DEF RestoreTypeOK, JobOK, Ordinals
    <2> QED BY <2>1, <2>2
  <1> QED BY <1>2, <1>3 DEF RestoreTypeOK

(* A call that ends, or goes over to unwinding, has nothing left to do.    *)
LEMMA DoneType ==
  ASSUME RestoreInv, NEW result \in Results, Done(result),
         UNCHANGED <<files, wal>>, spent' \in [Faults -> Nat]
  PROVE  RestoreInv'
  BY DEF RestoreInv, RestoreTypeOK, JobOK, Done, Job, Steps

(* Counting a fault keeps the counters natural numbers.                    *)
LEMMA SpendType ==
  ASSUME RestoreTypeOK, NEW f \in Faults, Spend(f)
  PROVE  spent' \in [Faults -> Nat]
  BY DEF RestoreTypeOK, Spend

(* The steps of a batch.                                                   *)
LEMMA OpenBatchType ==
  ASSUME RestoreInv, NEW kind \in {"delete", "write"}, NEW otherwise \in {"write", "verify"},
         NEW S \in SUBSET Scope, OpenBatch(kind, S, otherwise)
  PROVE  RestoreInv'
  <1> USE DEF RestoreInv
  <1>1. job \in Job /\ files \in [Paths -> Leaf] /\ Scope \subseteq Paths
    BY ManifestValue DEF RestoreTypeOK, Job, Scope
  <1> DEFINE intents == [p \in S |-> files[p]]
  <1>2. intents \in Manifests /\ DOMAIN intents = S
    BY <1>1, ManifestIntro
  <1> HIDE DEF intents
  <1>3. CASE S = {}
    BY <1>1, <1>3 DEF OpenBatch, RestoreTypeOK, Job, JobOK, Steps, MutatingSteps, Ordinals
  <1>4. CASE S /= {}
    <2>1. job' = [job EXCEPT !.step = "intent", !.batch = kind, !.intents = intents]
      BY <1>4 DEF OpenBatch, intents
    <2> QED BY <2>1, <1>1, <1>2, ZenonT(60)
          DEF OpenBatch, RestoreTypeOK, Job, JobOK, Steps, MutatingSteps, BatchSteps, Ordinals, Scope
  <1> QED BY <1>3, <1>4

(* Announcing a batch (mutation-journal.ts beginMany) appends INTENT       *)
(* records to the log and makes them the work of the next stage.           *)
LEMMA BeginIntentType ==
  ASSUME RestoreInv, Calling, NEW p \in Paths, BeginIntent(p)
  PROVE  RestoreInv'
  <1> USE DEF RestoreInv
  <1>1. job \in Job /\ job.op \in Ops /\ job.op /= NoOp /\ p \in DOMAIN job.intents
    BY OpsAssumption DEF RestoreTypeOK, Job, Calling, BeginIntent
  <1>2. Into[p] \in Leaf /\ job.intents[p] \in Leaf
    BY <1>1, ManifestValue DEF Job, JobOK, Into
  <1> DEFINE r == [path |-> p, src |-> job.intents[p], dst |-> Into[p], st |-> "INTENT",
                   arts |-> {}, undone |-> FALSE]
             rest == [q \in DOMAIN job.intents \ {p} |-> job.intents[q]]
             next == NextStage[job.batch]["intent"]
             todo == {k \in 1..(Len(wal[job.op]) + 1) :
                        k \in Ordinals(job.op) => k \in Active(job.op)}
  <1>3. r \in MutationRecord
    BY <1>2 DEF MutationRecord, RecordStates
  <1>4. wal' = [wal EXCEPT ![job.op] = Append(wal[job.op], r)]
    BY DEF BeginIntent
  <1>5. job' = IF DOMAIN rest /= {} THEN [job EXCEPT !.intents = rest]
               ELSE [job EXCEPT !.intents = rest, !.step = next, !.todo = todo]
    BY DEF BeginIntent
  <1>6. wal[job.op] \in Seq(MutationRecord) /\ wal \in [Ops -> Seq(MutationRecord)]
    BY <1>1 DEF RestoreTypeOK
  <1>7. rest \in Manifests /\ DOMAIN rest \subseteq DOMAIN job.intents
    BY <1>1, ManifestValue, ManifestIntro DEF Job
  <1>8. next \in Steps /\ (next \in {"target", "install"} => job.batch = "write")
    BY <1>1, NextStageType DEF BatchSteps, Job
  <1>9. todo \in SUBSET Nat /\ todo \subseteq 1..(Len(wal[job.op]) + 1)
    BY <1>6
  <1> HIDE DEF r, rest, next, todo
  <1>10. /\ wal' \in [Ops -> Seq(MutationRecord)]
         /\ Len(wal'[job.op]) = Len(wal[job.op]) + 1
    BY <1>1, <1>3, <1>4, <1>6
  <1>11. job' \in Job /\ job'.op = job.op
    BY <1>1, <1>5, <1>7, <1>8, <1>9 DEF Job
  <1>12. JobOK'
    <2>1. CASE DOMAIN rest /= {}
      <3>1. job' = [job EXCEPT !.intents = rest]
        BY <2>1, <1>5
      <3>2. (job.todo \subseteq Ordinals(job.op))'
        BY <3>1, <1>1, <1>6, <1>10 DEF Job, JobOK, Ordinals
      <3> QED BY <3>1, <3>2, <1>1, <1>7 DEF Job, JobOK
    <2>2. CASE DOMAIN rest = {}
      <3>1. job' = [job EXCEPT !.intents = rest, !.step = next, !.todo = todo]
        BY <2>2, <1>5
      <3>2. (job.todo \subseteq Ordinals(job.op))'
        BY <3>1, <1>1, <1>9, <1>10 DEF Job, Ordinals
      <3> QED BY <3>1, <3>2, <1>1, <1>7, <1>8 DEF Job, JobOK
    <2> QED BY <2>1, <2>2
  <1> QED BY <1>10, <1>11, <1>12 DEF RestoreTypeOK, BeginIntent

(* Writing a path keeps the workspace's type.                              *)
LEMMA SetFileType ==
  ASSUME RestoreTypeOK, NEW p \in Paths, NEW c \in Leaf, SetFile(p, c)
  PROVE  files' \in [Paths -> Leaf]
  BY DEF RestoreTypeOK, SetFile

(* Every step of a forward batch keeps the invariant: one case for each    *)
(* stage.                                                                  *)
LEMMA BatchStepType ==
  ASSUME RestoreInv, Calling, BatchStep
  PROVE  RestoreInv'
  <1> USE DEF RestoreInv
  <1>0. job \in Job /\ job.op \in Ops /\ files \in [Paths -> Leaf]
    BY DEF RestoreTypeOK, Job, Calling
  <1>1. CASE OpenDeletes
    <2>1. DeletePaths \in SUBSET Scope
      BY DEF DeletePaths
    <2> QED BY <1>1, <2>1, OpenBatchType DEF OpenDeletes
  <1>2. CASE OpenWrites
    <2>1. WritePaths \in SUBSET Scope
      BY DEF WritePaths
    <2> QED BY <1>2, <2>1, OpenBatchType DEF OpenWrites
  <1>3. CASE Verify
    <2>1. PICK result \in Results : Done(result)
      BY <1>3 DEF Verify, Results
    <2> QED BY <1>3, <2>1, DoneType DEF Verify, RestoreTypeOK
  <1>4. ASSUME NEW p \in Paths, BeginIntent(p) PROVE RestoreInv'
    BY <1>4, BeginIntentType
  <1>5. ASSUME NEW k \in job.todo,
               CreateTarget(k) \/ FillTarget(k) \/ LinkSource(k) \/ RemoveSource(k) \/ InstallTarget(k)
                 \/ MarkVerified(k) \/ RemoveArtifacts(k) \/ MarkCleaned(k)
        PROVE  RestoreInv'
    <2> DEFINE r == wal[job.op][k]
               left == job.todo \ {k}
    <2>1. r \in MutationRecord /\ k \in Ordinals(job.op)
      BY <1>0, <1>5, RecordType DEF JobOK, Calling
    <2>2. left \in SUBSET job.todo
      OBVIOUS
    <2>3. Absent \in Leaf /\ r.path \in Paths /\ r.dst \in Leaf
      BY <2>1 DEF Leaf, MutationRecord
    <2>4. CASE CreateTarget(k)
      <3>1. [r EXCEPT !.arts = @ \cup {"torn"}] \in MutationRecord
        BY <2>1 DEF MutationRecord, Artifacts
      <3> QED BY <2>4, <3>1, <2>2, <1>0, <1>5, RecordStepType DEF CreateTarget, BatchSteps
    <2>4a. CASE FillTarget(k)
      <3>1. [r EXCEPT !.arts = (@ \ {"torn"}) \cup {"target"}] \in MutationRecord
        BY <2>1 DEF MutationRecord, Artifacts
      <3> QED BY <2>4a, <3>1, <2>2, <1>0, <1>5, RecordStepType DEF FillTarget, BatchSteps
    <2>5. CASE LinkSource(k)
      <3>1. [r EXCEPT !.arts = @ \cup {"source"}] \in MutationRecord
        BY <2>1 DEF MutationRecord, Artifacts
      <3> QED BY <2>5, <3>1, <2>2, <1>0, <1>5, RecordStepType DEF LinkSource, BatchSteps
    <2>6. CASE RemoveSource(k)
      <3>1. files' \in [Paths -> Leaf]
        BY <2>6, <2>3, <1>0, SetFileType DEF RemoveSource
      <3> QED BY <2>6, <3>1, <2>1, <2>2, <1>5, RecordStepType DEF RemoveSource, BatchSteps
    <2>7. CASE InstallTarget(k)
      <3>1. files' \in [Paths -> Leaf]
        BY <2>7, <2>3, SetFileType DEF InstallTarget
      <3> QED BY <2>7, <3>1, <2>1, <2>2, <1>5, RecordStepType DEF InstallTarget, BatchSteps
    <2>8. CASE MarkVerified(k)
      <3>1. /\ [r EXCEPT !.st = "MIDDLE"] \in MutationRecord
            /\ [r EXCEPT !.st = "TARGET_VERIFIED"] \in MutationRecord
        BY <2>1 DEF MutationRecord, RecordStates
      <3>2. CASE r.st = "INTENT"
        BY <2>8, <3>1, <3>2, <2>2, <1>0, <1>5, RecordStepType, SMTT(60) DEF MarkVerified, BatchSteps
      <3>3. CASE r.st /= "INTENT"
        BY <2>8, <3>1, <3>3, <2>2, <1>0, <1>5, RecordStepType DEF MarkVerified, BatchSteps
      <3> QED BY <3>2, <3>3
    <2>9. CASE RemoveArtifacts(k)
      <3>1. [r EXCEPT !.arts = {}] \in MutationRecord
        BY <2>1 DEF MutationRecord
      <3> QED BY <2>9, <3>1, <2>2, <1>0, <1>5, RecordStepType DEF RemoveArtifacts, BatchSteps
    <2>10. CASE MarkCleaned(k)
      <3>1. [r EXCEPT !.st = "CLEANED"] \in MutationRecord
        BY <2>1 DEF MutationRecord, RecordStates
      <3> QED BY <2>10, <3>1, <2>2, <1>0, <1>5, RecordStepType DEF MarkCleaned, BatchSteps
    <2> QED BY <1>5, <2>4, <2>4a, <2>5, <2>6, <2>7, <2>8, <2>9, <2>10
  <1> QED BY <1>1, <1>2, <1>3, <1>4, <1>5 DEF BatchStep

(* Unwinding and rolling forward: one record is rewritten, or one path is  *)
(* written, and the call itself stays where it is.                         *)
LEMMA RepairStepType ==
  ASSUME RestoreInv, Calling, NEW k \in Ordinals(job.op),
         NEW r \in MutationRecord, Rewrite(job.op, k, r) \/ UNCHANGED wal,
         files' \in [Paths -> Leaf], UNCHANGED <<job, spent>>
  PROVE  RestoreInv'
  <1> USE DEF RestoreInv
  <1>1. job \in Job /\ job.op \in Ops
    BY DEF RestoreTypeOK, Job, Calling
  <1>2. wal' \in [Ops -> Seq(MutationRecord)] /\ \A o \in Ops : Len(wal'[o]) = Len(wal[o])
    <2>1. CASE Rewrite(job.op, k, r)
      BY <2>1, <1>1, RewriteType
    <2>2. CASE UNCHANGED wal
      BY <2>2 DEF RestoreTypeOK
    <2> QED BY <2>1, <2>2
  <1> QED BY <1>1, <1>2 DEF RestoreTypeOK, JobOK, Ordinals

(* Every step that rolls a record back (quarantine.ts restoreMutation)     *)
(* keeps it.                                                               *)
LEMMA UnwindStepType ==
  ASSUME RestoreInv, Calling, UnwindStep
  PROVE  RestoreInv'
  <1> USE DEF RestoreInv
  <1>0. job \in Job /\ job.op \in Ops /\ files \in [Paths -> Leaf]
    BY DEF RestoreTypeOK, Job, Calling
  <1>1. CASE Unwound
    <2>1. CASE job.ctx = "recover"
      BY <1>1, <2>1, DoneType DEF Unwound, Results, RestoreTypeOK
    <2>2. CASE job.ctx = "apply"
      <3>1. job' = [job EXCEPT !.ctx = "rollback", !.step = "delete"]
        BY <1>1, <2>2 DEF Unwound
      <3> QED BY <1>0, <1>1, <3>1 DEF Unwound, RestoreTypeOK, Job, JobOK, Steps, MutatingSteps, Ordinals
    <2>3. CASE job.ctx = "rollback"
      <3>1. PICK result \in Results : Done(result)
        BY <1>1, <2>3 DEF Unwound, Results
      <3> QED BY <1>1, <3>1, DoneType DEF Unwound, RestoreTypeOK
    <2> QED BY <1>0, <2>1, <2>2, <2>3 DEF Job
  <1>2. ASSUME NEW k \in Active(job.op),
               RestoreKeep(k) \/ RestoreUnlink(k) \/ RestoreLink(k) \/ RestoreFinish(k)
        PROVE  RestoreInv'
    <2> DEFINE r == wal[job.op][k]
    <2>1. k \in Ordinals(job.op) /\ r \in MutationRecord
      BY <1>0, RecordType DEF Active
    <2>2. Absent \in Leaf /\ r.path \in Paths /\ r.src \in Leaf
      BY <2>1 DEF Leaf, MutationRecord
    <2>3. CASE RestoreKeep(k)
      <3>1. [r EXCEPT !.st = "CLEANED", !.arts = {}] \in MutationRecord
        BY <2>1 DEF MutationRecord, RecordStates
      <3> QED BY <2>3, <3>1, <2>1, <1>0, RepairStepType DEF RestoreKeep
    <2>4. CASE RestoreUnlink(k)
      <3>1. files' \in [Paths -> Leaf]
        BY <2>4, <2>2, SetFileType DEF RestoreUnlink
      <3> QED BY <2>4, <3>1, <2>1, RepairStepType DEF RestoreUnlink
    <2>5. CASE RestoreLink(k)
      <3>1. files' \in [Paths -> Leaf]
        BY <2>5, <2>2, SetFileType DEF RestoreLink
      <3> QED BY <2>5, <3>1, <2>1, RepairStepType DEF RestoreLink
    <2>6. CASE RestoreFinish(k)
      <3>1. [r EXCEPT !.st = "CLEANED", !.arts = {}, !.undone = TRUE] \in MutationRecord
        BY <2>1 DEF MutationRecord, RecordStates
      <3> QED BY <2>6, <3>1, <2>1, <1>0, RepairStepType DEF RestoreFinish
    <2> QED BY <1>2, <2>3, <2>4, <2>5, <2>6
  <1> QED BY <1>1, <1>2 DEF UnwindStep

(* Every step that rolls a record forward (quarantine.ts                   *)
(* rollForwardMutation) keeps it.                                          *)
LEMMA ForwardStepType ==
  ASSUME RestoreInv, Calling, ForwardStep
  PROVE  RestoreInv'
  <1> USE DEF RestoreInv
  <1>0. job \in Job /\ job.op \in Ops /\ files \in [Paths -> Leaf]
    BY DEF RestoreTypeOK, Job, Calling
  <1>1. CASE Forwarded
    BY <1>1, DoneType DEF Forwarded, Results, RestoreTypeOK
  <1>2. ASSUME NEW k \in Active(job.op),
               ForwardDetach(k) \/ ForwardInstall(k) \/ ForwardClean(k)
        PROVE  RestoreInv'
    <2> DEFINE r == wal[job.op][k]
    <2>1. k \in Ordinals(job.op) /\ r \in MutationRecord
      BY <1>0, RecordType DEF Active
    <2>2. Absent \in Leaf /\ r.path \in Paths /\ r.dst \in Leaf
      BY <2>1 DEF Leaf, MutationRecord
    <2>3. CASE ForwardDetach(k)
      <3>1. [r EXCEPT !.st = "MIDDLE"] \in MutationRecord
        BY <2>1 DEF MutationRecord, RecordStates
      <3>2. files' \in [Paths -> Leaf]
        BY <2>3, <2>2, SetFileType DEF ForwardDetach
      <3> QED BY <2>3, <3>1, <3>2, <2>1, RepairStepType DEF ForwardDetach
    <2>4. CASE ForwardInstall(k)
      <3>1. [r EXCEPT !.st = "TARGET_VERIFIED", !.arts = @ \ {"target"}] \in MutationRecord
        BY <2>1 DEF MutationRecord, RecordStates
      <3>2. files' \in [Paths -> Leaf]
        BY <2>4, <2>2, SetFileType DEF ForwardInstall
      <3> QED BY <2>4, <3>1, <3>2, <2>1, RepairStepType DEF ForwardInstall
    <2>5. CASE ForwardClean(k)
      <3>1. [r EXCEPT !.st = "CLEANED", !.arts = {}] \in MutationRecord
        BY <2>1 DEF MutationRecord, RecordStates
      <3> QED BY <2>5, <3>1, <2>1, <1>0, RepairStepType DEF ForwardClean
    <2> QED BY <1>2, <2>3, <2>4, <2>5
  <1> QED BY <1>1, <1>2 DEF ForwardStep

(* Every step of a call in progress, failures and conflicts included.      *)
THEOREM EngineStepType ==
  ASSUME RestoreInv, EngineStep
  PROVE  RestoreInv'
  <1> USE DEF RestoreInv
  <1>1. Calling
    BY DEF EngineStep
  <1>2. CASE MutationFails
    <2>1. job' = [job EXCEPT !.step = "unwind", !.todo = {}, !.intents = EmptyManifest]
      BY <1>2 DEF MutationFails
    <2>2. spent' \in [Faults -> Nat]
      BY <1>2, SpendType DEF MutationFails, Fails, Faults, RestoreTypeOK
    <2> QED BY <1>2, <2>1, <2>2, EmptyManifestType
          DEF MutationFails, RestoreTypeOK, Job, JobOK, Steps
  <1>3. CASE RecordConflict
    <2>1. spent' \in [Faults -> Nat]
      BY <1>3, SpendType DEF RecordConflict, Faults, RestoreTypeOK
    <2> QED BY <1>3, <2>1, DoneType DEF RecordConflict, Results
  <1> QED BY <1>1, <1>2, <1>3, BatchStepType, UnwindStepType, ForwardStepType DEF EngineStep

(* Starting a call, for any manifests with one scope.                      *)
LEMMA StartApplyType ==
  ASSUME RestoreInv, NEW op \in Ops, NEW base \in Manifests, NEW goal \in Manifests,
         DOMAIN base = DOMAIN goal, StartApply(op, base, goal), spent' \in [Faults -> Nat]
  PROVE  RestoreInv'
  <1> USE DEF RestoreInv
  <1> DEFINE start == [IdleJob EXCEPT !.op = op, !.base = base, !.goal = goal]
  <1>1. /\ start \in Job /\ start.op = op /\ start.base = base /\ start.goal = goal
        /\ start.todo = {} /\ start.intents = EmptyManifest
    BY IdleJobType DEF Job, IdleJob
  <1>2. \/ job' = [start EXCEPT !.step = "done", !.result = "recovery_required"]
        \/ job' = [start EXCEPT !.step = "done", !.result = "restore_failed_safe"]
        \/ job' = [start EXCEPT !.step = "delete"]
    BY DEF StartApply
  <1> HIDE DEF start
  <1>3. job' \in Job /\ JobOK'
    BY <1>1, <1>2, EmptyManifestType, ZenonT(60) DEF Job, JobOK, Steps, MutatingSteps, Results
  <1> QED BY <1>3 DEF StartApply, RestoreTypeOK

(* A recovery that starts on the records of an operation keeps it.         *)
LEMMA StartRecoverMutationsType ==
  ASSUME RestoreInv, NEW op \in Ops, NEW decision,
         StartRecoverMutations(op, decision), UNCHANGED spent
  PROVE  RestoreInv'
  <1> USE DEF RestoreInv
  <1>1. PICK step \in {"unwind", "forward"} :
          job' = [IdleJob EXCEPT !.op = op, !.ctx = "recover", !.step = step]
    BY DEF StartRecoverMutations
  <1>2. job' \in Job /\ JobOK'
    BY <1>1, IdleJobType DEF Job, JobOK, IdleJob, Steps
  <1> QED BY <1>2 DEF StartRecoverMutations, RestoreTypeOK

(* An idle process, and a workspace others write to.                       *)
LEMMA IdleType ==
  ASSUME RestoreInv, job' = IdleJob, UNCHANGED <<files, wal>>, spent' \in [Faults -> Nat]
  PROVE  RestoreInv'
  BY IdleJobType DEF RestoreInv, RestoreTypeOK, JobOK, IdleJob

(* A file that another program writes is still a file of the workspace.    *)
LEMMA ExternalEditType ==
  ASSUME RestoreInv, NEW p \in Paths, NEW c \in Leaf, ExternalEdit(p, c)
  PROVE  RestoreInv'
  BY SetFileType, SpendType DEF ExternalEdit, RestoreInv, RestoreTypeOK, JobOK, Ordinals, Faults

-----------------------------------------------------------------------------
(***************************************************************************)
(* What a call in progress knows about the log it writes.                  *)
(***************************************************************************)

(* What a record replaces is still there, in its source artifact, or it    *)
(* replaces nothing.                                                       *)
Linked(r) == r.src = Absent \/ "source" \in r.arts

(* The work of a stage is unfinished records only; a batch starts over a   *)
(* clean log, and announces each path once.                                *)
BatchOK ==
  Calling =>
    /\ job.step \in BatchSteps \ {"intent"} => job.todo \subseteq Active(job.op)
    /\ job.step \in {"delete", "write", "verify"} => AssertCleaned(job.op)
    /\ job.step = "intent" =>
         \A k \in Active(job.op) : wal[job.op][k].path \notin DOMAIN job.intents
    /\ job.step = "clean" => Active(job.op) \subseteq job.todo
    /\ job.step = "done" /\ job.result = "ok" => AssertCleaned(job.op)

(* An unfinished record is the newest one of its path.                     *)
LatestActive ==
  \A op \in Ops : \A k \in Active(op), j \in Ordinals(op) :
    wal[op][j].path = wal[op][k].path => j <= k

OwnContent(p, c) == c \in {job.base[p], job.goal[p]}

(* A call that applies or rolls back has records only for paths of its     *)
(* scope, between the content it captured and the content it installs.     *)
OwnOK ==
  Calling /\ job.ctx \in {"apply", "rollback"} /\ job.step \notin {"idle", "done"} =>
    /\ \A k \in Active(job.op) :
         /\ wal[job.op][k].path \in Scope
         /\ OwnContent(wal[job.op][k].path, wal[job.op][k].src)
         /\ OwnContent(wal[job.op][k].path, wal[job.op][k].dst)
    /\ job.step = "intent" => \A p \in DOMAIN job.intents : OwnContent(p, job.intents[p])

(* A record that was announced and nothing more was done for.              *)
Fresh(r) == r.st = "INTENT" /\ "source" \notin r.arts

(* The stages are barriers: no source is linked before every target is     *)
(* whole, no file taken away before every source is linked, no artifact    *)
(* before every target is verified.                                        *)
StageOK ==
  Calling =>
    /\ job.step \in {"intent", "target"} => \A k \in Active(job.op) : Fresh(wal[job.op][k])
    /\ job.step \in BatchSteps =>
         \A k \in Active(job.op) :
           Torn(wal[job.op][k]) => job.step = "target" /\ k \in job.todo
    /\ job.step = "link" => \A k \in Active(job.op) \ job.todo : Linked(wal[job.op][k])
    /\ job.step \in {"remove", "install"} => \A k \in Active(job.op) : Linked(wal[job.op][k])
    /\ job.step = "mark" =>
         \A k \in Active(job.op) \ job.todo : wal[job.op][k].st = "TARGET_VERIFIED"
    /\ job.step \in {"cleanup", "clean"} =>
         \A k \in Active(job.op) : wal[job.op][k].st = "TARGET_VERIFIED"

EngineInv == BatchOK /\ LatestActive /\ OwnOK /\ StageOK

(* A call in progress is the call of an operation.                         *)
LEMMA CallingOp ==
  ASSUME RestoreInv, Calling
  PROVE  job.op \in Ops /\ job \in Job
  BY DEF RestoreInv, RestoreTypeOK, Job, Calling

(* Rewriting a record changes that record and nothing else.                *)
LEMMA RewriteFacts ==
  ASSUME RestoreTypeOK, NEW op \in Ops, NEW k \in Ordinals(op), NEW r \in MutationRecord,
         Rewrite(op, k, r)
  PROVE  /\ wal'[op][k] = r
         /\ \A o \in Ops : Ordinals(o)' = Ordinals(o)
         /\ \A j \in Ordinals(op) : j /= k => wal'[op][j] = wal[op][j]
         /\ \A o \in Ops : o /= op => wal'[o] = wal[o]
  <1> DEFINE s == [wal[op] EXCEPT ![k] = r]
  <1>1. wal \in [Ops -> Seq(MutationRecord)] /\ wal[op] \in Seq(MutationRecord)
    BY DEF RestoreTypeOK
  <1>2. /\ s[k] = r /\ \A j \in Ordinals(op) : j /= k => s[j] = wal[op][j]
    BY <1>1 DEF Ordinals
  <1>3. Len(s) = Len(wal[op])
    BY <1>1, ReplaceElement DEF Ordinals
  <1>4. wal' = [wal EXCEPT ![op] = s]
    BY DEF Rewrite
  <1> HIDE DEF s
  <1> QED BY <1>1, <1>2, <1>3, <1>4 DEF Ordinals

(* Finishing a record takes it out of the unfinished ones; any other       *)
(* change of an unfinished record keeps them.                              *)
LEMMA RewriteActive ==
  ASSUME RestoreTypeOK, NEW op \in Ops, NEW k \in Active(op), NEW r \in MutationRecord,
         Rewrite(op, k, r)
  PROVE  Active(op)' = IF r.st = "CLEANED" THEN Active(op) \ {k} ELSE Active(op)
  <1>1. k \in Ordinals(op)
    BY DEF Active
  <1>2. /\ wal'[op][k] = r /\ Ordinals(op)' = Ordinals(op)
        /\ \A j \in Ordinals(op) : j /= k => wal'[op][j] = wal[op][j]
    BY <1>1, RewriteFacts
  <1>3. Active(op)' = {j \in Ordinals(op) : wal'[op][j].st /= "CLEANED"}
    BY <1>2 DEF Active
  <1>4. CASE r.st = "CLEANED"
    <2>1. \A j \in Ordinals(op) : wal'[op][j].st /= "CLEANED" <=> (j /= k /\ wal[op][j].st /= "CLEANED")
      BY <1>2, <1>4
    <2>2. Active(op)' = Active(op) \ {k}
      BY <1>3, <2>1 DEF Active
    <2> QED BY <2>2, <1>4
  <1>5. CASE r.st /= "CLEANED"
    <2>1. \A j \in Ordinals(op) : wal'[op][j].st /= "CLEANED" <=> wal[op][j].st /= "CLEANED"
      BY <1>2, <1>5 DEF Active
    <2>2. Active(op)' = Active(op)
      BY <1>3, <2>1 DEF Active
    <2> QED BY <2>2, <1>5
  <1> QED BY <1>4, <1>5

(* The logs of the other operations stay as they are.                      *)
LEMMA RewriteOthers ==
  ASSUME RestoreTypeOK, NEW op \in Ops, NEW k \in Ordinals(op), NEW r \in MutationRecord,
         Rewrite(op, k, r), NEW o \in Ops, o /= op
  PROVE  wal'[o] = wal[o] /\ Active(o)' = Active(o) /\ Ordinals(o)' = Ordinals(o)
  BY RewriteFacts DEF Active, Ordinals

(* A record that keeps its path stays the newest one of it.                *)
LEMMA RewriteLatest ==
  ASSUME RestoreTypeOK, LatestActive, NEW op \in Ops, NEW k \in Active(op),
         NEW r \in MutationRecord, Rewrite(op, k, r), r.path = wal[op][k].path
  PROVE  LatestActive'
  <1>1. k \in Ordinals(op)
    BY DEF Active
  <1> SUFFICES ASSUME NEW o \in Ops, NEW i \in Active(o)', NEW j \in Ordinals(o)',
                      wal'[o][j].path = wal'[o][i].path
               PROVE  j <= i
    BY DEF LatestActive
  <1>2. Ordinals(o)' = Ordinals(o) /\ \A x \in Ordinals(o) : wal'[o][x].path = wal[o][x].path
    BY <1>1, RewriteFacts
  <1>3. i \in Active(o)
    BY RewriteActive, RewriteOthers, <1>1
  <1>4. i \in Ordinals(o)
    BY <1>3 DEF Active
  <1> QED BY <1>2, <1>3, <1>4 DEF LatestActive

(* A log nobody writes.                                                    *)
LEMMA LogUntouched ==
  ASSUME UNCHANGED wal
  PROVE  /\ \A o \in Ops : Active(o)' = Active(o) /\ Ordinals(o)' = Ordinals(o)
         /\ LatestActive => LatestActive'
  BY DEF Active, Ordinals, LatestActive

(* Which stage follows which.                                              *)
LEMMA StageOrder ==
  ASSUME NEW batch \in {"delete", "write"}, NEW step \in BatchSteps,
         step \in {"target", "install"} => batch = "write", NEW next,
         next = NextStage[batch][step]
  PROVE  /\ next \in (BatchSteps \ {"intent"}) \cup {"write", "verify"}
         /\ next \in {"write", "verify"} <=> step = "clean"
         /\ next = "target" => step = "intent"
         /\ next = "link" => step \in {"intent", "target"}
         /\ next = "remove" => step = "link"
         /\ next = "install" => step = "remove"
         /\ next = "mark" => step \in {"remove", "install"}
         /\ next = "cleanup" => step = "mark"
         /\ next = "clean" => step = "cleanup"
         /\ step = "intent" => next \in {"target", "link"}
  <1>1. CASE batch = "delete"
    BY <1>1 DEF NextStage, BatchSteps
  <1>2. CASE batch = "write"
    BY <1>2 DEF NextStage, BatchSteps
  <1> QED BY <1>1, <1>2

(* What a step does to the log when it may rewrite one unfinished record.  *)
LEMMA OneRecord ==
  ASSUME RestoreTypeOK, LatestActive, NEW op \in Ops, NEW k \in Active(op),
         NEW r \in MutationRecord, r.path = wal[op][k].path,
         Rewrite(op, k, r) \/ (UNCHANGED wal /\ r = wal[op][k])
  PROVE  /\ wal'[op][k] = r
         /\ \A j \in Ordinals(op) : j /= k => wal'[op][j] = wal[op][j]
         /\ Active(op)' = IF r.st = "CLEANED" THEN Active(op) \ {k} ELSE Active(op)
         /\ LatestActive'
  <1>1. k \in Ordinals(op)
    BY DEF Active
  <1>2. CASE Rewrite(op, k, r)
    BY <1>1, <1>2, RewriteFacts, RewriteActive, RewriteLatest
  <1>3. CASE UNCHANGED wal /\ r = wal[op][k]
    <2>1. r.st /= "CLEANED"
      BY <1>3 DEF Active
    <2> QED BY <1>3, <2>1, LogUntouched
  <1> QED BY <1>2, <1>3

(* A stage of a batch goes on after one of its records, provided the step  *)
(* did for that record what the stage is there for.                        *)
LEMMA StageStep ==
  ASSUME RestoreInv, EngineInv, Calling, NEW op \in Ops, job.op = op,
         NEW step \in BatchSteps \ {"intent"}, job.step = step,
         NEW k \in job.todo, NEW r \in MutationRecord,
         Rewrite(op, k, r) \/ (UNCHANGED wal /\ r = wal[op][k]),
         r.path = wal[op][k].path, r.src = wal[op][k].src, r.dst = wal[op][k].dst,
         Proceed(job.todo \ {k}),
         ~Torn(r), step = "target" => Fresh(r), step = "link" => Linked(r),
         step \in {"remove", "install"} => r = wal[op][k],
         step \in {"mark", "cleanup"} => r.st = "TARGET_VERIFIED",
         r.st = "CLEANED" <=> step = "clean"
  PROVE  EngineInv'
  <1> USE DEF RestoreInv
  <1>0. job \in Job /\ op /= NoOp /\ RestoreTypeOK
    BY OpsAssumption DEF RestoreTypeOK
  <1>1. k \in Active(op) /\ job.todo \subseteq Active(op)
    BY DEF EngineInv, BatchOK
  <1>2. /\ wal'[op][k] = r
        /\ \A j \in Ordinals(op) : j /= k => wal'[op][j] = wal[op][j]
        /\ Active(op)' = IF step = "clean" THEN Active(op) \ {k} ELSE Active(op)
        /\ LatestActive'
    BY <1>0, <1>1, OneRecord DEF EngineInv
  <1>3. \A j \in Active(op) : j \in Ordinals(op)
    BY DEF Active
  <1> DEFINE next == NextStage[job.batch][step]
             left == job.todo \ {k}
             todo == IF next \in BatchSteps THEN Active(op) ELSE {}
  <1>4. /\ next \in (BatchSteps \ {"intent"}) \cup {"write", "verify"}
        /\ next \in {"write", "verify"} <=> step = "clean"
        /\ next /= "target" /\ next /= "intent"
        /\ next = "link" => step = "target"
        /\ next = "remove" => step = "link"
        /\ next = "install" => step = "remove"
        /\ next = "cleanup" => step = "mark"
        /\ next = "clean" => step = "cleanup"
    BY <1>0, StageOrder DEF Job, JobOK
  <1>5. \/ left /= {} /\ job' = [job EXCEPT !.todo = left]
        \/ left = {} /\ job' = [job EXCEPT !.step = next, !.todo = todo]
    BY DEF Proceed
  <1>6. job'.op = op /\ job'.base = job.base /\ job'.goal = job.goal /\ job'.ctx = job.ctx
    BY <1>0, <1>5, ZenonT(60) DEF Job
  <1> HIDE DEF next
  <1>7. \/ left /= {} /\ job'.step = step /\ job'.todo = left
        \/ left = {} /\ job'.step = next /\ job'.todo = todo
    BY <1>0, <1>5, ZenonT(60) DEF Job
  <1>8. \A j \in Active(op)' : j \in Active(op)
    BY <1>2, SMTT(60)
  <1>9. OwnOK'
    <2>1. \A j \in Active(op)' : /\ wal'[op][j].path = wal[op][j].path
                                 /\ wal'[op][j].src = wal[op][j].src
                                 /\ wal'[op][j].dst = wal[op][j].dst
      BY <1>2, <1>3, <1>8
    <2>2. job'.step /= "intent" /\ step \notin {"idle", "done"}
      BY <1>4, <1>7 DEF BatchSteps
    <2> QED BY <2>1, <2>2, <1>6, <1>8, SMTT(60) DEF EngineInv, OwnOK, OwnContent, Scope
  <1>10. CASE left /= {}
    <2>1. job'.step = step /\ job'.todo = left
      BY <1>7, <1>10
    <2>2. BatchOK'
      <3>1. left \subseteq Active(op)'
        BY <1>1, <1>2
      <3>2. step = "clean" => Active(op)' \subseteq left
        BY <1>2 DEF EngineInv, BatchOK
      <3> QED BY <2>1, <3>1, <3>2, <1>6 DEF BatchOK, BatchSteps
    <2>3. StageOK'
      <3> SUFFICES ASSUME NEW j \in Active(op)'
                   PROVE  /\ step = "target" => Fresh(wal'[op][j])
                          /\ Torn(wal'[op][j]) => step = "target" /\ j \in left
                          /\ step = "link" /\ j \notin left => Linked(wal'[op][j])
                          /\ step \in {"remove", "install"} => Linked(wal'[op][j])
                          /\ step = "mark" /\ j \notin left => wal'[op][j].st = "TARGET_VERIFIED"
                          /\ step \in {"cleanup", "clean"} => wal'[op][j].st = "TARGET_VERIFIED"
        BY <2>1, <1>6 DEF StageOK, Linked, Fresh, Torn, BatchSteps
      <3>1. CASE j = k
        <4>1. step /= "clean"
          BY <1>2, <3>1
        <4> QED BY <3>1, <4>1, <1>1, <1>2 DEF EngineInv, StageOK
      <3>2. CASE j /= k
        BY <3>2, <1>2, <1>3, <1>8 DEF EngineInv, StageOK
      <3> QED BY <3>1, <3>2
    <2> QED BY <2>2, <2>3, <1>2, <1>9 DEF EngineInv
  <1>11. CASE left = {}
    <2>1. job'.step = next /\ job'.todo = todo /\ job.todo = {k}
      BY <1>7, <1>11
    <2>2. BatchOK'
      <3>1. next \in {"write", "verify"} => Active(op)' = {}
        BY <2>1, <1>2, <1>4 DEF EngineInv, BatchOK
      <3>2. next \in BatchSteps => todo = Active(op)'
        BY <1>2, <1>4 DEF BatchSteps
      <3> QED BY <2>1, <3>1, <3>2, <1>4, <1>6 DEF BatchOK, BatchSteps, AssertCleaned
    <2>3. StageOK'
      <3> SUFFICES ASSUME NEW j \in Active(op)'
                   PROVE  /\ ~Torn(wal'[op][j])
                          /\ next = "link" /\ j \notin todo => Linked(wal'[op][j])
                          /\ next \in {"remove", "install"} => Linked(wal'[op][j])
                          /\ next = "mark" /\ j \notin todo => wal'[op][j].st = "TARGET_VERIFIED"
                          /\ next \in {"cleanup", "clean"} => wal'[op][j].st = "TARGET_VERIFIED"
        BY <2>1, <1>4, <1>6 DEF StageOK, Linked, Torn
      <3>1. next \in {"link", "mark"} => j \in todo
        BY <1>8 DEF BatchSteps
      <3>2. CASE j = k
        BY <3>1, <3>2, <1>1, <1>2, <1>4 DEF EngineInv, StageOK
      <3>3. CASE j /= k
        BY <3>1, <3>3, <2>1, <1>2, <1>3, <1>4, <1>8 DEF EngineInv, StageOK
      <3> QED BY <3>2, <3>3
    <2> QED BY <2>2, <2>3, <1>2, <1>9 DEF EngineInv
  <1> QED BY <1>10, <1>11

(* A step of a repair rewrites one unfinished record, or moves one file.   *)
LEMMA RepairStep ==
  ASSUME RestoreInv, EngineInv, Calling, NEW op \in Ops, job.op = op,
         job.step \in {"unwind", "forward"}, NEW k \in Active(op), NEW r \in MutationRecord,
         Rewrite(op, k, r) \/ (UNCHANGED wal /\ r = wal[op][k]),
         r.path = wal[op][k].path, r.src = wal[op][k].src, r.dst = wal[op][k].dst,
         UNCHANGED job
  PROVE  EngineInv'
  <1>1. /\ wal'[op][k] = r /\ LatestActive'
        /\ \A j \in Ordinals(op) : j /= k => wal'[op][j] = wal[op][j]
        /\ Active(op)' = IF r.st = "CLEANED" THEN Active(op) \ {k} ELSE Active(op)
    BY OneRecord DEF RestoreInv, EngineInv
  <1>2. \A j \in Active(op)' : j \in Active(op) /\ j \in Ordinals(op)
    BY <1>1 DEF Active
  <1>3. \A j \in Active(op)' : /\ wal'[op][j].path = wal[op][j].path
                               /\ wal'[op][j].src = wal[op][j].src
                               /\ wal'[op][j].dst = wal[op][j].dst
    BY <1>1, <1>2, SMTT(60)
  <1>4. OwnOK'
    BY <1>2, <1>3, SMTT(60) DEF EngineInv, OwnOK, OwnContent, Scope, Calling
  <1>5. BatchOK' /\ StageOK'
    BY DEF BatchOK, StageOK, BatchSteps
  <1> QED BY <1>1, <1>4, <1>5 DEF EngineInv

(* A call that goes over to its next part, or ends, and writes nothing.    *)
LEMMA TurnStep ==
  ASSUME EngineInv, Calling, NEW op \in Ops, job.op = op, UNCHANGED wal,
         job'.op = op, job'.base = job.base, job'.goal = job.goal,
         job'.step \in {"unwind", "delete", "write", "verify", "done"},
         job'.step \in {"delete", "write", "verify"} => AssertCleaned(op),
         job'.step = "done" /\ job'.result = "ok" => AssertCleaned(op),
         job'.step /= "done" =>
           AssertCleaned(op) \/ (job'.ctx = job.ctx /\ job.step \notin {"idle", "done"})
  PROVE  EngineInv'
  <1>1. Active(op)' = Active(op) /\ LatestActive'
    BY LogUntouched DEF EngineInv
  <1>2. BatchOK' /\ StageOK'
    BY <1>1 DEF BatchOK, StageOK, BatchSteps, AssertCleaned
  <1>3. OwnOK'
    BY <1>1 DEF EngineInv, OwnOK, OwnContent, Scope, AssertCleaned
  <1> QED BY <1>1, <1>2, <1>3 DEF EngineInv

(* Opening a batch announces paths that are at a content the call knows.   *)
LEMMA OpenStep ==
  ASSUME RestoreInv, EngineInv, Calling, NEW kind \in {"delete", "write"},
         NEW otherwise \in {"write", "verify"}, NEW S \in SUBSET Scope,
         OpenBatch(kind, S, otherwise)
  PROVE  EngineInv'
  <1>1. PICK op \in Ops : job.op = op
    BY CallingOp
  <1>2. job \in Job /\ job.step = kind /\ AssertCleaned(op) /\ UNCHANGED wal
    BY <1>1, CallingOp DEF EngineInv, BatchOK, OpenBatch
  <1>3. CASE S = {}
    <2>1. job' = [job EXCEPT !.step = otherwise]
      BY <1>3 DEF OpenBatch
    <2>2. /\ job'.op = op /\ job'.base = job.base /\ job'.goal = job.goal
          /\ job'.step = otherwise /\ job'.ctx = job.ctx
      BY <1>1, <1>2, <2>1 DEF Job
    <2> QED BY <1>1, <1>2, <2>2, TurnStep
  <1>4. CASE S /= {}
    <2> DEFINE intents == [p \in S |-> files[p]]
    <2>1. job' = [job EXCEPT !.step = "intent", !.batch = kind, !.intents = intents]
      BY <1>4 DEF OpenBatch
    <2>2. /\ job'.op = op /\ job'.base = job.base /\ job'.goal = job.goal
          /\ job'.step = "intent" /\ job'.intents = intents
      BY <1>1, <1>2, <2>1 DEF Job
    <2>3. Active(op)' = {} /\ LatestActive'
      BY <1>2, LogUntouched DEF EngineInv, AssertCleaned
    <2>4. \A p \in S : files[p] \in {job.base[p], job.goal[p]}
      BY DEF OpenBatch, Known, From, Into
    <2>5. BatchOK' /\ StageOK'
      BY <2>2, <2>3 DEF BatchOK, StageOK, BatchSteps
    <2>6. OwnOK'
      BY <2>2, <2>3, <2>4 DEF OwnOK, OwnContent
    <2> QED BY <2>3, <2>5, <2>6 DEF EngineInv
  <1> QED BY <1>3, <1>4

(* A record that is appended is the newest one of its log.                 *)
LEMMA AppendFacts ==
  ASSUME RestoreTypeOK, NEW op \in Ops, NEW r \in MutationRecord, r.st /= "CLEANED",
         wal' = [wal EXCEPT ![op] = Append(@, r)]
  PROVE  /\ Ordinals(op)' = Ordinals(op) \cup {Len(wal[op]) + 1}
         /\ Active(op)' = Active(op) \cup {Len(wal[op]) + 1}
         /\ Len(wal[op]) + 1 \notin Ordinals(op)
         /\ wal'[op][Len(wal[op]) + 1] = r
         /\ \A j \in Ordinals(op) : wal'[op][j] = wal[op][j] /\ j <= Len(wal[op]) + 1
         /\ \A o \in Ops : o /= op => wal'[o] = wal[o]
  <1>1. wal \in [Ops -> Seq(MutationRecord)] /\ wal[op] \in Seq(MutationRecord)
    BY DEF RestoreTypeOK
  <1> DEFINE n == Len(wal[op]) + 1
             s == Append(wal[op], r)
  <1>2. /\ Len(s) = n /\ s[n] = r /\ \A j \in 1..Len(wal[op]) : s[j] = wal[op][j]
        /\ n \in Nat /\ 1..n = 1..Len(wal[op]) \cup {n} /\ n \notin 1..Len(wal[op])
        /\ \A j \in 1..Len(wal[op]) : j <= n
    BY <1>1
  <1>3. wal'[op] = s /\ \A o \in Ops : o /= op => wal'[o] = wal[o]
    BY <1>1
  <1> HIDE DEF s, n
  <1>4. Ordinals(op)' = Ordinals(op) \cup {n}
    BY <1>2, <1>3 DEF Ordinals
  <1>5. \A j \in Ordinals(op) : wal'[op][j] = wal[op][j]
    BY <1>2, <1>3 DEF Ordinals
  <1>6. wal'[op][n] = r
    BY <1>2, <1>3
  <1>7. Active(op)' = Active(op) \cup {n}
    BY <1>4, <1>5, <1>6 DEF Active
  <1> QED BY <1>2, <1>3, <1>4, <1>5, <1>6, <1>7 DEF n, Ordinals

(* Announcing a path (beginMany): its record is the newest of the log, and *)
(* the last announcement hands all unfinished records to the next stage.   *)
LEMMA BeginIntentStep ==
  ASSUME RestoreInv, EngineInv, Calling, NEW p \in Paths, BeginIntent(p)
  PROVE  EngineInv'
  <1> USE DEF RestoreInv
  <1>1. PICK op \in Ops : job.op = op
    BY CallingOp
  <1>2. /\ job \in Job /\ job.step = "intent" /\ p \in DOMAIN job.intents
        /\ p \in DOMAIN job.goal
    BY CallingOp DEF BeginIntent, JobOK
  <1> DEFINE n == Len(wal[op]) + 1
             r == [path |-> p, src |-> job.intents[p], dst |-> Into[p], st |-> "INTENT",
                   arts |-> {}, undone |-> FALSE]
             rest == [q \in DOMAIN job.intents \ {p} |-> job.intents[q]]
             next == NextStage[job.batch]["intent"]
             todo == {k \in 1..(Len(wal[op]) + 1) : k \in Ordinals(op) => k \in Active(op)}
  <1>3. r \in MutationRecord
    BY <1>2, ManifestValue DEF MutationRecord, RecordStates, Job, JobOK, Into
  <1>4. wal' = [wal EXCEPT ![op] = Append(@, r)]
    BY <1>1 DEF BeginIntent
  <1>5. job' = IF DOMAIN rest /= {} THEN [job EXCEPT !.intents = rest]
               ELSE [job EXCEPT !.intents = rest, !.step = next, !.todo = todo]
    BY <1>1 DEF BeginIntent
  <1>6. next \in {"target", "link"}
    BY <1>2, StageOrder DEF Job, BatchSteps
  <1>7. /\ r.path = p /\ r.src = job.intents[p] /\ r.dst = Into[p] /\ r.st = "INTENT"
        /\ r.arts = {}
    OBVIOUS
  <1> HIDE DEF r, next
  <1>8. /\ Ordinals(op)' = Ordinals(op) \cup {n} /\ Active(op)' = Active(op) \cup {n}
        /\ wal'[op][n] = r /\ n \notin Ordinals(op)
        /\ \A j \in Ordinals(op) : wal'[op][j] = wal[op][j] /\ j <= n
        /\ \A o \in Ops : o /= op => wal'[o] = wal[o]
    BY <1>3, <1>4, <1>7, AppendFacts
  <1>9. todo = Active(op)'
    <2>1. wal[op] \in Seq(MutationRecord)
      BY DEF RestoreTypeOK
    <2>2. 1..(Len(wal[op]) + 1) = Ordinals(op) \cup {n}
      BY <2>1 DEF Ordinals
    <2>3. Active(op) \subseteq Ordinals(op)
      BY DEF Active
    <2> QED BY <1>8, <2>2, <2>3
  <1>10. \A j \in Active(op) : j \in Ordinals(op)
    BY DEF Active
  <1> HIDE DEF n, todo
  <1>11. /\ job'.op = op /\ job'.base = job.base /\ job'.goal = job.goal /\ job'.ctx = job.ctx
         /\ job'.intents = rest
         /\ \/ job'.step = "intent"
            \/ job'.step = next /\ job'.todo = todo
    BY <1>1, <1>2, <1>5 DEF Job
  <1>12. BatchOK'
    <2>1. CASE job'.step = "intent"
      <3>1. \A j \in Active(op)' : wal'[op][j].path \notin DOMAIN rest
        BY <1>1, <1>2, <1>7, <1>8, <1>10 DEF EngineInv, BatchOK
      <3> QED BY <2>1, <3>1, <1>11 DEF BatchOK, BatchSteps
    <2>2. CASE job'.step = next /\ job'.todo = todo
      BY <2>2, <1>6, <1>9, <1>11 DEF BatchOK
    <2> QED BY <2>1, <2>2, <1>11
  <1>13. StageOK'
    <2>1. \A j \in Active(op)' : Fresh(wal'[op][j]) /\ ~Torn(wal'[op][j])
      <3>1. \A j \in Active(op) : Fresh(wal[op][j]) /\ ~Torn(wal[op][j])
        BY <1>1, <1>2 DEF EngineInv, StageOK, BatchSteps
      <3> QED BY <3>1, <1>7, <1>8, <1>10 DEF Fresh, Torn
    <2> QED BY <2>1, <1>6, <1>9, <1>11 DEF StageOK, Fresh, Torn
  <1>14. OwnOK'
    <2> SUFFICES ASSUME job.ctx \in {"apply", "rollback"}
                 PROVE  /\ \A j \in Active(op)' :
                             /\ wal'[op][j].path \in DOMAIN job.goal
                             /\ OwnContent(wal'[op][j].path, wal'[op][j].src)
                             /\ OwnContent(wal'[op][j].path, wal'[op][j].dst)
                        /\ \A q \in DOMAIN rest : OwnContent(q, rest[q])
      BY <1>11 DEF OwnOK, OwnContent, Scope
    <2>1. OwnContent(p, r.src) /\ \A q \in DOMAIN rest : OwnContent(q, rest[q])
      BY <1>1, <1>2, <1>7 DEF EngineInv, OwnOK
    <2>2. OwnContent(p, r.dst)
      BY <1>7 DEF OwnContent, Into
    <2>3. \A j \in Active(op) : /\ wal[op][j].path \in DOMAIN job.goal
                                /\ OwnContent(wal[op][j].path, wal[op][j].src)
                                /\ OwnContent(wal[op][j].path, wal[op][j].dst)
      BY <1>1, <1>2 DEF EngineInv, OwnOK, Scope
    <2> QED BY <2>1, <2>2, <2>3, <1>2, <1>7, <1>8, <1>10
  <1>15. LatestActive'
    <2> SUFFICES ASSUME NEW o \in Ops, NEW i \in Active(o)', NEW j \in Ordinals(o)',
                        wal'[o][j].path = wal'[o][i].path
                 PROVE  j <= i
      BY DEF LatestActive
    <2>1. CASE o /= op
      BY <2>1, <1>8, ZenonT(60) DEF EngineInv, LatestActive, Active, Ordinals
    <2>2. CASE o = op /\ i = n
      <3>1. n \in Nat
        BY DEF n, RestoreTypeOK
      <3> QED BY <2>2, <3>1, <1>8
    <2>3. CASE o = op /\ i /= n
      <3>1. i \in Active(op) /\ i \in Ordinals(op)
        BY <2>3, <1>8, <1>10
      <3>2. wal'[op][i].path /= p
        BY <3>1, <1>1, <1>2, <1>8 DEF EngineInv, BatchOK
      <3>3. j \in Ordinals(op)
        BY <2>3, <3>2, <1>7, <1>8
      <3> QED BY <2>3, <3>1, <3>3, <1>8 DEF EngineInv, LatestActive
    <2> QED BY <2>1, <2>2, <2>3
  <1> QED BY <1>12, <1>13, <1>14, <1>15 DEF EngineInv

(* Every step of a forward batch keeps what a call knows about its log.    *)
LEMMA BatchStepEngine ==
  ASSUME RestoreInv, EngineInv, Calling, BatchStep
  PROVE  EngineInv'
  <1> USE DEF RestoreInv
  <1>1. PICK op \in Ops : job.op = op
    BY CallingOp
  <1>2. job \in Job
    BY CallingOp
  <1>3. CASE OpenDeletes
    <2>1. DeletePaths \in SUBSET Scope
      BY DEF DeletePaths
    <2> QED BY <1>3, <2>1, OpenStep DEF OpenDeletes
  <1>4. CASE OpenWrites
    <2>1. WritePaths \in SUBSET Scope
      BY DEF WritePaths
    <2> QED BY <1>4, <2>1, OpenStep DEF OpenWrites
  <1>5. CASE Verify
    <2>1. PICK result : Done(result) /\ (result = "ok" => AssertCleaned(op))
      BY <1>1, <1>5 DEF Verify
    <2>2. job' = [job EXCEPT !.step = "done", !.result = result, !.todo = {}]
      BY <2>1 DEF Done
    <2>3. /\ job'.op = op /\ job'.base = job.base /\ job'.goal = job.goal
          /\ job'.step = "done" /\ job'.result = result
      BY <1>1, <1>2, <2>2 DEF Job
    <2> QED BY <1>1, <1>5, <2>1, <2>3, TurnStep DEF Verify
  <1>6. ASSUME NEW p \in Paths, BeginIntent(p) PROVE EngineInv'
    BY <1>6, BeginIntentStep
  <1>7. ASSUME NEW k \in job.todo,
               CreateTarget(k) \/ FillTarget(k) \/ LinkSource(k) \/ RemoveSource(k) \/ InstallTarget(k)
                 \/ MarkVerified(k) \/ RemoveArtifacts(k) \/ MarkCleaned(k)
        PROVE  EngineInv'
    <2>1. PICK step \in BatchSteps \ {"intent"} : job.step = step
      BY <1>7 DEF CreateTarget, FillTarget, LinkSource, RemoveSource, InstallTarget, MarkVerified,
                  RemoveArtifacts, MarkCleaned, BatchSteps
    <2>2. k \in Active(op) /\ k \in Ordinals(op)
      BY <1>1, <2>1 DEF EngineInv, BatchOK, Active
    <2>3. PICK r \in MutationRecord : r = wal[op][k]
      BY <2>2, RecordType
    <2>4. r.st /= "CLEANED"
      BY <2>2, <2>3 DEF Active
    <2>4a. Torn(r) \/ step = "target" => step = "target" /\ Fresh(r)
      BY <1>1, <2>1, <2>2, <2>3 DEF EngineInv, StageOK
    <2>5. CASE CreateTarget(k)
      <3> DEFINE new == [r EXCEPT !.arts = @ \cup {"torn"}]
      <3>1. /\ new \in MutationRecord /\ new.path = r.path /\ new.src = r.src /\ new.dst = r.dst
            /\ new.st = r.st /\ (Fresh(r) => Fresh(new))
        BY DEF MutationRecord, Artifacts, Fresh
      <3>2. Rewrite(op, k, new) /\ UNCHANGED job /\ step = "target"
        BY <1>1, <2>1, <2>3, <2>5 DEF CreateTarget
      <3> HIDE DEF new
      <3>3. /\ \A j \in Ordinals(op) : j /= k => wal'[op][j] = wal[op][j]
            /\ Active(op)' = Active(op) /\ LatestActive'
            /\ wal'[op][k] = new
        BY <2>2, <2>3, <2>4, <3>1, <3>2, OneRecord DEF EngineInv
      <3>4. \A j \in Active(op) : j \in Ordinals(op)
        BY DEF Active
      <3>5. BatchOK'
        BY <1>1, <1>7, <2>1, <3>2, <3>3, <3>4 DEF EngineInv, BatchOK, BatchSteps, Calling
      <3>6. StageOK'
        <4>1. \A j \in Active(op) : /\ Fresh(wal[op][j])
                                    /\ Torn(wal[op][j]) => j \in job.todo
          BY <1>1, <2>1, <3>2 DEF EngineInv, StageOK
        <4>2. \A j \in Active(op) : /\ Fresh(wal'[op][j])
                                    /\ Torn(wal'[op][j]) => j \in job.todo
          BY <1>7, <2>3, <2>4a, <3>1, <3>2, <3>3, <3>4, <4>1
        <4> QED BY <1>1, <2>1, <3>2, <3>3, <4>2 DEF StageOK, Fresh, Torn
      <3>7. \A j \in Active(op)' : /\ wal'[op][j].path = wal[op][j].path
                                   /\ wal'[op][j].src = wal[op][j].src
                                   /\ wal'[op][j].dst = wal[op][j].dst
        BY <2>3, <3>1, <3>3, <3>4, SMTT(60)
      <3>8. OwnOK'
        BY <1>1, <3>2, <3>3, <3>7, SMTT(60) DEF EngineInv, OwnOK, OwnContent, Scope, Calling
      <3> QED BY <3>3, <3>5, <3>6, <3>8 DEF EngineInv
    <2>5a. CASE FillTarget(k)
      <3> DEFINE new == [r EXCEPT !.arts = (@ \ {"torn"}) \cup {"target"}]
      <3>1. /\ new \in MutationRecord /\ new.path = r.path /\ new.src = r.src /\ new.dst = r.dst
            /\ new.st = r.st /\ ~Torn(new) /\ (Fresh(r) => Fresh(new))
        BY DEF MutationRecord, Artifacts, Torn, Fresh
      <3>2. Rewrite(op, k, new) /\ Proceed(job.todo \ {k}) /\ step = "target"
        BY <1>1, <2>1, <2>3, <2>5a DEF FillTarget
      <3> HIDE DEF new
      <3> QED BY <1>1, <2>1, <2>3, <2>4, <2>4a, <3>1, <3>2, StageStep, ZenonT(60)
    <2>6. CASE LinkSource(k)
      <3> DEFINE new == IF r.src = Absent THEN r ELSE [r EXCEPT !.arts = @ \cup {"source"}]
      <3>1. /\ new \in MutationRecord /\ new.path = r.path /\ new.src = r.src /\ new.dst = r.dst
            /\ new.st = r.st /\ Linked(new) /\ (Torn(new) => Torn(r))
        BY DEF MutationRecord, Artifacts, Linked, Torn
      <3>2. /\ Rewrite(op, k, new) \/ (UNCHANGED wal /\ new = r)
            /\ Proceed(job.todo \ {k}) /\ step = "link"
        BY <1>1, <2>1, <2>3, <2>6 DEF LinkSource
      <3> HIDE DEF new
      <3> QED BY <1>1, <2>1, <2>3, <2>4, <2>4a, <3>1, <3>2, StageStep
    <2>7. CASE RemoveSource(k)
      <3>1. UNCHANGED wal /\ Proceed(job.todo \ {k}) /\ step = "remove"
        BY <2>1, <2>7 DEF RemoveSource
      <3> QED BY <1>1, <2>1, <2>3, <2>4, <2>4a, <3>1, StageStep
    <2>8. CASE InstallTarget(k)
      <3>1. UNCHANGED wal /\ Proceed(job.todo \ {k}) /\ step = "install"
        BY <2>1, <2>8 DEF InstallTarget
      <3> QED BY <1>1, <2>1, <2>3, <2>4, <2>4a, <3>1, StageStep
    <2>9. CASE MarkVerified(k)
      <3>1. CASE r.st = "INTENT"
        <4> DEFINE new == [r EXCEPT !.st = "MIDDLE"]
        <4>1. /\ new \in MutationRecord /\ new.path = r.path /\ new.src = r.src
              /\ new.dst = r.dst /\ new.st = "MIDDLE" /\ new.arts = r.arts
          BY DEF MutationRecord, RecordStates
        <4>2. Rewrite(op, k, new) /\ UNCHANGED job /\ job.step = "mark"
          BY <1>1, <2>3, <2>9, <3>1 DEF MarkVerified
        <4> HIDE DEF new
        <4>3. /\ \A j \in Ordinals(op) : j /= k => wal'[op][j] = wal[op][j]
              /\ Active(op)' = Active(op) /\ LatestActive'
              /\ wal'[op][k] = new
          BY <2>2, <2>3, <4>1, <4>2, OneRecord DEF EngineInv
        <4>4. \A j \in Active(op) : j \in Ordinals(op)
          BY DEF Active
        <4>5. BatchOK' /\ StageOK'
          <5>1. BatchOK'
            BY <1>1, <1>7, <4>2, <4>3, <4>4 DEF EngineInv, BatchOK, BatchSteps, Calling
          <5>2. \A j \in Active(op) : ~Torn(wal[op][j])
            BY <1>1, <2>1, <4>2 DEF EngineInv, StageOK
          <5>3. \A j \in Active(op) : ~Torn(wal'[op][j])
            BY <2>3, <4>1, <4>3, <4>4, <5>2 DEF Torn
          <5>4. \A j \in Active(op) \ job.todo : wal'[op][j].st = "TARGET_VERIFIED"
            BY <1>1, <1>7, <4>2, <4>3, <4>4 DEF EngineInv, StageOK, Calling
          <5> QED BY <1>1, <4>2, <4>3, <5>1, <5>3, <5>4 DEF StageOK, Torn
        <4>6. \A j \in Active(op)' : /\ wal'[op][j].path = wal[op][j].path
                                     /\ wal'[op][j].src = wal[op][j].src
                                     /\ wal'[op][j].dst = wal[op][j].dst
          BY <2>3, <4>1, <4>3, <4>4, SMTT(60)
        <4>7. OwnOK'
          BY <1>1, <4>2, <4>3, <4>6, SMTT(60) DEF EngineInv, OwnOK, OwnContent, Scope, Calling
        <4> QED BY <4>3, <4>5, <4>7 DEF EngineInv
      <3>2. CASE r.st /= "INTENT"
        <4> DEFINE new == [r EXCEPT !.st = "TARGET_VERIFIED"]
        <4>1. /\ new \in MutationRecord /\ new.path = r.path /\ new.src = r.src
              /\ new.dst = r.dst /\ new.st = "TARGET_VERIFIED" /\ (Torn(new) => Torn(r))
          BY DEF MutationRecord, RecordStates, Torn
        <4>2. Rewrite(op, k, new) /\ Proceed(job.todo \ {k}) /\ step = "mark"
          BY <1>1, <2>1, <2>3, <2>9, <3>2 DEF MarkVerified
        <4> HIDE DEF new
        <4> QED BY <1>1, <2>1, <2>3, <2>4a, <4>1, <4>2, StageStep
      <3> QED BY <3>1, <3>2
    <2>10. CASE RemoveArtifacts(k)
      <3> DEFINE new == [r EXCEPT !.arts = {}]
      <3>1. /\ new \in MutationRecord /\ new.path = r.path /\ new.src = r.src /\ new.dst = r.dst
            /\ new.st = r.st /\ ~Torn(new)
        BY DEF MutationRecord, Torn
      <3>2. Rewrite(op, k, new) /\ Proceed(job.todo \ {k}) /\ step = "cleanup"
        BY <1>1, <2>1, <2>3, <2>10 DEF RemoveArtifacts
      <3>3. r.st = "TARGET_VERIFIED"
        BY <1>1, <2>1, <2>2, <2>3, <3>2 DEF EngineInv, StageOK
      <3> HIDE DEF new
      <3> QED BY <1>1, <2>1, <2>3, <2>4, <3>1, <3>2, <3>3, StageStep
    <2>11. CASE MarkCleaned(k)
      <3> DEFINE new == [r EXCEPT !.st = "CLEANED"]
      <3>1. /\ new \in MutationRecord /\ new.path = r.path /\ new.src = r.src /\ new.dst = r.dst
            /\ new.st = "CLEANED" /\ (Torn(new) => Torn(r))
        BY DEF MutationRecord, RecordStates, Torn
      <3>2. Rewrite(op, k, new) /\ Proceed(job.todo \ {k}) /\ step = "clean"
        BY <1>1, <2>1, <2>3, <2>11 DEF MarkCleaned
      <3> HIDE DEF new
      <3> QED BY <1>1, <2>1, <2>3, <2>4a, <3>1, <3>2, StageStep
    <2> QED BY <1>7, <2>5, <2>5a, <2>6, <2>7, <2>8, <2>9, <2>10, <2>11, SMTT(60)
  <1> QED BY <1>3, <1>4, <1>5, <1>6, <1>7 DEF BatchStep

(* Every step that rolls records back or forward keeps it: it works on one *)
(* unfinished record, and ends when there is none.                         *)
LEMMA RepairStepEngine ==
  ASSUME RestoreInv, EngineInv, Calling, UnwindStep \/ ForwardStep
  PROVE  EngineInv'
  <1> USE DEF RestoreInv
  <1>1. PICK op \in Ops : job.op = op
    BY CallingOp
  <1>2. job \in Job
    BY CallingOp
  <1>3. CASE Unwound \/ Forwarded
    <2>1. /\ AssertCleaned(op) /\ UNCHANGED wal
          /\ \/ \E result : Done(result)
             \/ job' = [job EXCEPT !.ctx = "rollback", !.step = "delete"]
      BY <1>1, <1>2, <1>3 DEF Unwound, Forwarded, Job
    <2>2. /\ job'.op = op /\ job'.base = job.base /\ job'.goal = job.goal
          /\ job'.step \in {"done", "delete"}
      BY <1>1, <1>2, <2>1 DEF Done, Job
    <2>3. AssertCleaned(op) /\ UNCHANGED wal
      BY <2>1
    <2> QED BY <1>1, <2>2, <2>3, TurnStep
  <1>4. ASSUME NEW k \in Active(op),
               \/ RestoreKeep(k) \/ RestoreUnlink(k) \/ RestoreLink(k) \/ RestoreFinish(k)
               \/ ForwardDetach(k) \/ ForwardInstall(k) \/ ForwardClean(k)
        PROVE  EngineInv'
    <2>1. job.step \in {"unwind", "forward"} /\ UNCHANGED job
      BY <1>4 DEF RestoreKeep, RestoreUnlink, RestoreLink, RestoreFinish, ForwardDetach,
                  ForwardInstall, ForwardClean, Unwinding, Forwarding
    <2>2. PICK r \in MutationRecord : r = wal[op][k]
      BY RecordType DEF Active
    <2>3. PICK new \in MutationRecord :
            /\ Rewrite(op, k, new) \/ (UNCHANGED wal /\ new = r)
            /\ new.path = r.path /\ new.src = r.src /\ new.dst = r.dst
      <3>1. CASE RestoreUnlink(k) \/ RestoreLink(k)
        BY <3>1 DEF RestoreUnlink, RestoreLink
      <3>2. CASE RestoreKeep(k) \/ ForwardClean(k)
        <4> DEFINE new == [r EXCEPT !.st = "CLEANED", !.arts = {}]
        <4>1. new \in MutationRecord /\ new.path = r.path /\ new.src = r.src /\ new.dst = r.dst
          BY DEF MutationRecord, RecordStates
        <4>2. Rewrite(op, k, new)
          BY <1>1, <2>2, <3>2 DEF RestoreKeep, ForwardClean
        <4> HIDE DEF new
        <4> QED BY <4>1, <4>2
      <3>3. CASE RestoreFinish(k)
        <4> DEFINE new == [r EXCEPT !.st = "CLEANED", !.arts = {}, !.undone = TRUE]
        <4>1. new \in MutationRecord /\ new.path = r.path /\ new.src = r.src /\ new.dst = r.dst
          BY DEF MutationRecord, RecordStates
        <4>2. Rewrite(op, k, new)
          BY <1>1, <2>2, <3>3 DEF RestoreFinish
        <4> HIDE DEF new
        <4> QED BY <4>1, <4>2
      <3>4. CASE ForwardDetach(k)
        <4> DEFINE new == [r EXCEPT !.st = "MIDDLE"]
        <4>1. new \in MutationRecord /\ new.path = r.path /\ new.src = r.src /\ new.dst = r.dst
          BY DEF MutationRecord, RecordStates
        <4>2. Rewrite(op, k, new)
          BY <1>1, <2>2, <3>4 DEF ForwardDetach
        <4> HIDE DEF new
        <4> QED BY <4>1, <4>2
      <3>5. CASE ForwardInstall(k)
        <4> DEFINE new == [r EXCEPT !.st = "TARGET_VERIFIED", !.arts = @ \ {"target"}]
        <4>1. new \in MutationRecord /\ new.path = r.path /\ new.src = r.src /\ new.dst = r.dst
          BY DEF MutationRecord, RecordStates
        <4>2. Rewrite(op, k, new)
          BY <1>1, <2>2, <3>5 DEF ForwardInstall
        <4> HIDE DEF new
        <4> QED BY <4>1, <4>2
      <3> QED BY <1>4, <3>1, <3>2, <3>3, <3>4, <3>5
    <2> QED BY <1>1, <2>1, <2>2, <2>3, RepairStep
  <1> QED BY <1>1, <1>3, <1>4 DEF UnwindStep, ForwardStep

(* Every step of a call in progress.                                       *)
LEMMA EngineStepEngine ==
  ASSUME RestoreInv, EngineInv, EngineStep
  PROVE  EngineInv'
  <1>1. PICK op \in Ops : job.op = op
    BY CallingOp DEF EngineStep
  <1>2. job \in Job /\ Calling
    BY CallingOp DEF EngineStep
  <1>3. CASE MutationFails
    <2>1. job' = [job EXCEPT !.step = "unwind", !.todo = {}, !.intents = EmptyManifest]
      BY <1>3 DEF MutationFails
    <2>2. /\ job'.op = op /\ job'.base = job.base /\ job'.goal = job.goal
          /\ job'.step = "unwind" /\ job'.ctx = job.ctx
      BY <1>1, <1>2, <2>1 DEF Job
    <2>3. job.step \notin {"idle", "done"} /\ UNCHANGED wal
      BY <1>3 DEF MutationFails, MutatingSteps, BatchSteps
    <2> QED BY <1>1, <1>2, <2>2, <2>3, TurnStep
  <1>4. CASE RecordConflict
    <2>1. Done("recovery_required") /\ UNCHANGED wal
      BY <1>4 DEF RecordConflict
    <2>2. /\ job'.op = op /\ job'.base = job.base /\ job'.goal = job.goal
          /\ job'.step = "done" /\ job'.result = "recovery_required"
      BY <1>1, <1>2, <2>1 DEF Done, Job
    <2> QED BY <1>1, <1>2, <2>1, <2>2, TurnStep
  <1> QED BY <1>2, <1>3, <1>4, BatchStepEngine, RepairStepEngine DEF EngineStep

(* A call that starts to write starts over a log with nothing unfinished.  *)
LEMMA StartApplyEngine ==
  ASSUME EngineInv, NEW op \in Ops, NEW base \in Manifests, NEW goal \in Manifests,
         StartApply(op, base, goal)
  PROVE  EngineInv'
  <1>1. UNCHANGED wal
    BY DEF StartApply
  <1>2. Active(op)' = Active(op) /\ LatestActive'
    BY <1>1, LogUntouched DEF EngineInv
  <1> DEFINE start == [IdleJob EXCEPT !.op = op, !.base = base, !.goal = goal]
  <1>3. start \in Job /\ start.op = op
    BY IdleJobType DEF Job, IdleJob
  <1>4. \/ job' = [start EXCEPT !.step = "done", !.result = "recovery_required"]
        \/ job' = [start EXCEPT !.step = "done", !.result = "restore_failed_safe"]
        \/ job' = [start EXCEPT !.step = "delete"] /\ AssertCleaned(op)
    BY DEF StartApply
  <1> HIDE DEF start
  <1>5. /\ job'.op = op
        /\ \/ job'.step = "done" /\ job'.result /= "ok"
           \/ job'.step = "delete" /\ AssertCleaned(op)
    BY <1>3, <1>4 DEF Job
  <1>6. BatchOK' /\ StageOK' /\ OwnOK'
    BY <1>2, <1>5 DEF BatchOK, StageOK, OwnOK, BatchSteps, AssertCleaned
  <1> QED BY <1>2, <1>6 DEF EngineInv

(* A recovery of the log claims nothing about what it finds there.         *)
LEMMA StartRecoverEngine ==
  ASSUME EngineInv, NEW op \in Ops, NEW decision, StartRecoverMutations(op, decision)
  PROVE  EngineInv'
  <1>1. PICK step \in {"unwind", "forward"} :
          job' = [IdleJob EXCEPT !.op = op, !.ctx = "recover", !.step = step]
    BY DEF StartRecoverMutations
  <1>2. job'.op = op /\ job'.ctx = "recover" /\ job'.step = step
    BY <1>1, IdleJobType DEF Job
  <1>3. BatchOK' /\ StageOK' /\ OwnOK'
    BY <1>2 DEF BatchOK, StageOK, OwnOK, BatchSteps
  <1> QED BY <1>3, LogUntouched DEF EngineInv, StartRecoverMutations

(* A process without a call.                                               *)
LEMMA IdleEngine ==
  ASSUME EngineInv, job' = IdleJob, UNCHANGED wal
  PROVE  EngineInv'
  BY LogUntouched DEF EngineInv, BatchOK, StageOK, OwnOK, Calling, IdleJob

(* A step that touches neither the log nor the call.                       *)
LEMMA OthersEngine ==
  ASSUME EngineInv, UNCHANGED <<wal, job>>
  PROVE  EngineInv'
  <1>1. LatestActive' /\ Active(job.op)' = Active(job.op)
    BY LogUntouched, SMTT(60) DEF EngineInv, Active, Ordinals
  <1>2. BatchOK' /\ StageOK' /\ OwnOK'
    BY <1>1 DEF EngineInv, BatchOK, StageOK, OwnOK, OwnContent, Scope, Calling, AssertCleaned
  <1> QED BY <1>1, <1>2 DEF EngineInv

(* Empty logs and no call.                                                 *)
LEMMA InitEngine ==
  ASSUME wal = [op \in Ops |-> <<>>], job = IdleJob
  PROVE  EngineInv
  <1>1. ~Calling /\ \A op \in Ops : Active(op) = {}
    BY DEF Calling, IdleJob, Active, Ordinals
  <1> QED BY <1>1 DEF EngineInv, BatchOK, LatestActive, OwnOK, StageOK

(* A call stays the call of its operation, between the contents it was     *)
(* started with, until it returns.                                         *)
LEMMA EngineKeepsCall ==
  ASSUME RestoreTypeOK, EngineStep
  PROVE  job'.op = job.op /\ job'.base = job.base /\ job'.goal = job.goal
  <1>1. job \in Job
    BY DEF RestoreTypeOK
  <1>2. ASSUME NEW left, Proceed(left)
        PROVE  job'.op = job.op /\ job'.base = job.base /\ job'.goal = job.goal
    BY <1>1, <1>2 DEF Proceed, Job
  <1>3. ASSUME NEW result, Done(result)
        PROVE  job'.op = job.op /\ job'.base = job.base /\ job'.goal = job.goal
    BY <1>1, <1>3 DEF Done, Job
  <1>4. CASE BatchStep
    <2>1. ASSUME NEW kind, NEW S, NEW otherwise, OpenBatch(kind, S, otherwise)
          PROVE  job'.op = job.op /\ job'.base = job.base /\ job'.goal = job.goal
      BY <1>1, <2>1 DEF OpenBatch, Job
    <2>2. ASSUME NEW p \in Paths, BeginIntent(p)
          PROVE  job'.op = job.op /\ job'.base = job.base /\ job'.goal = job.goal
      BY <1>1, <2>2, SMTT(60) DEF BeginIntent, Job
    <2>3. ASSUME NEW k \in job.todo,
                 CreateTarget(k) \/ FillTarget(k) \/ LinkSource(k) \/ RemoveSource(k) \/ InstallTarget(k)
                   \/ MarkVerified(k) \/ RemoveArtifacts(k) \/ MarkCleaned(k)
          PROVE  UNCHANGED job \/ \E left : Proceed(left)
      BY <2>3 DEF CreateTarget, FillTarget, LinkSource, RemoveSource, InstallTarget, MarkVerified,
                  RemoveArtifacts, MarkCleaned
    <2>4. Verify => \E result : Done(result)
      BY DEF Verify
    <2> QED BY <1>2, <1>3, <1>4, <2>1, <2>2, <2>3, <2>4 DEF BatchStep, OpenDeletes, OpenWrites
  <1>5. CASE UnwindStep \/ ForwardStep
    <2>1. CASE job' = [job EXCEPT !.ctx = "rollback", !.step = "delete"]
      BY <1>1, <2>1 DEF Job
    <2>2. CASE Unwound \/ Forwarded
      <3>1. (\E result : Done(result)) \/ job' = [job EXCEPT !.ctx = "rollback", !.step = "delete"]
        BY <1>1, <2>2 DEF Unwound, Forwarded, Job
      <3> QED BY <1>3, <2>1, <3>1
    <2>3. ASSUME NEW k \in Active(job.op),
                 \/ RestoreKeep(k) \/ RestoreUnlink(k) \/ RestoreLink(k) \/ RestoreFinish(k)
                 \/ ForwardDetach(k) \/ ForwardInstall(k) \/ ForwardClean(k)
          PROVE  UNCHANGED job
      BY <2>3 DEF RestoreKeep, RestoreUnlink, RestoreLink, RestoreFinish, ForwardDetach,
                  ForwardInstall, ForwardClean
    <2> QED BY <1>5, <2>2, <2>3 DEF UnwindStep, ForwardStep
  <1>6. CASE MutationFails
    BY <1>1, <1>6 DEF MutationFails, Job
  <1>7. CASE RecordConflict
    BY <1>3, <1>7 DEF RecordConflict
  <1> QED BY <1>4, <1>5, <1>6, <1>7 DEF EngineStep

(* A call writes the log of its own operation and no other.                *)
LEMMA EngineWritesOwnLog ==
  ASSUME RestoreTypeOK, EngineStep, NEW o \in Ops, o /= job.op
  PROVE  wal'[o] = wal[o]
  <1>1. wal \in [Ops -> Seq(MutationRecord)]
    BY DEF RestoreTypeOK
  <1>2. \/ UNCHANGED wal
        \/ \E s : wal' = [wal EXCEPT ![job.op] = s]
    <2>1. CASE BatchStep
      <3>1. ASSUME NEW p \in Paths, BeginIntent(p) PROVE \E s : wal' = [wal EXCEPT ![job.op] = s]
        BY <3>1 DEF BeginIntent
      <3>2. ASSUME NEW k \in job.todo,
                   CreateTarget(k) \/ FillTarget(k) \/ LinkSource(k) \/ MarkVerified(k) \/ RemoveArtifacts(k)
                     \/ MarkCleaned(k)
            PROVE  UNCHANGED wal \/ \E s : wal' = [wal EXCEPT ![job.op] = s]
        BY <3>2, Zenon DEF CreateTarget, FillTarget, LinkSource, MarkVerified, RemoveArtifacts, MarkCleaned, Rewrite
      <3>3. ASSUME NEW k \in job.todo, RemoveSource(k) \/ InstallTarget(k)
            PROVE  UNCHANGED wal
        BY <3>3 DEF RemoveSource, InstallTarget
      <3>4. CASE OpenDeletes \/ OpenWrites \/ Verify
        BY <3>4 DEF OpenDeletes, OpenWrites, OpenBatch, Verify
      <3> QED BY <2>1, <3>1, <3>2, <3>3, <3>4 DEF BatchStep
    <2>2. CASE UnwindStep \/ ForwardStep
      <3>1. ASSUME NEW k \in Active(job.op),
                   \/ RestoreKeep(k) \/ RestoreFinish(k)
                   \/ ForwardDetach(k) \/ ForwardInstall(k) \/ ForwardClean(k)
            PROVE  \E s : wal' = [wal EXCEPT ![job.op] = s]
        BY <3>1, Zenon DEF RestoreKeep, RestoreFinish, ForwardDetach, ForwardInstall,
                           ForwardClean, Rewrite
      <3>2. ASSUME NEW k \in Active(job.op), RestoreUnlink(k) \/ RestoreLink(k)
            PROVE  UNCHANGED wal
        BY <3>2 DEF RestoreUnlink, RestoreLink
      <3>3. CASE Unwound \/ Forwarded
        BY <3>3 DEF Unwound, Forwarded
      <3> QED BY <2>2, <3>1, <3>2, <3>3 DEF UnwindStep, ForwardStep
    <2>3. CASE MutationFails \/ RecordConflict
      BY <2>3 DEF MutationFails, RecordConflict
    <2> QED BY <2>1, <2>2, <2>3 DEF EngineStep
  <1> QED BY <1>1, <1>2

(* A step of a call that changes a file works on an unfinished record of   *)
(* it, and takes away and leaves only contents that record accounts for.   *)
LEMMA EngineChangesRecorded ==
  ASSUME RestoreInv, EngineInv, EngineStep, NEW p \in Paths, files'[p] /= files[p]
  PROVE  \E k \in Active(job.op) :
           /\ wal[job.op][k].path = p
           /\ files[p] \in {wal[job.op][k].src, wal[job.op][k].dst, Absent}
           /\ files'[p] \in {wal[job.op][k].src, wal[job.op][k].dst, Absent}
  <1> USE DEF RestoreInv
  <1>1. PICK op \in Ops : job.op = op
    BY CallingOp DEF EngineStep
  <1>2. files \in [Paths -> Leaf] /\ job \in Job /\ Calling
    BY CallingOp DEF RestoreTypeOK, EngineStep
  <1>3. ASSUME NEW k \in Active(op), NEW c, SetFile(wal[op][k].path, c),
               files[wal[op][k].path] \in {wal[op][k].src, wal[op][k].dst, Absent},
               c \in {wal[op][k].src, wal[op][k].dst, Absent}
        PROVE  \E i \in Active(op) :
                 /\ wal[op][i].path = p
                 /\ files[p] \in {wal[op][i].src, wal[op][i].dst, Absent}
                 /\ files'[p] \in {wal[op][i].src, wal[op][i].dst, Absent}
    <2>1. wal[op][k].path = p /\ files'[p] = c
      BY <1>2, <1>3 DEF SetFile
    <2> QED BY <1>3, <2>1
  <1>4. CASE BatchStep
    <2>1. CASE \E x \in Paths : BeginIntent(x)
      BY <2>1 DEF BeginIntent
    <2>2. CASE OpenDeletes \/ OpenWrites \/ Verify
      BY <2>2, SMTT(60) DEF OpenDeletes, OpenWrites, OpenBatch, Verify
    <2>3. ASSUME NEW k \in job.todo,
                 CreateTarget(k) \/ FillTarget(k) \/ LinkSource(k) \/ MarkVerified(k) \/ RemoveArtifacts(k)
                   \/ MarkCleaned(k)
          PROVE  FALSE
      BY <2>3 DEF CreateTarget, FillTarget, LinkSource, MarkVerified, RemoveArtifacts, MarkCleaned
    <2>4. ASSUME NEW k \in job.todo, RemoveSource(k) \/ InstallTarget(k)
          PROVE  \E i \in Active(op) :
                   /\ wal[op][i].path = p
                   /\ files[p] \in {wal[op][i].src, wal[op][i].dst, Absent}
                   /\ files'[p] \in {wal[op][i].src, wal[op][i].dst, Absent}
      <3>1. k \in Active(op)
        BY <1>1, <1>2, <2>4 DEF RemoveSource, InstallTarget, EngineInv, BatchOK, BatchSteps
      <3>2. CASE RemoveSource(k)
        <4>1. SetFile(wal[op][k].path, Absent) /\ files[wal[op][k].path] = wal[op][k].src
          BY <1>1, <3>2 DEF RemoveSource
        <4> QED BY <1>3, <3>1, <4>1
      <3>3. CASE InstallTarget(k)
        <4>1. SetFile(wal[op][k].path, wal[op][k].dst) /\ files[wal[op][k].path] = Absent
          BY <1>1, <3>3 DEF InstallTarget
        <4> QED BY <1>3, <3>1, <4>1
      <3> QED BY <2>4, <3>2, <3>3
    <2> QED BY <1>1, <1>4, <2>1, <2>2, <2>3, <2>4 DEF BatchStep
  <1>5. CASE UnwindStep
    <2>1. CASE Unwound
      BY <2>1 DEF Unwound
    <2>2. ASSUME NEW k \in Active(op), RestoreKeep(k) \/ RestoreFinish(k)
          PROVE  FALSE
      BY <2>2 DEF RestoreKeep, RestoreFinish
    <2>3. ASSUME NEW k \in Active(op), RestoreUnlink(k)
          PROVE  SetFile(wal[op][k].path, Absent) /\ files[wal[op][k].path] = wal[op][k].dst
      BY <1>1, <2>3 DEF RestoreUnlink, Unlinks
    <2>4. ASSUME NEW k \in Active(op), RestoreLink(k)
          PROVE  SetFile(wal[op][k].path, wal[op][k].src) /\ files[wal[op][k].path] = Absent
      BY <1>1, <2>4 DEF RestoreLink, Relinks
    <2> QED BY <1>1, <1>3, <1>5, <2>1, <2>2, <2>3, <2>4 DEF UnwindStep
  <1>6. CASE ForwardStep
    <2>1. CASE Forwarded
      BY <2>1 DEF Forwarded
    <2>2. ASSUME NEW k \in Active(op), ForwardClean(k)
          PROVE  FALSE
      BY <2>2 DEF ForwardClean
    <2>3. ASSUME NEW k \in Active(op), ForwardDetach(k)
          PROVE  /\ SetFile(wal[op][k].path, Absent)
                 /\ files[wal[op][k].path] \in {wal[op][k].src, Absent}
      BY <1>1, <2>3 DEF ForwardDetach, Detachable
    <2>4. ASSUME NEW k \in Active(op), ForwardInstall(k)
          PROVE  /\ SetFile(wal[op][k].path, wal[op][k].dst)
                 /\ files[wal[op][k].path] \in {wal[op][k].dst, Absent}
      BY <1>1, <2>4 DEF ForwardInstall, Installable
    <2> QED BY <1>1, <1>3, <1>6, <2>1, <2>2, <2>3, <2>4 DEF ForwardStep
  <1>7. CASE MutationFails \/ RecordConflict
    BY <1>7 DEF MutationFails, RecordConflict
  <1> QED BY <1>4, <1>5, <1>6, <1>7 DEF EngineStep

-----------------------------------------------------------------------------
(***************************************************************************)
(* What an unfinished record can account for, path by path. Nothing here   *)
(* speaks of the other writers of the workspace: the engine's own steps    *)
(* never leave a path where its record cannot put it back, and a target    *)
(* artifact is torn only while the path is still at its old content.       *)
(***************************************************************************)

TornEarly(r, c) ==
  Torn(r) => r.st \in {"INTENT", "MIDDLE"} /\ "source" \notin r.arts /\ c = r.src

FitsAs(r, c) ==
  /\ c \in {r.src, r.dst, Absent}
  /\ c = r.src \/ Linked(r) \/ (r.st = "TARGET_VERIFIED" /\ c = r.dst)
  /\ TornEarly(r, c)

(* A path and its unfinished record fit, and a path that is announced, or  *)
(* about to be, is still at the content it is announced with until the     *)
(* targets are written.                                                    *)
FitAt(op, p) ==
  /\ \A k \in Active(op) : wal[op][k].path = p => FitsAs(wal[op][k], files[p])
  /\ job.op = op /\ job.step \in {"intent", "target"} =>
       \A k \in Active(op) : wal[op][k].path = p => files[p] = wal[op][k].src
  /\ job.op = op /\ job.step = "intent" /\ p \in DOMAIN job.intents
       => files[p] = job.intents[p]

(* A record that fits can be rolled back, unless its target is torn.       *)
LEMMA FitRestorable ==
  ASSUME NEW r, FitsAs(r, files[r.path]), Unrestorable(r)
  PROVE  Torn(r) /\ r.st \in {"INTENT", "MIDDLE"} /\ files[r.path] = r.src
  BY DEF FitsAs, TornEarly, Linked, Unrestorable, KeepsTarget, Unlinks, Relinks, Restored

(* Going on with a stage never goes back to announcing, or to the targets. *)
LEMMA ProceedStep ==
  ASSUME RestoreInv, Calling, NEW step \in BatchSteps \ {"intent"}, job.step = step,
         NEW left, Proceed(left)
  PROVE  job'.step /= "intent" /\ (job'.step = "target" => step = "target")
  <1>1. job \in Job
    BY DEF RestoreInv, RestoreTypeOK
  <1> DEFINE next == NextStage[job.batch][step]
             todo == IF next \in BatchSteps THEN Active(job.op) ELSE {}
  <1>2. next /= "intent" /\ next /= "target"
    BY <1>1, StageOrder DEF Job, RestoreInv, JobOK
  <1>3. \/ job' = [job EXCEPT !.todo = left]
        \/ job' = [job EXCEPT !.step = next, !.todo = todo]
    BY DEF Proceed
  <1> HIDE DEF next, todo
  <1> QED BY <1>1, <1>2, <1>3 DEF Job

(* A step on one record and its path, and on nothing else.                 *)
LEMMA FitRecord ==
  ASSUME RestoreInv, EngineInv, NEW op \in Ops, NEW k \in Active(op),
         NEW r \in MutationRecord, Rewrite(op, k, r) \/ (UNCHANGED wal /\ r = wal[op][k]),
         r.path = wal[op][k].path, NEW p \in Paths, FitAt(op, p),
         r.path /= p => files'[p] = files[p],
         r.path = p /\ r.st /= "CLEANED" => FitsAs(r, files'[p]),
         job'.step /= "intent",
         job'.step = "target" =>
           job.op = op /\ job.step = "target" /\ UNCHANGED files /\ r.src = wal[op][k].src
  PROVE  FitAt(op, p)'
  <1>1. /\ wal'[op][k] = r
        /\ \A j \in Ordinals(op) : j /= k => wal'[op][j] = wal[op][j]
        /\ Active(op)' = IF r.st = "CLEANED" THEN Active(op) \ {k} ELSE Active(op)
    BY OneRecord DEF RestoreInv, EngineInv
  <1>2. \A j \in Active(op) : j \in Ordinals(op) /\ j \in Nat
    BY DEF Active, Ordinals
  <1> SUFFICES ASSUME NEW j \in Active(op)', wal'[op][j].path = p
               PROVE  /\ FitsAs(wal'[op][j], files'[p])
                      /\ job'.step = "target" => files'[p] = wal'[op][j].src
    BY DEF FitAt, FitsAs, TornEarly, Torn, Linked
  <1>3. CASE j = k
    BY <1>1, <1>3 DEF FitAt
  <1>4. CASE j /= k
    <2>1. j \in Active(op) /\ wal'[op][j] = wal[op][j]
      BY <1>1, <1>2, <1>4
    <2>2. r.path /= p
      <3> SUFFICES ASSUME r.path = p PROVE FALSE
        OBVIOUS
      <3>1. wal[op][j].path = wal[op][k].path
        BY <2>1
      <3>2. j <= k /\ k <= j
        BY <2>1, <3>1, <1>2 DEF EngineInv, LatestActive
      <3> QED BY <3>2, <2>1, <1>2, <1>4
    <2> QED BY <2>1, <2>2 DEF FitAt
  <1> QED BY <1>3, <1>4

(* The steps of a batch.                                                   *)
LEMMA FitBatch ==
  ASSUME RestoreInv, EngineInv, Calling, BatchStep, NEW op \in Ops, job.op = op,
         NEW p \in Paths, FitAt(op, p)
  PROVE  FitAt(op, p)'
  <1> USE DEF RestoreInv
  <1>1. files \in [Paths -> Leaf] /\ job \in Job
    BY CallingOp DEF RestoreTypeOK
  <1>2. ASSUME NEW kind \in {"delete", "write"}, NEW S, NEW otherwise \in {"write", "verify"},
               OpenBatch(kind, S, otherwise)
        PROVE  FitAt(op, p)'
    <2> DEFINE intents == [x \in S |-> files[x]]
    <2>1. \/ job' = [job EXCEPT !.step = otherwise]
          \/ job' = [job EXCEPT !.step = "intent", !.batch = kind, !.intents = intents]
      BY <1>2 DEF OpenBatch
    <2>2. job'.step = "intent" => job'.intents = intents
      BY <1>1, <2>1 DEF Job
    <2>3. UNCHANGED <<files, wal>> /\ job.step \in {"delete", "write"}
      BY <1>2 DEF OpenBatch
    <2>4. Active(op) = {} /\ job'.step /= "target"
      BY <1>1, <2>1, <2>3 DEF EngineInv, BatchOK, AssertCleaned, Job
    <2> QED BY <2>2, <2>3, <2>4, LogUntouched DEF FitAt, FitsAs, TornEarly, Torn, Linked
  <1>3. CASE OpenDeletes \/ OpenWrites
    BY <1>2, <1>3 DEF OpenDeletes, OpenWrites
  <1>4. CASE Verify
    <2>1. job'.step = "done"
      BY <1>1, <1>4 DEF Verify, Done, Job
    <2> QED BY <1>4, <2>1, LogUntouched DEF Verify, FitAt, FitsAs, TornEarly, Torn, Linked
  <1>5. ASSUME NEW x \in Paths, BeginIntent(x) PROVE FitAt(op, p)'
    <2> DEFINE n == Len(wal[op]) + 1
               r == [path |-> x, src |-> job.intents[x], dst |-> Into[x], st |-> "INTENT",
                     arts |-> {}, undone |-> FALSE]
               rest == [q \in DOMAIN job.intents \ {x} |-> job.intents[q]]
    <2>1. /\ job.step = "intent" /\ x \in DOMAIN job.intents /\ UNCHANGED files
          /\ wal' = [wal EXCEPT ![op] = Append(@, r)]
      BY <1>5 DEF BeginIntent
    <2>2. r \in MutationRecord
      BY <1>1, <2>1, ManifestValue DEF MutationRecord, RecordStates, Job, JobOK, Into
    <2>3. r.path = x /\ r.src = job.intents[x] /\ r.st = "INTENT" /\ r.arts = {}
      OBVIOUS
    <2>4. job'.intents = rest
      BY <1>1, <1>5 DEF BeginIntent, Job
    <2> HIDE DEF r
    <2>5. /\ Active(op)' = Active(op) \cup {n} /\ wal'[op][n] = r
          /\ \A j \in Ordinals(op) : wal'[op][j] = wal[op][j]
      BY <2>1, <2>2, <2>3, AppendFacts, ZenonT(60)
    <2>6. x = p => FitsAs(r, files[p])
      BY <2>1, <2>3 DEF FitAt, FitsAs, TornEarly, Torn
    <2>7. ASSUME NEW j \in Active(op)', wal'[op][j].path = p
          PROVE  FitsAs(wal'[op][j], files'[p]) /\ files'[p] = wal'[op][j].src
      <3>1. CASE j = n
        BY <2>1, <2>3, <2>5, <2>6, <2>7, <3>1 DEF FitAt
      <3>2. CASE j /= n
        <4>1. j \in Active(op) /\ wal'[op][j] = wal[op][j]
          BY <2>5, <3>2, Zenon DEF Active
        <4> QED BY <2>1, <2>7, <4>1 DEF FitAt
      <3> QED BY <3>1, <3>2
    <2>8. p \in DOMAIN rest => files'[p] = rest[p]
      BY <2>1 DEF FitAt
    <2> QED BY <2>4, <2>7, <2>8 DEF FitAt, FitsAs, TornEarly, Torn, Linked
  <1>6. ASSUME NEW k \in job.todo,
               CreateTarget(k) \/ FillTarget(k) \/ LinkSource(k) \/ RemoveSource(k) \/ InstallTarget(k)
                 \/ MarkVerified(k) \/ RemoveArtifacts(k) \/ MarkCleaned(k)
        PROVE  FitAt(op, p)'
    <2>1. PICK step \in BatchSteps \ {"intent"} : job.step = step
      BY <1>6 DEF CreateTarget, FillTarget, LinkSource, RemoveSource, InstallTarget, MarkVerified,
                  RemoveArtifacts, MarkCleaned, BatchSteps
    <2>2. k \in Active(op)
      BY <2>1 DEF EngineInv, BatchOK
    <2>3. PICK r \in MutationRecord : r = wal[op][k]
      BY <2>2, RecordType DEF Active
    <2>4. r.st /= "CLEANED" /\ (r.path = p => FitsAs(r, files[p]))
      BY <2>2, <2>3 DEF Active, FitAt
    <2>4a. step /= "target" => ~Torn(r)
      BY <2>1, <2>2, <2>3 DEF EngineInv, StageOK
    <2>5. job'.step /= "intent" /\ (job'.step = "target" => step = "target")
      <3>1. CASE \E left : Proceed(left)
        BY <2>1, <3>1, ProceedStep
      <3>2. CASE UNCHANGED job
        BY <2>1, <3>2
      <3> QED BY <1>6, <3>1, <3>2
            DEF CreateTarget, FillTarget, LinkSource, RemoveSource, InstallTarget, MarkVerified,
                RemoveArtifacts, MarkCleaned
    <2>6. ASSUME NEW new \in MutationRecord, Rewrite(op, k, new), UNCHANGED files,
                 new.path = r.path, new.src = r.src,
                 new.path = p /\ new.st /= "CLEANED" => FitsAs(new, files[p])
          PROVE  FitAt(op, p)'
      BY <2>1, <2>2, <2>3, <2>5, <2>6, FitRecord
    <2>7. ASSUME NEW c, SetFile(r.path, c), UNCHANGED wal, FitsAs(r, c), step /= "target"
          PROVE  FitAt(op, p)'
      <3>1. /\ r.path /= p => files'[p] = files[p]
            /\ r.path = p => FitsAs(r, files'[p])
        BY <1>1, <2>7 DEF SetFile
      <3> QED BY <2>2, <2>3, <2>5, <2>7, <3>1, FitRecord
    <2>8. CASE CreateTarget(k)
      <3> DEFINE new == [r EXCEPT !.arts = @ \cup {"torn"}]
      <3>1. Fresh(r) /\ (r.path = p => files[p] = r.src)
        BY <2>1, <2>2, <2>3, <2>8 DEF CreateTarget, EngineInv, StageOK, FitAt
      <3>2. /\ new \in MutationRecord /\ new.path = r.path /\ new.src = r.src
            /\ new.path = p /\ new.st /= "CLEANED" => FitsAs(new, files[p])
        BY <2>4, <3>1 DEF MutationRecord, Artifacts, FitsAs, TornEarly, Fresh, Linked
      <3>3. Rewrite(op, k, new) /\ UNCHANGED files
        BY <2>3, <2>8 DEF CreateTarget
      <3> HIDE DEF new
      <3> QED BY <2>6, <3>2, <3>3
    <2>8a. CASE FillTarget(k)
      <3> DEFINE new == [r EXCEPT !.arts = (@ \ {"torn"}) \cup {"target"}]
      <3>1. /\ new \in MutationRecord /\ new.path = r.path /\ new.src = r.src
            /\ new.path = p /\ new.st /= "CLEANED" => FitsAs(new, files[p])
        BY <2>4 DEF MutationRecord, Artifacts, FitsAs, TornEarly, Torn, Linked
      <3>2. Rewrite(op, k, new) /\ UNCHANGED files
        BY <2>3, <2>8a DEF FillTarget
      <3> HIDE DEF new
      <3> QED BY <2>6, <3>1, <3>2
    <2>9. CASE LinkSource(k)
      <3>1. CASE r.src = Absent
        <4>1. UNCHANGED <<wal, files>>
          BY <2>3, <2>9, <3>1 DEF LinkSource
        <4> QED BY <2>1, <2>2, <2>3, <2>4, <2>5, <4>1, FitRecord
      <3>2. CASE r.src /= Absent
        <4> DEFINE new == [r EXCEPT !.arts = @ \cup {"source"}]
        <4>0. ~Torn(r)
          BY <2>1, <2>4a, <2>9 DEF LinkSource
        <4>1. /\ new \in MutationRecord /\ new.path = r.path /\ new.src = r.src
              /\ new.path = p /\ new.st /= "CLEANED" => FitsAs(new, files[p])
          BY <2>4, <4>0 DEF MutationRecord, Artifacts, FitsAs, TornEarly, Torn, Linked
        <4>2. Rewrite(op, k, new) /\ UNCHANGED files
          BY <2>3, <2>9, <3>2 DEF LinkSource
        <4> HIDE DEF new
        <4> QED BY <2>6, <4>1, <4>2
      <3> QED BY <3>1, <3>2
    <2>10. CASE RemoveSource(k)
      <3>1. Linked(r) /\ UNCHANGED wal /\ step = "remove"
        BY <2>1, <2>2, <2>3, <2>10 DEF EngineInv, StageOK, RemoveSource
      <3>2. CASE SetFile(r.path, Absent)
        BY <2>4a, <2>7, <3>1, <3>2 DEF FitsAs, TornEarly
      <3>3. CASE UNCHANGED files
        BY <2>2, <2>3, <2>4, <2>5, <3>1, <3>3, FitRecord
      <3> QED BY <2>3, <2>10, <3>2, <3>3 DEF RemoveSource
    <2>11. CASE InstallTarget(k)
      <3>1. Linked(r) /\ UNCHANGED wal /\ SetFile(r.path, r.dst) /\ step = "install"
        BY <2>1, <2>2, <2>3, <2>11 DEF EngineInv, StageOK, InstallTarget
      <3> QED BY <2>4a, <2>7, <3>1 DEF FitsAs, TornEarly
    <2>12. CASE MarkVerified(k)
      <3>1. CASE r.st = "INTENT"
        <4> DEFINE new == [r EXCEPT !.st = "MIDDLE"]
        <4>1. /\ new \in MutationRecord /\ new.path = r.path /\ new.src = r.src
              /\ new.path = p /\ new.st /= "CLEANED" => FitsAs(new, files[p])
          BY <2>4, <3>1 DEF MutationRecord, RecordStates, FitsAs, TornEarly, Torn, Linked
        <4>2. Rewrite(op, k, new) /\ UNCHANGED files
          BY <2>3, <2>12, <3>1 DEF MarkVerified
        <4> HIDE DEF new
        <4> QED BY <2>6, <4>1, <4>2
      <3>2. CASE r.st /= "INTENT"
        <4> DEFINE new == [r EXCEPT !.st = "TARGET_VERIFIED"]
        <4>0. ~Torn(r)
          BY <2>1, <2>4a, <2>12 DEF MarkVerified
        <4>1. /\ new \in MutationRecord /\ new.path = r.path /\ new.src = r.src
              /\ new.path = p /\ new.st /= "CLEANED" => FitsAs(new, files[p])
          BY <2>4, <4>0 DEF MutationRecord, RecordStates, FitsAs, TornEarly, Torn, Linked
        <4>2. Rewrite(op, k, new) /\ UNCHANGED files
          BY <2>3, <2>12, <3>2 DEF MarkVerified
        <4> HIDE DEF new
        <4> QED BY <2>6, <4>1, <4>2
      <3> QED BY <3>1, <3>2
    <2>13. CASE RemoveArtifacts(k)
      <3> DEFINE new == [r EXCEPT !.arts = {}]
      <3>1. r.st = "TARGET_VERIFIED" /\ files[r.path] = r.dst
        BY <2>1, <2>2, <2>3, <2>13 DEF EngineInv, StageOK, RemoveArtifacts
      <3>2. /\ new \in MutationRecord /\ new.path = r.path /\ new.src = r.src
            /\ new.path = p /\ new.st /= "CLEANED" => FitsAs(new, files[p])
        BY <3>1 DEF MutationRecord, FitsAs, TornEarly, Torn
      <3>3. Rewrite(op, k, new) /\ UNCHANGED files
        BY <2>3, <2>13 DEF RemoveArtifacts
      <3> HIDE DEF new
      <3> QED BY <2>6, <3>2, <3>3
    <2>14. CASE MarkCleaned(k)
      <3> DEFINE new == [r EXCEPT !.st = "CLEANED"]
      <3>1. new \in MutationRecord /\ new.path = r.path /\ new.src = r.src /\ new.st = "CLEANED"
        BY DEF MutationRecord, RecordStates
      <3>2. Rewrite(op, k, new) /\ UNCHANGED files
        BY <2>3, <2>14 DEF MarkCleaned
      <3> HIDE DEF new
      <3> QED BY <2>6, <3>1, <3>2
    <2> QED BY <1>6, <2>8, <2>8a, <2>9, <2>10, <2>11, <2>12, <2>13, <2>14
  <1> QED BY <1>3, <1>4, <1>5, <1>6 DEF BatchStep

(* Rolling back and rolling forward.                                       *)
LEMMA FitRepair ==
  ASSUME RestoreInv, EngineInv, Calling, UnwindStep \/ ForwardStep, NEW op \in Ops, job.op = op,
         NEW p \in Paths, FitAt(op, p)
  PROVE  FitAt(op, p)'
  <1> USE DEF RestoreInv
  <1>1. files \in [Paths -> Leaf] /\ job \in Job
    BY CallingOp DEF RestoreTypeOK
  <1>2. CASE Unwound \/ Forwarded
    <2>1. UNCHANGED <<files, wal>>
      BY <1>2 DEF Unwound, Forwarded
    <2>2. job'.step \in {"done", "delete"}
      <3>1. CASE \E result : Done(result)
        BY <1>1, <3>1 DEF Done, Job
      <3>2. CASE job' = [job EXCEPT !.ctx = "rollback", !.step = "delete"]
        BY <1>1, <3>2 DEF Job
      <3> QED BY <1>1, <1>2, <3>1, <3>2 DEF Unwound, Forwarded, Job
    <2> QED BY <2>1, <2>2, LogUntouched DEF FitAt, FitsAs, TornEarly, Torn, Linked
  <1>3. ASSUME NEW k \in Active(op),
               \/ RestoreKeep(k) \/ RestoreUnlink(k) \/ RestoreLink(k) \/ RestoreFinish(k)
               \/ ForwardDetach(k) \/ ForwardInstall(k) \/ ForwardClean(k)
        PROVE  FitAt(op, p)'
    <2>1. job'.step \notin {"intent", "target"}
      BY <1>3 DEF RestoreKeep, RestoreUnlink, RestoreLink, RestoreFinish, ForwardDetach,
                  ForwardInstall, ForwardClean, Unwinding, Forwarding
    <2>2. PICK r \in MutationRecord : r = wal[op][k]
      BY RecordType DEF Active
    <2>3. r.path = p => FitsAs(r, files[p])
      BY <2>2 DEF FitAt
    <2>4. ASSUME NEW new \in MutationRecord, Rewrite(op, k, new), new.path = r.path,
                 new.st = "CLEANED", UNCHANGED files
          PROVE  FitAt(op, p)'
      BY <2>1, <2>2, <2>4, FitRecord
    <2>5. ASSUME NEW new \in MutationRecord, Rewrite(op, k, new), new.path = r.path,
                 NEW c, SetFile(r.path, c), r.path = p => FitsAs(new, c)
          PROVE  FitAt(op, p)'
      <3>1. /\ r.path /= p => files'[p] = files[p]
            /\ r.path = p => FitsAs(new, files'[p])
        BY <1>1, <2>5 DEF SetFile
      <3> QED BY <2>1, <2>2, <2>5, <3>1, FitRecord
    <2>6. ASSUME NEW c, SetFile(r.path, c), UNCHANGED wal, r.path = p => FitsAs(r, c)
          PROVE  FitAt(op, p)'
      <3>1. /\ r.path /= p => files'[p] = files[p]
            /\ r.path = p => FitsAs(r, files'[p])
        BY <1>1, <2>6 DEF SetFile
      <3> QED BY <2>1, <2>2, <2>6, <3>1, FitRecord
    <2>7. CASE RestoreKeep(k) \/ ForwardClean(k)
      <3> DEFINE new == [r EXCEPT !.st = "CLEANED", !.arts = {}]
      <3>1. new \in MutationRecord /\ new.path = r.path /\ new.st = "CLEANED"
        BY DEF MutationRecord, RecordStates
      <3>2. Rewrite(op, k, new) /\ UNCHANGED files
        BY <2>2, <2>7 DEF RestoreKeep, ForwardClean
      <3> HIDE DEF new
      <3> QED BY <2>4, <3>1, <3>2
    <2>8. CASE RestoreFinish(k)
      <3> DEFINE new == [r EXCEPT !.st = "CLEANED", !.arts = {}, !.undone = TRUE]
      <3>1. new \in MutationRecord /\ new.path = r.path /\ new.st = "CLEANED"
        BY DEF MutationRecord, RecordStates
      <3>2. Rewrite(op, k, new) /\ UNCHANGED files
        BY <2>2, <2>8 DEF RestoreFinish
      <3> HIDE DEF new
      <3> QED BY <2>4, <3>1, <3>2
    <2>9. CASE RestoreUnlink(k)
      <3>1. SetFile(r.path, Absent) /\ UNCHANGED wal /\ Linked(r)
        BY <2>2, <2>9 DEF RestoreUnlink, Unlinks, Linked
      <3>2. ~Torn(r)
        BY <2>2, <2>9 DEF RestoreUnlink, Unlinks
      <3> QED BY <2>6, <3>1, <3>2 DEF FitsAs, TornEarly
    <2>10. CASE RestoreLink(k)
      <3>1. SetFile(r.path, r.src) /\ UNCHANGED wal /\ "source" \in r.arts
        BY <2>2, <2>10 DEF RestoreLink, Relinks
      <3>2. r.path = p => TornEarly(r, r.src)
        BY <2>3 DEF FitsAs, TornEarly
      <3>3. r.path = p => FitsAs(r, r.src)
        BY <3>2 DEF FitsAs
      <3> QED BY <2>6, <3>1, <3>3
    <2>11. CASE ForwardDetach(k)
      <3> DEFINE new == [r EXCEPT !.st = "MIDDLE"]
      <3>1. new \in MutationRecord /\ new.path = r.path
        BY DEF MutationRecord, RecordStates
      <3>2. Linked(r)
        BY <2>2, <2>11 DEF ForwardDetach, Detachable, Linked
      <3>3. r.path = p => FitsAs(new, Absent)
        <4>1. r.path = p /\ Torn(r) => r.src = Absent /\ "source" \notin r.arts
          BY <2>3, <3>2 DEF FitsAs, TornEarly, Linked
        <4> QED BY <3>2, <4>1 DEF FitsAs, TornEarly, Torn, Linked, MutationRecord
      <3>4. Rewrite(op, k, new) /\ SetFile(r.path, Absent)
        BY <2>2, <2>11 DEF ForwardDetach
      <3> HIDE DEF new
      <3> QED BY <2>5, <3>1, <3>3, <3>4
    <2>12. CASE ForwardInstall(k)
      <3> DEFINE new == [r EXCEPT !.st = "TARGET_VERIFIED", !.arts = @ \ {"target"}]
      <3>0. ~Torn(r)
        BY <2>2, <2>12 DEF ForwardInstall, Installable
      <3>1. new \in MutationRecord /\ new.path = r.path /\ FitsAs(new, r.dst)
        BY <3>0 DEF MutationRecord, RecordStates, FitsAs, TornEarly, Torn
      <3>2. Rewrite(op, k, new) /\ SetFile(r.path, r.dst)
        BY <2>2, <2>12 DEF ForwardInstall
      <3> HIDE DEF new
      <3> QED BY <2>5, <3>1, <3>2
    <2> QED BY <1>3, <2>7, <2>8, <2>9, <2>10, <2>11, <2>12
  <1> QED BY <1>2, <1>3 DEF UnwindStep, ForwardStep

(* No step of the engine, failing or not, leaves a path where the          *)
(* unfinished record of it cannot put it back.                             *)
LEMMA EngineKeepsFit ==
  ASSUME RestoreInv, EngineInv, EngineStep, NEW op \in Ops, job.op = op,
         NEW p \in Paths, FitAt(op, p)
  PROVE  FitAt(op, p)'
  <1>1. Calling /\ job \in Job
    BY CallingOp DEF EngineStep
  <1>2. CASE MutationFails \/ RecordConflict
    <2>1. UNCHANGED <<files, wal>>
      BY <1>2 DEF MutationFails, RecordConflict
    <2>2. job'.step \in {"unwind", "done"}
      BY <1>1, <1>2 DEF MutationFails, RecordConflict, Done, Job
    <2> QED BY <2>1, <2>2, LogUntouched DEF FitAt, FitsAs, TornEarly, Torn, Linked
  <1> QED BY <1>1, <1>2, FitBatch, FitRepair DEF EngineStep

(* Neither does a step that leaves the file and the log alone and does not *)
(* go back to announcing, or one that belongs to another operation.        *)
LEMMA OthersKeepFit ==
  ASSUME NEW op \in Ops, NEW p \in Paths, FitAt(op, p), wal'[op] = wal[op],
         files'[p] = files[p],
         UNCHANGED job \/ job'.op /= op \/ job'.step \notin {"intent", "target"}
  PROVE  FitAt(op, p)'
  BY DEF FitAt, FitsAs, TornEarly, Torn, Linked, Active, Ordinals

-----------------------------------------------------------------------------
(* The oldest and the newest of some records exist.                        *)

(* A nonempty set of ordinals has an oldest one.                           *)
LEMMA LeastExists ==
  ASSUME NEW S \in SUBSET Nat, S /= {}
  PROVE  Least(S) \in S /\ \A j \in S : Least(S) <= j
  <1>1. \E x \in S : \A y \in S : ~(<<y, x>> \in OpToRel(<, Nat))
    BY NatLessThanWellFounded, WFMin
  <1>2. PICK x \in S : \A y \in S : ~(<<y, x>> \in OpToRel(<, Nat))
    BY <1>1
  <1>3. \A y \in S : x <= y
    <2> SUFFICES ASSUME NEW y \in S, ~(x <= y) PROVE FALSE
      OBVIOUS
    <2>1. x \in Nat /\ y \in Nat /\ y < x
      OBVIOUS
    <2>2. <<y, x>> \in {ss \in Nat \X Nat : ss[1] < ss[2]}
      BY <2>1
    <2>3. <<y, x>> \in OpToRel(<, Nat)
      BY <2>2, Zenon DEF OpToRel
    <2> QED BY <1>2, <2>3, Zenon
  <1> QED BY <1>3 DEF Least

(* A bounded one has a newest.                                             *)
LEMMA GreatestExists ==
  ASSUME NEW n \in Nat, NEW S \in SUBSET (1..n), S /= {}
  PROVE  Greatest(S) \in S /\ \A j \in S : j <= Greatest(S)
  <1> DEFINE T == {n - k : k \in S}
  <1>1. T \in SUBSET Nat /\ T /= {}
    <2>1. PICK k : k \in S
      OBVIOUS
    <2>2. n - k \in T
      BY <2>1
    <2>3. \A j \in S : n - j \in Nat
      OBVIOUS
    <2> QED BY <2>2, <2>3
  <1>2. Least(T) \in T /\ \A j \in T : Least(T) <= j
    BY <1>1, LeastExists
  <1>3. PICK k \in S : Least(T) = n - k
    BY <1>2
  <1>4. \A j \in S : n - k <= n - j
    BY <1>2, <1>3
  <1>5. \A j \in S : j <= k
    BY <1>4
  <1> QED BY <1>5 DEF Greatest

(* The newest unfinished record, which restoreMutation takes first.        *)
LEMMA GreatestActive ==
  ASSUME RestoreTypeOK, NEW op \in Ops, Active(op) /= {}
  PROVE  Greatest(Active(op)) \in Active(op)
  <1>1. Len(wal[op]) \in Nat /\ Active(op) \in SUBSET (1..Len(wal[op]))
    BY DEF RestoreTypeOK, Active, Ordinals
  <1> QED BY <1>1, GreatestExists

-----------------------------------------------------------------------------
(***************************************************************************)
(* How a call moves on, and what it does to the log of its operation: what *)
(* a caller relies on.                                                     *)
(***************************************************************************)

(* A call that reports success has just verified the whole manifest it     *)
(* installs. A recovery of the log stays one, and no other call rolls      *)
(* records forward.                                                        *)
TurnsOver ==
  /\ job.step \notin {"idle", "done"} /\ job'.step /= "idle"
  /\ job.ctx = "recover" <=> job'.ctx = "recover"
  /\ job'.step = "forward" => job.step = "forward"
  /\ job.step \in {"unwind", "forward"} /\ job.ctx = "recover"
       => job'.step \in {"unwind", "forward", "done"}
  /\ job'.step = "cleanup" => job.step \in {"mark", "cleanup"}
  /\ job'.step = "clean" => job.step \in {"cleanup", "clean"}
  /\ job.ctx /= "recover" /\ job.step /= "forward" /\ job'.step = "done" /\ job'.result = "ok"
       => AtManifest(job.goal) /\ UNCHANGED files

(* So every step of the engine turns over.                                 *)
LEMMA EngineTurns ==
  ASSUME RestoreInv, EngineStep
  PROVE  TurnsOver
  <1>1. job \in Job
    BY DEF RestoreInv, RestoreTypeOK
  <1>2. ASSUME NEW step \in BatchSteps, job.step = step, NEW left, Proceed(left)
        PROVE  TurnsOver
    <2> DEFINE next == NextStage[job.batch][step]
               todo == IF next \in BatchSteps THEN Active(job.op) ELSE {}
    <2>1. /\ next \notin {"idle", "forward", "done"}
          /\ next = "cleanup" => step = "mark"
          /\ next = "clean" => step = "cleanup"
      BY <1>1, <1>2, StageOrder DEF Job, RestoreInv, JobOK, BatchSteps
    <2>2. \/ job' = [job EXCEPT !.todo = left]
          \/ job' = [job EXCEPT !.step = next, !.todo = todo]
      BY <1>2 DEF Proceed
    <2> HIDE DEF next, todo
    <2>3. job'.ctx = job.ctx /\ job'.step \in {step, next}
      BY <1>1, <1>2, <2>2 DEF Job
    <2> QED BY <1>2, <2>1, <2>3 DEF TurnsOver, BatchSteps
  <1>3. CASE BatchStep
    <2>1. ASSUME NEW kind \in {"delete", "write"}, NEW S, NEW otherwise \in {"write", "verify"},
                 OpenBatch(kind, S, otherwise)
          PROVE  TurnsOver
      <3> DEFINE intents == [x \in S |-> files[x]]
      <3>1. \/ job' = [job EXCEPT !.step = otherwise]
            \/ job' = [job EXCEPT !.step = "intent", !.batch = kind, !.intents = intents]
        BY <2>1 DEF OpenBatch
      <3> HIDE DEF intents
      <3>2. job'.ctx = job.ctx /\ job'.step \in {otherwise, "intent"} /\ job.step = kind
        BY <1>1, <2>1, <3>1 DEF Job, OpenBatch
      <3> QED BY <3>2 DEF TurnsOver
    <2>2. ASSUME NEW p \in Paths, BeginIntent(p) PROVE TurnsOver
      <3> DEFINE rest == [q \in DOMAIN job.intents \ {p} |-> job.intents[q]]
                 next == NextStage[job.batch]["intent"]
                 todo == {k \in 1..(Len(wal[job.op]) + 1) :
                            k \in Ordinals(job.op) => k \in Active(job.op)}
      <3>1. next \in {"target", "link"}
        BY <1>1, StageOrder DEF Job, BatchSteps
      <3>2. \/ job' = [job EXCEPT !.intents = rest]
            \/ job' = [job EXCEPT !.intents = rest, !.step = next, !.todo = todo]
        BY <2>2 DEF BeginIntent
      <3> HIDE DEF rest, next, todo
      <3>3. job.step = "intent" /\ job'.ctx = job.ctx /\ job'.step \in {"intent", next}
        BY <1>1, <2>2, <3>2 DEF Job, BeginIntent
      <3> QED BY <3>1, <3>3 DEF TurnsOver
    <2>3. ASSUME NEW k \in job.todo,
                 CreateTarget(k) \/ FillTarget(k) \/ LinkSource(k) \/ RemoveSource(k) \/ InstallTarget(k)
                   \/ MarkVerified(k) \/ RemoveArtifacts(k) \/ MarkCleaned(k)
          PROVE  TurnsOver
      <3>1. job.step \in BatchSteps /\ (UNCHANGED job \/ \E left : Proceed(left))
        BY <2>3 DEF CreateTarget, FillTarget, LinkSource, RemoveSource, InstallTarget, MarkVerified,
                    RemoveArtifacts, MarkCleaned, BatchSteps
      <3>2. CASE UNCHANGED job
        BY <3>1, <3>2 DEF TurnsOver, BatchSteps
      <3> QED BY <1>2, <3>1, <3>2
    <2>4. CASE Verify
      <3>1. PICK result : Done(result) /\ (result = "ok" => job.ctx = "apply")
        BY <2>4 DEF Verify
      <3>2. /\ job'.ctx = job.ctx /\ job'.step = "done" /\ job'.result = result
            /\ job.step = "verify" /\ UNCHANGED files /\ AtManifest(Into)
        BY <1>1, <2>4, <3>1 DEF Verify, Done, Job
      <3> QED BY <3>1, <3>2 DEF TurnsOver, Into
    <2> QED BY <1>3, <2>1, <2>2, <2>3, <2>4 DEF BatchStep, OpenDeletes, OpenWrites
  <1>4. CASE Unwound
    <2>1. CASE job.ctx = "apply"
      <3>1. job'.ctx = "rollback" /\ job'.step = "delete" /\ job.step = "unwind"
        BY <1>1, <1>4, <2>1 DEF Unwound, Job
      <3> QED BY <2>1, <3>1 DEF TurnsOver
    <2>2. CASE job.ctx /= "apply"
      <3>1. PICK result : Done(result) /\ (job.ctx = "rollback" => result /= "ok")
        <4>1. CASE job.ctx = "recover"
          <5>1. Done("ok")
            BY <1>4, <4>1 DEF Unwound
          <5> QED BY <4>1, <5>1
        <4>2. CASE job.ctx = "rollback"
          <5> DEFINE result ==
                IF AtManifest(job.base) THEN "restore_failed_safe"
                ELSE IF \E p \in Scope : job.base[p] /= Absent /\ files[p] = job.base[p]
                  THEN "partial_restore" ELSE "recovery_required"
          <5>1. Done(result) /\ result /= "ok"
            BY <1>4, <4>2 DEF Unwound
          <5> QED BY <5>1
        <4> QED BY <1>1, <2>2, <4>1, <4>2 DEF Job
      <3>2. job'.ctx = job.ctx /\ job'.step = "done" /\ job'.result = result /\ job.step = "unwind"
        BY <1>1, <1>4, <3>1 DEF Unwound, Done, Job
      <3> QED BY <1>1, <2>2, <3>1, <3>2 DEF TurnsOver, Job
    <2> QED BY <2>1, <2>2
  <1>5. CASE Forwarded
    <2>1. job'.ctx = job.ctx /\ job'.step = "done" /\ job.step = "forward"
      BY <1>1, <1>5 DEF Forwarded, Done, Job
    <2> QED BY <2>1 DEF TurnsOver
  <1>6. ASSUME NEW k \in Active(job.op),
               \/ RestoreKeep(k) \/ RestoreUnlink(k) \/ RestoreLink(k) \/ RestoreFinish(k)
               \/ ForwardDetach(k) \/ ForwardInstall(k) \/ ForwardClean(k)
        PROVE  TurnsOver
    <2>1. UNCHANGED job /\ job.step \in {"unwind", "forward"}
      BY <1>6 DEF RestoreKeep, RestoreUnlink, RestoreLink, RestoreFinish, ForwardDetach,
                  ForwardInstall, ForwardClean, Unwinding, Forwarding
    <2> QED BY <2>1 DEF TurnsOver
  <1>7. CASE MutationFails
    <2>1. job'.ctx = job.ctx /\ job'.step = "unwind" /\ job.step \in MutatingSteps
      BY <1>1, <1>7 DEF MutationFails, Job
    <2> QED BY <2>1 DEF TurnsOver, MutatingSteps, BatchSteps
  <1>8. CASE RecordConflict
    <2>1. /\ job'.ctx = job.ctx /\ job'.step = "done" /\ job'.result = "recovery_required"
          /\ job.step \in {"unwind", "forward"}
      BY <1>1, <1>8 DEF RecordConflict, Done, Job
    <2> QED BY <2>1 DEF TurnsOver
  <1> QED BY <1>3, <1>4, <1>5, <1>6, <1>7, <1>8 DEF EngineStep, UnwindStep, ForwardStep

(* What a step of a call does to the log of its operation: nothing, it     *)
(* moves one unfinished record on, or it announces a path. A record is     *)
(* finished in a step that touches no file; unless it was rolled back its  *)
(* path is at its target, or was found there in the stage before.          *)
LogStep(op) ==
  \/ UNCHANGED wal
  \/ \E k \in Active(op), r \in MutationRecord :
       /\ Rewrite(op, k, r)
       /\ r.path = wal[op][k].path /\ r.src = wal[op][k].src /\ r.dst = wal[op][k].dst
       /\ r.st = "CLEANED" =>
            UNCHANGED files /\ (r.undone \/ job.step = "clean" \/ files[r.path] = r.dst)
  \/ \E p \in Paths : BeginIntent(p)

(* So every step of the engine writes the log.                             *)
LEMMA EngineLog ==
  ASSUME RestoreInv, EngineInv, EngineStep, NEW op \in Ops, job.op = op
  PROVE  LogStep(op)
  <1> USE DEF RestoreInv
  <1>1. job \in Job /\ Calling
    BY CallingOp DEF EngineStep
  <1>2. ASSUME NEW k \in Active(op), NEW r \in MutationRecord, r = wal[op][k],
               NEW new \in MutationRecord, Rewrite(op, k, new), new.path = r.path,
               new.src = r.src, new.dst = r.dst,
               new.st = "CLEANED" =>
                 UNCHANGED files /\ (new.undone \/ job.step = "clean" \/ files[new.path] = new.dst)
        PROVE  LogStep(op)
    BY <1>2 DEF LogStep
  <1>3. ASSUME NEW k \in job.todo,
               CreateTarget(k) \/ FillTarget(k) \/ LinkSource(k) \/ RemoveSource(k) \/ InstallTarget(k)
                 \/ MarkVerified(k) \/ RemoveArtifacts(k) \/ MarkCleaned(k)
        PROVE  LogStep(op)
    <2>1. job.step \in BatchSteps \ {"intent"}
      BY <1>3 DEF CreateTarget, FillTarget, LinkSource, RemoveSource, InstallTarget, MarkVerified,
                  RemoveArtifacts, MarkCleaned, BatchSteps
    <2>2. k \in Active(op)
      BY <1>1, <2>1 DEF EngineInv, BatchOK
    <2>3. PICK r \in MutationRecord : r = wal[op][k] /\ r.st /= "CLEANED"
      BY <2>2, RecordType DEF Active
    <2>4. CASE UNCHANGED wal
      BY <2>4 DEF LogStep
    <2>5. CASE CreateTarget(k) \/ FillTarget(k)
      <3> DEFINE new(arts) == [r EXCEPT !.arts = arts]
      <3>1. ASSUME NEW arts \in SUBSET Artifacts, Rewrite(op, k, new(arts))
            PROVE  LogStep(op)
        <4>1. /\ new(arts) \in MutationRecord /\ new(arts).path = r.path
              /\ new(arts).src = r.src /\ new(arts).dst = r.dst /\ new(arts).st /= "CLEANED"
          BY <2>3 DEF MutationRecord
        <4> HIDE DEF new
        <4> QED BY <1>2, <2>2, <2>3, <3>1, <4>1
      <3>2. /\ r.arts \cup {"torn"} \in SUBSET Artifacts
            /\ (r.arts \ {"torn"}) \cup {"target"} \in SUBSET Artifacts
        BY <2>3 DEF MutationRecord, Artifacts
      <3>3. \/ Rewrite(op, k, new(r.arts \cup {"torn"}))
            \/ Rewrite(op, k, new((r.arts \ {"torn"}) \cup {"target"}))
        BY <2>3, <2>5 DEF CreateTarget, FillTarget
      <3> HIDE DEF new
      <3> QED BY <3>1, <3>2, <3>3
    <2>6. CASE LinkSource(k) /\ r.src /= Absent
      <3> DEFINE new == [r EXCEPT !.arts = @ \cup {"source"}]
      <3>1. /\ new \in MutationRecord /\ new.path = r.path /\ new.src = r.src
            /\ new.dst = r.dst /\ new.st /= "CLEANED"
        BY <2>3 DEF MutationRecord, Artifacts
      <3>2. Rewrite(op, k, new)
        BY <2>3, <2>6 DEF LinkSource
      <3> HIDE DEF new
      <3> QED BY <1>2, <2>2, <2>3, <3>1, <3>2
    <2>7. CASE MarkVerified(k)
      <3> DEFINE new(state) == [r EXCEPT !.st = state]
      <3>1. ASSUME NEW state \in {"MIDDLE", "TARGET_VERIFIED"}, Rewrite(op, k, new(state))
            PROVE  LogStep(op)
        <4>1. /\ new(state) \in MutationRecord /\ new(state).path = r.path
              /\ new(state).src = r.src /\ new(state).dst = r.dst /\ new(state).st /= "CLEANED"
          BY <2>3 DEF MutationRecord, RecordStates
        <4> HIDE DEF new
        <4> QED BY <1>2, <2>2, <2>3, <3>1, <4>1
      <3>2. Rewrite(op, k, new("MIDDLE")) \/ Rewrite(op, k, new("TARGET_VERIFIED"))
        BY <2>3, <2>7 DEF MarkVerified
      <3> HIDE DEF new
      <3> QED BY <3>1, <3>2
    <2>8. CASE RemoveArtifacts(k)
      <3> DEFINE new == [r EXCEPT !.arts = {}]
      <3>1. /\ new \in MutationRecord /\ new.path = r.path /\ new.src = r.src
            /\ new.dst = r.dst /\ new.st /= "CLEANED"
        BY <2>3 DEF MutationRecord
      <3>2. Rewrite(op, k, new)
        BY <2>3, <2>8 DEF RemoveArtifacts
      <3> HIDE DEF new
      <3> QED BY <1>2, <2>2, <2>3, <3>1, <3>2
    <2>9. CASE MarkCleaned(k)
      <3> DEFINE new == [r EXCEPT !.st = "CLEANED"]
      <3>1. /\ new \in MutationRecord /\ new.path = r.path /\ new.src = r.src
            /\ new.dst = r.dst
        BY <2>3 DEF MutationRecord, RecordStates
      <3>2. Rewrite(op, k, new) /\ job.step = "clean" /\ UNCHANGED files
        BY <2>3, <2>9 DEF MarkCleaned
      <3> HIDE DEF new
      <3> QED BY <1>2, <2>2, <2>3, <3>1, <3>2
    <2>10. RemoveSource(k) \/ InstallTarget(k) \/ (LinkSource(k) /\ r.src = Absent) => UNCHANGED wal
      BY <2>3 DEF RemoveSource, InstallTarget, LinkSource
    <2> QED BY <1>3, <2>4, <2>5, <2>6, <2>7, <2>8, <2>9, <2>10
  <1>4. ASSUME NEW k \in Active(op),
               \/ RestoreKeep(k) \/ RestoreUnlink(k) \/ RestoreLink(k) \/ RestoreFinish(k)
               \/ ForwardDetach(k) \/ ForwardInstall(k) \/ ForwardClean(k)
        PROVE  LogStep(op)
    <2>1. PICK r \in MutationRecord : r = wal[op][k] /\ r.st /= "CLEANED"
      BY RecordType DEF Active
    <2>2. RestoreUnlink(k) \/ RestoreLink(k) => UNCHANGED wal
      BY DEF RestoreUnlink, RestoreLink
    <2>3. CASE RestoreKeep(k) \/ ForwardClean(k)
      <3> DEFINE new == [r EXCEPT !.st = "CLEANED", !.arts = {}]
      <3>1. /\ new \in MutationRecord /\ new.path = r.path /\ new.src = r.src
            /\ new.dst = r.dst
        BY DEF MutationRecord, RecordStates
      <3>2. Rewrite(op, k, new) /\ UNCHANGED files /\ files[r.path] = r.dst
        BY <2>1, <2>3 DEF RestoreKeep, KeepsTarget, ForwardClean, Cleanable
      <3> HIDE DEF new
      <3> QED BY <1>2, <2>1, <3>1, <3>2
    <2>4. CASE RestoreFinish(k)
      <3> DEFINE new == [r EXCEPT !.st = "CLEANED", !.arts = {}, !.undone = TRUE]
      <3>1. /\ new \in MutationRecord /\ new.path = r.path /\ new.src = r.src
            /\ new.dst = r.dst /\ new.undone
        BY DEF MutationRecord, RecordStates
      <3>2. Rewrite(op, k, new) /\ UNCHANGED files
        BY <2>1, <2>4 DEF RestoreFinish
      <3> HIDE DEF new
      <3> QED BY <1>2, <2>1, <3>1, <3>2
    <2>5. CASE ForwardDetach(k)
      <3> DEFINE new == [r EXCEPT !.st = "MIDDLE"]
      <3>1. /\ new \in MutationRecord /\ new.path = r.path /\ new.src = r.src
            /\ new.dst = r.dst /\ new.st /= "CLEANED"
        BY DEF MutationRecord, RecordStates
      <3>2. Rewrite(op, k, new)
        BY <2>1, <2>5 DEF ForwardDetach
      <3> HIDE DEF new
      <3> QED BY <1>2, <2>1, <3>1, <3>2
    <2>6. CASE ForwardInstall(k)
      <3> DEFINE new == [r EXCEPT !.st = "TARGET_VERIFIED", !.arts = @ \ {"target"}]
      <3>1. /\ new \in MutationRecord /\ new.path = r.path /\ new.src = r.src
            /\ new.dst = r.dst /\ new.st /= "CLEANED"
        BY DEF MutationRecord, RecordStates
      <3>2. Rewrite(op, k, new)
        BY <2>1, <2>6 DEF ForwardInstall
      <3> HIDE DEF new
      <3> QED BY <1>2, <2>1, <3>1, <3>2
    <2> QED BY <1>4, <2>2, <2>3, <2>4, <2>5, <2>6 DEF LogStep
  <1>5. CASE OpenDeletes \/ OpenWrites \/ Verify \/ Unwound \/ Forwarded \/ MutationFails
               \/ RecordConflict
    BY <1>5 DEF LogStep, OpenDeletes, OpenWrites, OpenBatch, Verify, Unwound, Forwarded,
                MutationFails, RecordConflict
  <1>6. CASE \E p \in Paths : BeginIntent(p)
    BY <1>6 DEF LogStep
  <1> QED BY <1>3, <1>4, <1>5, <1>6 DEF EngineStep, BatchStep, UnwindStep, ForwardStep

(* A recovery of the log adds nothing to it.                               *)
LEMMA RecoveryKeepsEmpty ==
  ASSUME RestoreInv, EngineInv, EngineStep, NEW op \in Ops, job.op = op,
         job.step \in {"unwind", "forward"}, wal[op] = <<>>
  PROVE  wal'[op] = <<>>
  <1>1. Active(op) = {}
    BY DEF Active, Ordinals
  <1>2. \A p \in Paths : ~BeginIntent(p)
    BY DEF BeginIntent
  <1> QED BY <1>1, <1>2, EngineLog DEF LogStep

(* A path is at the target of its record from the removal of the artifacts *)
(* of the record to the end of the batch.                                  *)
VerifiedAt(op, p) ==
  job.op = op =>
    \A k \in Active(op) :
      wal[op][k].path = p /\ (job.step = "clean" \/ (job.step = "cleanup" /\ k \notin job.todo))
        => files[p] = wal[op][k].dst

(* A path that is at its target stays there.                               *)
LEMMA EngineKeepsVerified ==
  ASSUME RestoreInv, EngineInv, EngineStep, NEW op \in Ops, job.op = op,
         NEW p \in Paths, VerifiedAt(op, p)
  PROVE  VerifiedAt(op, p)'
  <1> USE DEF RestoreInv
  <1>1. job \in Job /\ Calling
    BY CallingOp DEF EngineStep
  <1> SUFFICES ASSUME job'.step \in {"cleanup", "clean"} PROVE VerifiedAt(op, p)'
    BY DEF VerifiedAt
  <1>2. job.step \in {"mark", "cleanup", "clean"}
    BY EngineTurns, SMTT(60) DEF TurnsOver
  <1>3. \E k \in job.todo : MarkVerified(k) \/ RemoveArtifacts(k) \/ MarkCleaned(k)
    <2>1. ~MutationFails
      BY <1>1 DEF MutationFails, Job
    <2> QED BY <1>2, <2>1, Zenon
         DEF EngineStep, BatchStep, UnwindStep, ForwardStep, OpenDeletes, OpenWrites, OpenBatch,
             Verify, BeginIntent, CreateTarget, FillTarget, LinkSource, RemoveSource, InstallTarget, Unwound,
             RestoreKeep, RestoreUnlink, RestoreLink, RestoreFinish, Unwinding, Forwarded,
             ForwardDetach, ForwardInstall, ForwardClean, Forwarding, RecordConflict
  <1>4. PICK k \in job.todo : MarkVerified(k) \/ RemoveArtifacts(k) \/ MarkCleaned(k)
    BY <1>3
  <1>5. k \in Active(op) /\ UNCHANGED files
    BY <1>1, <1>2, <1>4 DEF EngineInv, BatchOK, BatchSteps, MarkVerified, RemoveArtifacts,
                            MarkCleaned
  <1>6. PICK r \in MutationRecord : r = wal[op][k] /\ r.st /= "CLEANED"
    BY <1>5, RecordType DEF Active
  <1>7. ASSUME NEW step \in {"mark", "cleanup", "clean"}, job.step = step, Proceed(job.todo \ {k})
        PROVE  /\ job.todo \ {k} /= {} => job'.step = step /\ job'.todo = job.todo \ {k}
               /\ job.todo \ {k} = {} /\ step = "mark" => job'.step = "cleanup" /\ job'.todo = Active(op)
    <2> DEFINE next == NextStage[job.batch][step]
               todo == IF next \in BatchSteps THEN Active(op) ELSE {}
    <2>1. step = "mark" => next = "cleanup"
      BY <1>1 DEF NextStage, Job
    <2>2. IF job.todo \ {k} /= {} THEN job' = [job EXCEPT !.todo = job.todo \ {k}]
          ELSE job' = [job EXCEPT !.step = next, !.todo = todo]
      BY <1>7 DEF Proceed
    <2>3. step = "mark" => todo = Active(op)
      BY <2>1 DEF BatchSteps
    <2> HIDE DEF next, todo
    <2> QED BY <1>1, <1>7, <2>1, <2>2, <2>3 DEF Job
  <1>8. CASE MarkVerified(k)
    <2> DEFINE new == [r EXCEPT !.st = "TARGET_VERIFIED"]
    <2>1. job.step = "mark"
      BY <1>8 DEF MarkVerified
    <2>2. Rewrite(op, k, new) /\ Proceed(job.todo \ {k})
      BY <1>6, <1>8, <2>1 DEF MarkVerified
    <2>3. new \in MutationRecord /\ new.path = r.path /\ new.st = "TARGET_VERIFIED"
      BY DEF MutationRecord, RecordStates
    <2> HIDE DEF new
    <2>4. Active(op)' = Active(op)
      BY <1>5, <1>6, <2>2, <2>3, RewriteActive
    <2>5. job'.step = "cleanup" /\ job'.todo = Active(op)
      BY <1>7, <2>1, <2>2
    <2> QED BY <2>4, <2>5 DEF VerifiedAt
  <1>9. CASE RemoveArtifacts(k)
    <2> DEFINE new == [r EXCEPT !.arts = {}]
    <2>1. job.step = "cleanup" /\ files[r.path] = r.dst /\ Proceed(job.todo \ {k})
      BY <1>6, <1>9 DEF RemoveArtifacts
    <2>2. Rewrite(op, k, new)
      BY <1>6, <1>9 DEF RemoveArtifacts
    <2>3. new \in MutationRecord /\ new.path = r.path /\ new.dst = r.dst /\ new.st /= "CLEANED"
      BY <1>6 DEF MutationRecord
    <2> HIDE DEF new
    <2>4. /\ wal'[op][k] = new /\ Active(op)' = Active(op)
          /\ \A i \in Ordinals(op) : i /= k => wal'[op][i] = wal[op][i]
      BY <1>5, <1>6, <2>2, <2>3, OneRecord DEF EngineInv
    <2>5. job.todo \ {k} = {} \/ (job'.step = "cleanup" /\ job'.todo = job.todo \ {k})
      BY <1>7, <2>1
    <2> SUFFICES ASSUME NEW i \in Active(op)', wal'[op][i].path = p,
                        job'.step = "clean" \/ i \notin job'.todo
                 PROVE  files'[p] = wal'[op][i].dst
      BY DEF VerifiedAt
    <2>6. CASE i = k
      BY <1>5, <2>1, <2>3, <2>4, <2>6
    <2>7. CASE i /= k
      <3>1. i \in Active(op) /\ i \in Ordinals(op)
        BY <2>4 DEF Active
      <3>2. i \notin job.todo
        BY <2>5, <2>7
      <3> QED BY <1>5, <2>1, <2>4, <2>7, <3>1, <3>2 DEF VerifiedAt
    <2> QED BY <2>6, <2>7
  <1>10. CASE MarkCleaned(k)
    <2> DEFINE new == [r EXCEPT !.st = "CLEANED"]
    <2>1. job.step = "clean" /\ Rewrite(op, k, new)
      BY <1>6, <1>10 DEF MarkCleaned
    <2>2. new \in MutationRecord /\ new.path = r.path /\ new.st = "CLEANED"
      BY DEF MutationRecord, RecordStates
    <2> HIDE DEF new
    <2>3. /\ Active(op)' = Active(op) \ {k}
          /\ \A i \in Ordinals(op) : i /= k => wal'[op][i] = wal[op][i]
      BY <1>5, <1>6, <2>1, <2>2, OneRecord DEF EngineInv
    <2>4. \A i \in Active(op)' : i \in Active(op) /\ wal'[op][i] = wal[op][i]
      BY <2>3 DEF Active
    <2> QED BY <1>5, <2>1, <2>4 DEF VerifiedAt
  <1> QED BY <1>4, <1>8, <1>9, <1>10

=============================================================================
