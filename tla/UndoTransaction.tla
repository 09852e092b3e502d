--------------------------- MODULE UndoTransaction ---------------------------
(***************************************************************************)
(* Undo and redo as a transaction over the session and the workspace       *)
(* (src/controller.ts, src/journal.ts, src/session-state.ts) and its       *)
(* recovery (src/recovery.ts, the wiring in src/pi-runtime.ts).            *)
(*                                                                         *)
(* An operation prepares a journal, moves the session leaf in memory,      *)
(* restores files through RestoreApply, appends a cursor entry to the      *)
(* session file and then marks the journal COMMITTED; on failure or        *)
(* cancellation it compensates. The cursor entry is the commit point: a    *)
(* recovery rolls forward when it finds the entry and back when it does    *)
(* not. Sessions are processes that share one workspace and one lock; a    *)
(* crash may hit between any two steps.                                    *)
(***************************************************************************)
EXTENDS RestoreApply

CONSTANTS Sessions, NoSession

ASSUME SessionsAssumption == NoSession \notin Sessions /\ Sessions /= {}

VARIABLES
  phase,     \* state.json of every operation; "NONE" before it exists
  desc,      \* descriptor.json: session, leaves, rollback and target manifests
  cursors,   \* operations whose cursor entry is in the session file
  leaf,      \* the session's leaf in memory of its process
  diskLeaf,  \* the leaf a new process finds in the session file
  leaves,    \* leaves created so far, in any session
  status,    \* of the process of a session
  locked,    \* the controller's recovery lock, in memory
  holder,    \* owner of the workspace lock
  pc,        \* where the owner of the workspace lock is
  cur,       \* the operation it works on
  queue,     \* recovery: the pending operations left to look at
  dirty      \* history: paths others changed since an operation's capture

sessionVars == <<leaf, diskLeaf, leaves, status, locked>>
txVars == <<phase, desc, cursors, holder, pc, cur, queue>>
vars == <<restoreVars, sessionVars, txVars, dirty>>

Terminal == {"COMMITTED", "ABORTED"}
Phases == {"NONE", "PREPARED", "APPLYING", "FILES_VERIFIED", "CURSOR_COMMITTED",
           "ABORTING", "RECOVERY_REQUIRED"} \cup Terminal

Descriptor ==
  [session : Sessions, from : Nat, to : Nat, rollback : Manifests, target : Manifests]

OperationPcs ==
  {"planned", "prepared", "declined", "aborting", "diverged", "navigated",
   "apply", "applying", "applied", "cursor", "volatile", "ambiguous",
   "commit", "finalize"}
CompensationPcs == {"compensate", "restoreLeaf", "compensating", "compensated"}
RecoveryPcs == {"recover", "mutations", "restore", "restoring", "finish"}
Pcs == {"free"} \cup OperationPcs \cup CompensationPcs \cup RecoveryPcs

TxTypeOK ==
  /\ phase \in [Ops -> Phases]
  /\ desc \in [Ops -> Descriptor]
  /\ cursors \subseteq Ops
  /\ leaf \in [Sessions -> Nat]
  /\ diskLeaf \in [Sessions -> Nat]
  /\ leaves \in Nat
  /\ status \in [Sessions -> {"down", "starting", "up"}]
  /\ locked \in [Sessions -> BOOLEAN]
  /\ holder \in Sessions \cup {NoSession}
  /\ pc \in Pcs
  /\ cur \in Ops \cup {NoOp}
  /\ queue \subseteq Ops
  /\ dirty \in [Ops -> SUBSET Paths]

TypeOK == RestoreTypeOK /\ TxTypeOK

(* Two leaves exist in every session: where it stands and an older one.    *)
OldLeaf == 0
NewLeaf == 1

NoDescriptor ==
  [session |-> CHOOSE s \in Sessions : TRUE, from |-> NewLeaf, to |-> OldLeaf,
   rollback |-> EmptyManifest, target |-> EmptyManifest]

Init ==
  /\ files \in [Paths -> Leaf]
  /\ wal = [op \in Ops |-> <<>>]
  /\ job = IdleJob
  /\ spent = [f \in Faults |-> 0]
  /\ phase = [op \in Ops |-> "NONE"]
  /\ desc = [op \in Ops |-> NoDescriptor]
  /\ cursors = {}
  /\ leaf = [s \in Sessions |-> NewLeaf]
  /\ diskLeaf = [s \in Sessions |-> NewLeaf]
  /\ leaves = 2
  /\ status = [s \in Sessions |-> "up"]
  /\ locked = [s \in Sessions |-> FALSE]
  /\ holder = NoSession
  /\ pc = "free"
  /\ cur = NoOp
  /\ queue = {}
  /\ dirty = [op \in Ops |-> {}]

-----------------------------------------------------------------------------
(* Helpers. *)

Pending == {op \in Ops : phase[op] \notin Terminal \cup {"NONE"}}
Owned(s) == {op \in Pending : desc[op].session = s}
SessionOnly(op) == DOMAIN desc[op].target = {}

SetPhase(op, next) == phase' = [phase EXCEPT ![op] = next]

(* canTransition: neither a terminal phase nor the same phase again.       *)
MayEnter(op, next) == phase[op] \notin Terminal \cup {"NONE", next}

Goto(next) == pc' = next

Release ==
  /\ holder' = NoSession /\ pc' = "free" /\ cur' = NoOp /\ queue' = {}

Lock(s) == locked' = [locked EXCEPT ![s] = TRUE]

(* The history of who touched what: a change of a path makes it dirty for  *)
(* every operation that captured the workspace, the one at work excepted.  *)
Watched(op) == op \in Pending \/ op = cur
NoteChanges(self) ==
  dirty' = [op \in Ops |->
    IF Watched(op) /\ op /= self
      THEN dirty[op] \cup {p \in Paths : files'[p] /= files[p]} ELSE dirty[op]]

-----------------------------------------------------------------------------
(* The operation: runOperation under the workspace lock. The capture, the  *)
(* manifests and the leaves become the descriptor.                         *)

Captured(S) == [p \in S |-> files[p]]

Begin(s, op, target, to) ==
  /\ holder = NoSession /\ status[s] = "up" /\ ~locked[s]
  /\ phase[op] = "NONE"
  /\ to \in 0..(leaves - 1) /\ to /= leaf[s]
  /\ desc' = [desc EXCEPT ![op] =
       [session |-> s, from |-> leaf[s], to |-> to,
        rollback |-> Captured(DOMAIN target), target |-> target]]
  /\ dirty' = [dirty EXCEPT ![op] = {}]
  /\ holder' = s /\ cur' = op /\ Goto("planned")
  /\ UNCHANGED <<restoreVars, sessionVars, phase, cursors, queue>>

At(place) == pc = place /\ job.step = "idle"

(* The capture, the plan or the lookup of the target fails: nothing was    *)
(* written yet.                                                            *)
AbandonPlan ==
  /\ At("planned")
  /\ Release
  /\ UNCHANGED <<restoreVars, sessionVars, phase, desc, cursors, dirty>>

(* Variant: the journal starts in a phase that is never on the disk.       *)
PrepareMoved ==
  /\ At("planned")
  /\ SetPhase(cur, "SESSION_MOVED")
  /\ Goto("prepared")
  /\ UNCHANGED <<restoreVars, sessionVars, desc, cursors, holder, cur, queue, dirty>>

Prepare ==
  /\ At("planned")
  /\ SetPhase(cur, "PREPARED")
  /\ Goto("prepared")
  /\ UNCHANGED <<restoreVars, sessionVars, desc, cursors, holder, cur, queue, dirty>>

(* Pi moves the leaf in memory, declines, or ends up somewhere else.       *)
Navigate ==
  /\ At("prepared")
  /\ leaf' = [leaf EXCEPT ![holder] = desc[cur].to]
  /\ Goto("navigated")
  /\ UNCHANGED <<restoreVars, diskLeaf, leaves, status, locked,
                 phase, desc, cursors, holder, cur, queue, dirty>>

NavigateDeclined ==
  /\ At("prepared")
  /\ Spend("fail")
  /\ Goto("declined")
  /\ UNCHANGED <<files, wal, job, sessionVars, phase, desc, cursors, holder, cur, queue, dirty>>

NavigateDiverges(x) ==
  /\ At("prepared")
  /\ x \in 0..(leaves - 1) /\ x /= desc[cur].to
  /\ Spend("fail")
  /\ leaf' = [leaf EXCEPT ![holder] = x]
  /\ Lock(holder)
  /\ Goto("diverged")
  /\ UNCHANGED <<files, wal, job, diskLeaf, leaves, status,
                 phase, desc, cursors, holder, cur, queue, dirty>>

DeclineAborting ==
  /\ At("declined")
  /\ MayEnter(cur, "ABORTING")
  /\ SetPhase(cur, "ABORTING")
  /\ Goto("aborting")
  /\ UNCHANGED <<restoreVars, sessionVars, desc, cursors, holder, cur, queue, dirty>>

DeclineAborted ==
  /\ At("aborting")
  /\ SetPhase(cur, "ABORTED")
  /\ Release
  /\ UNCHANGED <<restoreVars, sessionVars, desc, cursors, dirty>>

RecordDivergence ==
  /\ At("diverged")
  /\ SetPhase(cur, "RECOVERY_REQUIRED")
  /\ Release
  /\ UNCHANGED <<restoreVars, sessionVars, desc, cursors, dirty>>

(* setPhases writes SESSION_MOVED and APPLYING, and FILES_VERIFIED too when *)
(* there is no file to restore, as one state file.                         *)
RecordMoved ==
  /\ At("navigated")
  /\ SetPhase(cur, IF SessionOnly(cur) THEN "FILES_VERIFIED" ELSE "APPLYING")
  /\ Goto(IF SessionOnly(cur) THEN "cursor" ELSE "apply")
  /\ UNCHANGED <<restoreVars, sessionVars, desc, cursors, holder, cur, queue, dirty>>

ApplyTarget ==
  /\ At("apply")
  /\ StartApply(cur, desc[cur].rollback, desc[cur].target)
  /\ Goto("applying")
  /\ UNCHANGED <<spent, sessionVars, phase, desc, cursors, holder, cur, queue, dirty>>

Returned(place) == pc = place /\ job.step = "done" /\ job' = IdleJob

(* Variant: the result of the call is not looked at.                       *)
AnyResultApplied ==
  /\ Returned("applying")
  /\ Goto("applied")
  /\ UNCHANGED <<files, wal, spent, sessionVars, phase, desc, cursors, holder, cur, queue, dirty>>

TargetApplied ==
  /\ Returned("applying")
  /\ Goto(IF job.result = "ok" THEN "applied" ELSE "compensate")
  /\ UNCHANGED <<files, wal, spent, sessionVars, phase, desc, cursors, holder, cur, queue, dirty>>

FilesVerified ==
  /\ At("applied")
  /\ SetPhase(cur, "FILES_VERIFIED")
  /\ Goto("cursor")
  /\ UNCHANGED <<restoreVars, sessionVars, desc, cursors, holder, cur, queue, dirty>>

(* DurableCursorWriter.appendCursor. Once the entry is durable the session *)
(* file ends in it, so a new process finds the new leaf.                   *)
WriteCursor ==
  /\ cursors' = cursors \cup {cur}
  /\ diskLeaf' = [diskLeaf EXCEPT ![holder] = desc[cur].to]

CursorDurable ==
  /\ At("cursor")
  /\ WriteCursor
  /\ Goto("commit")
  /\ UNCHANGED <<restoreVars, leaf, leaves, status, locked, phase, desc, holder, cur, queue, dirty>>

CursorVolatile ==
  /\ At("cursor")
  /\ Spend("fail")
  /\ Goto("volatile")
  /\ UNCHANGED <<files, wal, job, sessionVars, phase, desc, cursors, holder, cur, queue, dirty>>

(* The writer cannot tell: recovery_required, with the entry in the file   *)
(* or without it.                                                          *)
CursorAmbiguous ==
  /\ At("cursor")
  /\ \/ Spend("fail") /\ UNCHANGED <<cursors, diskLeaf>>
     \/ Spend("ambiguous") /\ WriteCursor
  /\ Lock(holder)
  /\ Goto("ambiguous")
  /\ UNCHANGED <<files, wal, job, leaf, leaves, status, phase, desc, holder, cur, queue, dirty>>

RecordAmbiguity ==
  /\ At("ambiguous")
  /\ \/ SetPhase(cur, "RECOVERY_REQUIRED") /\ UNCHANGED spent
     \/ Spend("fail") /\ UNCHANGED phase
  /\ Release
  /\ UNCHANGED <<files, wal, job, sessionVars, desc, cursors, dirty>>

CompensateVolatile ==
  /\ At("volatile")
  /\ Goto("compensate")
  /\ UNCHANGED <<restoreVars, sessionVars, phase, desc, cursors, holder, cur, queue, dirty>>

RecordCursor ==
  /\ At("commit")
  /\ SetPhase(cur, "CURSOR_COMMITTED")
  /\ Goto("finalize")
  /\ UNCHANGED <<restoreVars, sessionVars, desc, cursors, holder, cur, queue, dirty>>

MarkCommitted ==
  /\ At("finalize")
  /\ AssertCleaned(cur)
  /\ SetPhase(cur, "COMMITTED")
  /\ Release
  /\ UNCHANGED <<restoreVars, sessionVars, desc, cursors, dirty>>

(* A cancellation or a timeout is noticed before a phase of the operation  *)
(* (OperationProfiler.measure), not during the commit.                     *)
Cancel ==
  /\ \E place \in OperationPcs \ {"aborting", "applying", "commit", "finalize"} : At(place)
  /\ Spend("fail")
  /\ Goto("compensate")
  /\ UNCHANGED <<files, wal, job, sessionVars, phase, desc, cursors, holder, cur, queue, dirty>>

(* Any other exception locks the session. While the journal is created it  *)
(* may or may not have reached the disk.                                   *)
OperationFails ==
  /\ \E place \in OperationPcs \ {"applying"} : At(place)
  /\ Spend("fail")
  /\ \/ UNCHANGED phase
     \/ pc = "planned" /\ SetPhase(cur, "PREPARED")
  /\ Lock(holder)
  /\ Release
  /\ UNCHANGED <<files, wal, job, leaf, diskLeaf, leaves, status, desc, cursors, dirty>>

-----------------------------------------------------------------------------
(* compensate and compensateSessionOnly.                                   *)

CompensateAborting ==
  /\ At("compensate")
  /\ MayEnter(cur, "ABORTING")
  /\ SetPhase(cur, "ABORTING")
  /\ Goto("restoreLeaf")
  /\ UNCHANGED <<restoreVars, sessionVars, desc, cursors, holder, cur, queue, dirty>>

(* Variant: the files go back and the session stays.                       *)
LeafStays ==
  /\ At("restoreLeaf")
  /\ IF SessionOnly(cur)
       THEN Goto("compensated") /\ UNCHANGED <<files, wal, job>>
       ELSE Goto("compensating") /\ StartApply(cur, desc[cur].target, desc[cur].rollback)
  /\ UNCHANGED <<spent, sessionVars, phase, desc, cursors, holder, cur, queue, dirty>>

(* The leaf goes back first, then the files: the plan runs from the target *)
(* to the captured manifest, whatever the forward call left behind.        *)
RestoreLeaf ==
  /\ At("restoreLeaf")
  /\ leaf' = [leaf EXCEPT ![holder] = desc[cur].from]
  /\ IF SessionOnly(cur)
       THEN Goto("compensated") /\ UNCHANGED <<files, wal, job>>
       ELSE Goto("compensating") /\ StartApply(cur, desc[cur].target, desc[cur].rollback)
  /\ UNCHANGED <<spent, diskLeaf, leaves, status, locked,
                 phase, desc, cursors, holder, cur, queue, dirty>>

(* Variant: the result of the rollback is not looked at.                   *)
AnyRollbackApplied ==
  /\ Returned("compensating")
  /\ Goto("compensated")
  /\ UNCHANGED <<files, wal, spent, sessionVars, phase, desc, cursors, holder, cur, queue, dirty>>

RollbackApplied ==
  /\ Returned("compensating")
  /\ job.result = "ok"
  /\ Goto("compensated")
  /\ UNCHANGED <<files, wal, spent, sessionVars, phase, desc, cursors, holder, cur, queue, dirty>>

CompensationDone ==
  /\ At("compensated")
  /\ SetPhase(cur, "ABORTED")
  /\ Release
  /\ UNCHANGED <<restoreVars, sessionVars, desc, cursors, dirty>>

(* No journal to abort, a leaf that does not go back, files that do not,   *)
(* or an I/O error: the session locks and tries to say so in the journal.  *)
CompensationFails ==
  /\ \/ At("compensate") /\ ~MayEnter(cur, "ABORTING") /\ UNCHANGED <<job, spent>>
     \/ (\E place \in CompensationPcs \ {"compensating"} : At(place))
          /\ Spend("fail") /\ UNCHANGED job
     \/ Returned("compensating") /\ job.result /= "ok" /\ UNCHANGED spent
  /\ \/ MayEnter(cur, "RECOVERY_REQUIRED") /\ SetPhase(cur, "RECOVERY_REQUIRED")
     \/ UNCHANGED phase
  /\ Lock(holder)
  /\ Release
  /\ UNCHANGED <<files, wal, leaf, diskLeaf, leaves, status, desc, cursors, dirty>>

-----------------------------------------------------------------------------
(* Recovery: JournalRecovery.recover, at the start of a process and on     *)
(* /undo-recover, under the workspace lock.                                *)

(* isFullyCompensated: every record cleaned, and on every path the records *)
(* chain from a content back to the same content. A record that was rolled *)
(* back looks like one that was applied.                                   *)
RecordsOf(op, p) == {k \in Ordinals(op) : wal[op][k].path = p}

ChainsFold(op, p) ==
  LET K == RecordsOf(op, p) IN
  K /= {} =>
    /\ \A j, k \in K : (j < k /\ ~\E i \in K : j < i /\ i < k)
                         => wal[op][k].src = wal[op][j].dst
    /\ wal[op][Greatest(K)].dst = wal[op][Least(K)].src

(* Variant: clean records are enough.                                      *)
CleanEnough(op) == AssertCleaned(op)

FullyCompensated(op) == AssertCleaned(op) /\ \A p \in Paths : ChainsFold(op, p)

InertForeign(op) == phase[op] = "PREPARED" /\ SessionOnly(op) /\ wal[op] = <<>>

Foreign(op) == desc[op].session /= holder

(* Variant: the session file is not searched for a cursor entry.           *)
SettleableUnseen(op) == FullyCompensated(op)

Settleable(op) == FullyCompensated(op) /\ op \notin cursors

(* settleCompensated is tried first; a write that fails falls through.     *)
NotSettled(op) == (~Settleable(op) /\ UNCHANGED spent) \/ (Settleable(op) /\ Spend("fail"))

Decision(op) == IF op \in cursors THEN "roll_forward" ELSE "rollback"
ExpectedLeaf(op) == IF op \in cursors THEN desc[op].to ELSE desc[op].from
RecoveryTarget(op) == IF op \in cursors THEN desc[op].target ELSE desc[op].rollback

(* Variant: recovery does not wait for the workspace lock.                 *)
RecoverWithoutLock(s) ==
  /\ status[s] = "starting"
  /\ holder' = s /\ queue' = Pending /\ Goto("recover")
  /\ UNCHANGED <<restoreVars, sessionVars, phase, desc, cursors, cur, dirty>>

StartRecovery(s) ==
  /\ holder = NoSession /\ status[s] = "starting"
  /\ holder' = s /\ queue' = Pending /\ Goto("recover")
  /\ UNCHANGED <<restoreVars, sessionVars, phase, desc, cursors, cur, dirty>>

RecoverSettle(op) ==
  /\ At("recover") /\ op \in queue
  /\ Settleable(op)
  /\ SetPhase(op, "ABORTED")
  /\ queue' = queue \ {op}
  /\ UNCHANGED <<restoreVars, sessionVars, desc, cursors, holder, pc, cur, dirty>>

RecoverIgnore(op) ==
  /\ At("recover") /\ op \in queue
  /\ Foreign(op) /\ NotSettled(op) /\ InertForeign(op)
  /\ queue' = queue \ {op}
  /\ UNCHANGED <<files, wal, job, sessionVars, phase, desc, cursors, holder, pc, cur, dirty>>

RecoverMutations(op) ==
  /\ At("recover") /\ op \in queue
  /\ ~Foreign(op) /\ NotSettled(op)
  /\ leaf[holder] = ExpectedLeaf(op)
  /\ cur' = op
  /\ StartRecoverMutations(op, Decision(op))
  /\ Goto("mutations")
  /\ UNCHANGED <<sessionVars, phase, desc, cursors, holder, queue, dirty>>

MutationsRecovered ==
  /\ Returned("mutations")
  /\ job.result = "ok"
  /\ Goto(IF SessionOnly(cur) THEN "finish" ELSE "restore")
  /\ UNCHANGED <<files, wal, spent, sessionVars, phase, desc, cursors, holder, cur, queue, dirty>>

(* The workspace is captured as it is now and brought to the manifest.     *)
RestoreManifest ==
  /\ At("restore")
  /\ StartApply(cur, Captured(DOMAIN desc[cur].target), RecoveryTarget(cur))
  /\ Goto("restoring")
  /\ UNCHANGED <<spent, sessionVars, phase, desc, cursors, holder, cur, queue, dirty>>

ManifestRestored ==
  /\ Returned("restoring")
  /\ job.result = "ok"
  /\ Goto("finish")
  /\ UNCHANGED <<files, wal, spent, sessionVars, phase, desc, cursors, holder, cur, queue, dirty>>

(* Variant: the phase decides, not the cursor entry.                       *)
SettleByPhase ==
  /\ At("finish")
  /\ AssertCleaned(cur)
  /\ SetPhase(cur, IF phase[cur] = "FILES_VERIFIED" THEN "COMMITTED" ELSE "ABORTED")
  /\ queue' = queue \ {cur} /\ cur' = NoOp
  /\ Goto("recover")
  /\ UNCHANGED <<restoreVars, sessionVars, desc, cursors, holder, dirty>>

SettleRecovery ==
  /\ At("finish")
  /\ AssertCleaned(cur)
  /\ SetPhase(cur, IF cur \in cursors THEN "COMMITTED" ELSE "ABORTED")
  /\ queue' = queue \ {cur} /\ cur' = NoOp
  /\ Goto("recover")
  /\ UNCHANGED <<restoreVars, sessionVars, desc, cursors, holder, dirty>>

Up(lock) ==
  /\ status' = [status EXCEPT ![holder] = "up"]
  /\ locked' = [locked EXCEPT ![holder] = lock]

RecoveryDone ==
  /\ At("recover") /\ queue = {}
  /\ Up(FALSE)
  /\ Release
  /\ UNCHANGED <<restoreVars, leaf, diskLeaf, leaves, phase, desc, cursors, dirty>>

(* Variants: recovery tries again at once; it gives up and does not lock.  *)
RecoveryRetries ==
  /\ \/ /\ At("recover") /\ UNCHANGED job
        /\ \E op \in queue :
             /\ NotSettled(op)
             /\ IF Foreign(op) THEN ~InertForeign(op) ELSE leaf[holder] /= ExpectedLeaf(op)
     \/ /\ Returned("mutations") \/ Returned("restoring")
        /\ job.result /= "ok" /\ UNCHANGED spent
  /\ Goto("recover") /\ queue' = Pending
  /\ UNCHANGED <<files, wal, sessionVars, phase, desc, cursors, holder, cur, dirty>>

RecoveryGivesUp ==
  /\ \/ /\ At("recover") /\ UNCHANGED job
        /\ \E op \in queue :
             /\ NotSettled(op)
             /\ IF Foreign(op) THEN ~InertForeign(op) ELSE leaf[holder] /= ExpectedLeaf(op)
     \/ /\ Returned("mutations") \/ Returned("restoring")
        /\ job.result /= "ok" /\ UNCHANGED spent
  /\ Up(FALSE)
  /\ Release
  /\ UNCHANGED <<files, wal, leaf, diskLeaf, leaves, phase, desc, cursors, dirty>>

(* A pending operation of another session, a leaf that is not where the    *)
(* cursor says, records or files that cannot be recovered, an I/O error.   *)
RecoveryLocks ==
  /\ \/ /\ At("recover") /\ UNCHANGED job
        /\ \E op \in queue :
             /\ NotSettled(op)
             /\ IF Foreign(op) THEN ~InertForeign(op) ELSE leaf[holder] /= ExpectedLeaf(op)
     \/ /\ Returned("mutations") \/ Returned("restoring")
        /\ job.result /= "ok" /\ UNCHANGED spent
     \/ (\E place \in {"recover", "restore", "finish"} : At(place))
          /\ Spend("fail") /\ UNCHANGED job
  /\ Up(TRUE)
  /\ Release
  /\ UNCHANGED <<files, wal, leaf, diskLeaf, leaves, phase, desc, cursors, dirty>>

-----------------------------------------------------------------------------
(* The engine's steps, and the environment: crashes, restarts, the agent   *)
(* and other programs.                                                     *)

Restoring ==
  /\ EngineStep
  /\ NoteChanges(job.op)
  /\ UNCHANGED <<sessionVars, txVars>>

(* The process dies; its lock is reclaimed, its leaf was only in memory.   *)
Crash(s) ==
  /\ status[s] /= "down"
  /\ Spend("crash")
  /\ status' = [status EXCEPT ![s] = "down"]
  /\ locked' = [locked EXCEPT ![s] = FALSE]
  /\ leaf' = [leaf EXCEPT ![s] = diskLeaf[s]]
  /\ IF holder = s THEN Release /\ job' = IdleJob
     ELSE UNCHANGED <<holder, pc, cur, queue, job>>
  /\ UNCHANGED <<files, wal, diskLeaf, leaves, phase, desc, cursors, dirty>>

Restart(s) ==
  /\ status[s] = "down"
  /\ status' = [status EXCEPT ![s] = "starting"]
  /\ UNCHANGED <<restoreVars, leaf, diskLeaf, leaves, locked, txVars, dirty>>

(* /undo-recover builds a new runtime in the same process.                 *)
AskRecover(s) ==
  /\ status[s] = "up" /\ holder /= s
  /\ status' = [status EXCEPT ![s] = "starting"]
  /\ UNCHANGED <<restoreVars, leaf, diskLeaf, leaves, locked, txVars, dirty>>

(* A run of the agent appends entries to the session.                      *)
Chat(s) ==
  /\ status[s] = "up" /\ holder /= s
  /\ Spend("chat")
  /\ leaf' = [leaf EXCEPT ![s] = leaves]
  /\ diskLeaf' = [diskLeaf EXCEPT ![s] = leaves]
  /\ leaves' = leaves + 1
  /\ UNCHANGED <<files, wal, job, status, locked, txVars, dirty>>

Edit(p, c) ==
  /\ ExternalEdit(p, c)
  /\ NoteChanges(NoOp)
  /\ UNCHANGED <<sessionVars, txVars>>

Operation ==
  \/ AbandonPlan \/ Prepare
  \/ Navigate \/ NavigateDeclined \/ \E x \in 0..(leaves - 1) : NavigateDiverges(x)
  \/ DeclineAborting \/ DeclineAborted \/ RecordDivergence \/ RecordMoved
  \/ ApplyTarget \/ TargetApplied \/ FilesVerified
  \/ CursorDurable \/ CursorVolatile \/ CursorAmbiguous
  \/ RecordAmbiguity \/ CompensateVolatile \/ RecordCursor \/ MarkCommitted
  \/ Cancel \/ OperationFails

Compensation ==
  \/ CompensateAborting \/ RestoreLeaf \/ RollbackApplied
  \/ CompensationDone \/ CompensationFails

Recovery ==
  \/ \E op \in Ops : RecoverSettle(op) \/ RecoverIgnore(op) \/ RecoverMutations(op)
  \/ MutationsRecovered \/ RestoreManifest \/ ManifestRestored \/ SettleRecovery
  \/ RecoveryDone \/ RecoveryLocks

Next ==
  \/ \E s \in Sessions, op \in Ops, target \in Targets, to \in 0..(leaves - 1) :
       Begin(s, op, target, to)
  \/ Operation
  \/ Compensation
  \/ Recovery
  \/ Restoring
  \/ \E s \in Sessions :
       StartRecovery(s) \/ Crash(s) \/ Restart(s) \/ AskRecover(s) \/ Chat(s)
  \/ \E p \in Paths, c \in Leaf : Edit(p, c)

Spec == Init /\ [][Next]_vars

(* The process that holds the lock runs on: its event loop always gets to  *)
(* the next step, which is never a fault.                                  *)
Progress == (Operation \/ Compensation \/ Recovery \/ Restoring) /\ spent' = spent

(* Assumptions on the environment, for what must eventually happen to a    *)
(* session: a process that went down is started again, and a process that  *)
(* keeps asking for the workspace lock gets it while nobody holds it.      *)
Environment ==
  \A s \in Sessions : WF_vars(Restart(s)) /\ SF_vars(StartRecovery(s))

FairSpec == Spec /\ WF_vars(Progress) /\ Environment

-----------------------------------------------------------------------------
(* Type invariant.                                                         *)
TypeInvariant == TypeOK

(* A journal says committed only with a cursor entry in the session file   *)
(* behind it, whichever of the operation and any number of recoveries      *)
(* wrote the phase (controller.ts performOperation, recovery.ts recover).  *)
CommittedHasCursor ==
  \A op \in Ops : phase[op] \in {"CURSOR_COMMITTED", "COMMITTED"} => op \in cursors

(* While every append of a cursor entry reports what it did, an aborted    *)
(* operation leaves no entry behind: a later process rebuilds its undo and *)
(* redo stacks from the entries it finds (pi-runtime.ts                    *)
(* rebuildControllerState, recovery.ts settleCompensated).                 *)
AbortedHasNoKnownCursor ==
  spent["ambiguous"] = 0 => \A op \in Ops : phase[op] = "ABORTED" => op \notin cursors

(* A settled journal has no unfinished mutation record: no artifact of it  *)
(* is the only copy of a file (journal.ts markCommitted, settleRecovery,   *)
(* and the phase writes of a decline and of a compensation, which check    *)
(* nothing themselves).                                                    *)
SettledMeansClean ==
  \A op \in Ops : phase[op] \in Terminal => AssertCleaned(op)

(* A session that is up and not locked has no unsettled operation of its   *)
(* own once the lock is released: every failure that leaves one behind     *)
(* also locks the session (controller.ts performOperation, compensate).    *)
UnlockedMeansSettled ==
  \A s \in Sessions :
    status[s] = "up" /\ ~locked[s] /\ holder /= s => Owned(s) = {}

Settles(op, result) == phase[op] /= result /\ phase'[op] = result
FilesAt(op, m) == \A p \in DOMAIN m \ dirty[op] : files[p] = m[p]

(* When an operation is committed, by itself or by a recovery after any    *)
(* number of crashes, every path of its scope that nobody else changed is  *)
(* at the target.                                                          *)
CommitInstallsTarget ==
  [][\A op \in Ops : Settles(op, "COMMITTED") => FilesAt(op, desc[op].target)]_vars

RolledBackRecord(op) == \E k \in Ordinals(op) : wal[op][k].undone

(* When an operation is aborted, every path of its scope that nobody else  *)
(* changed is back at the captured content, unless a recovery trusted a    *)
(* chain of records of which one had been rolled back                      *)
(* (journal.ts fingerprintChainsFoldToIdentity does not tell the two).     *)
AbortRestoresExceptFolded ==
  [][\A op \in Ops : Settles(op, "ABORTED") =>
       FilesAt(op, desc[op].rollback) \/ (pc = "recover" /\ RolledBackRecord(op))]_vars

(* An operation that releases the lock without locking its session leaves  *)
(* the session where the outcome says: at the new leaf when committed, at  *)
(* the old one when aborted (controller.ts performOperation, compensate).  *)
LeafFollowsOutcome ==
  [][\A op \in Ops : cur = op /\ phase'[op] \in Terminal /\ holder' = NoSession
        /\ pc \in OperationPcs \cup CompensationPcs
        /\ ~locked'[holder]
     => leaf'[holder] = IF phase'[op] = "COMMITTED" THEN desc[op].to ELSE desc[op].from]_vars

Outcome(op) ==
  IF phase[op] = "NONE" THEN "none"
  ELSE IF phase[op] = "COMMITTED" THEN "committed"
  ELSE IF phase[op] = "ABORTED" THEN "aborted"
  ELSE IF op \in cursors THEN "decided" ELSE "pending"

AllOutcomes == [op \in Ops |-> Outcome(op)]

(* The transaction implements AtomicUndo: the cursor entry decides, and no *)
(* crash, retry or recovery revises it (controller.ts performOperation,    *)
(* recovery.ts recover).                                                   *)
Atomic == INSTANCE AtomicUndo WITH outcome <- AllOutcomes
AtomicSpec == Atomic!Spec

OwnContents(op, p) == {desc[op].rollback[p], desc[op].target[p], Absent}

(* While an operation or its compensation restores files, it takes away    *)
(* only a content it captured or installs itself: what another program     *)
(* wrote in the meantime stays (restore-engine.ts applyPinned, preflight   *)
(* and the checks of every mutation, on the forward call, on its unwinding *)
(* and on its rollback).                                                   *)
OperationKeepsForeignContent ==
  [][(pc \in {"applying", "compensating"}) /\ spent'["edit"] = spent["edit"] =>
       \A p \in Paths : files'[p] /= files[p] =>
         p \in DOMAIN desc[cur].target /\ files[p] \in OwnContents(cur, p)]_vars

(* The workspace lock is always released again: no path of the operation,  *)
(* its compensation or a recovery waits for something that does not come.  *)
LockReleased == holder /= NoSession ~> holder = NoSession

(* An operation left unsettled is settled, or its session is locked for    *)
(* the user to see, if its process is started again (recovery.ts).         *)
PendingResolved ==
  \A s \in Sessions : Owned(s) /= {} ~> (Owned(s) = {} \/ locked[s])

=============================================================================
