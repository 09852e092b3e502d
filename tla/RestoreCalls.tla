---------------------------- MODULE RestoreCalls ----------------------------
(***************************************************************************)
(* RestoreApply on its own: a caller that starts restore calls and log     *)
(* recoveries for one operation after another, crashes between any two     *)
(* steps, and other programs that edit the workspace.                      *)
(***************************************************************************)
EXTENDS RestoreApply

RestoreInit ==
  /\ files \in [Paths -> Leaf]
  /\ wal = [op \in Ops |-> <<>>]
  /\ job = IdleJob
  /\ spent = [f \in Faults |-> 0]

Captured(S) == [p \in S |-> files[p]]

(* A caller captures the scope and asks for a target; it never asks again  *)
(* while a record of the operation is unfinished unless it recovers first. *)
CallApply(op, goal) ==
  /\ Spend("start")
  /\ StartApply(op, Captured(DOMAIN goal), goal)

(* Recovery rolls every unfinished record back, or forward.                *)
CallRecover(op, decision) ==
  /\ ~AssertCleaned(op)
  /\ StartRecoverMutations(op, decision)
  /\ UNCHANGED spent

Return ==
  /\ job.step = "done"
  /\ job' = IdleJob
  /\ UNCHANGED <<files, wal, spent>>

(* The process dies: what it held in memory is gone, the disk stays.       *)
CrashJob ==
  /\ job.step /= "idle"
  /\ Spend("crash")
  /\ job' = IdleJob
  /\ UNCHANGED <<files, wal>>

Edit == \E p \in Paths, c \in Leaf : ExternalEdit(p, c)

RestoreNext ==
  \/ \E op \in Ops, goal \in Targets : CallApply(op, goal)
  \/ \E op \in Ops, decision \in {"rollback", "roll_forward"} : CallRecover(op, decision)
  \/ EngineStep
  \/ Return
  \/ CrashJob
  \/ Edit

RestoreSpec == RestoreInit /\ [][RestoreNext]_restoreVars

-----------------------------------------------------------------------------
(* Type invariant of the restore engine's state.                           *)
TypeInvariant == RestoreTypeOK

(* As long as nobody else writes, the content a record replaces stays on   *)
(* disk until its replacement is verified: in place, or in the source      *)
(* artifact, across failures, crashes, unwinding and rolling forward       *)
(* (quarantine.ts: quarantineFileSources, restoreMutation).                *)
SourceRecoverable ==
  spent["edit"] = 0 =>
    \A op \in Ops : \A k \in Active(op) :
      LET r == wal[op][k] IN
      r.st \in {"INTENT", "MIDDLE"} /\ r.src /= Absent
        => files[r.path] = r.src \/ "source" \in r.arts

(* README.md says of restoreMutation "Rollback: from any state,            *)
(* restoreMutation converges to the pre-operation state".  As long as      *)
(* nobody else writes, the one thing it cannot account for is a target     *)
(* artifact that was torn while it was written, and then the path itself   *)
(* still has the content the record was to replace (quarantine.ts:         *)
(* restoreMutation, cleanupRollbackTarget).                                *)
RollbackBlockedOnlyByTornTarget ==
  spent["edit"] = 0 =>
    \A op \in Ops : Active(op) /= {} =>
      LET r == wal[op][Greatest(Active(op))] IN
      Unrestorable(r) =>
        Torn(r) /\ r.st \in {"INTENT", "MIDDLE"} /\ files[r.path] = r.src

(* Two unfinished records never claim the same path: a path that is        *)
(* written again waits for its first record to be cleaned.                 *)
OneActiveRecordPerPath ==
  \A op \in Ops : \A j, k \in Active(op) :
    wal[op][j].path = wal[op][k].path => j = k

(* Whatever others write, and whenever they write it, a step of the engine  *)
(* takes away only a content one of its unfinished records accounts for:   *)
(* the one it replaces or the one it installs (quarantine.ts               *)
(* quarantineFileSources, restoreMutation, rollForwardMutation).           *)
OnlyRecordedContentRemoved ==
  [][spent'["edit"] = spent["edit"] =>
       \A p \in Paths : files'[p] /= files[p] =>
         \E k \in Active(job.op) :
           wal[job.op][k].path = p
             /\ files[p] \in {wal[job.op][k].src, wal[job.op][k].dst, Absent}]_restoreVars

=============================================================================
