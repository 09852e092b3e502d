---------------------------- MODULE RestoreApply ----------------------------
(***************************************************************************)
(* One RestoreEngine.apply call of pi-undo and the write-ahead log of      *)
(* mutations under it (src/restore-engine.ts, src/quarantine.ts,           *)
(* src/mutation-journal.ts), on the path that does not use the native      *)
(* helper: every changed file gets a record in mutations.jsonl, its old    *)
(* content is hard-linked to a source artifact, its new content is linked  *)
(* from a target artifact, and a failed call is unwound record by record   *)
(* and then rolled back as a whole.                                        *)
(*                                                                         *)
(* A step is one durable or visible effect on one file or one line of the  *)
(* log, so a crash between any two of them is a behaviour of the model.    *)
(* The four states between INTENT and TARGET_VERIFIED are appended in one  *)
(* write after the target is installed; the three middle ones, which only  *)
(* a torn append leaves behind, are the single state MIDDLE.               *)
(***************************************************************************)
EXTENDS Integers, Sequences, FiniteSets

CONSTANTS
  Paths,      \* leaf paths of the workspace
  Contents,   \* file contents (bytes, kind and mode: what a fingerprint covers)
  Absent,     \* the "content" of a path that does not exist
  Ops,        \* operation identifiers
  NoOp,       \* no operation
  Targets,    \* the manifests an operation may restore, as functions on its scope
  Limit       \* how many faults of each kind a behaviour has

Leaf == Contents \cup {Absent}
Manifests == UNION {[S -> Leaf] : S \in SUBSET Paths}
Faults == {"crash", "fail", "edit", "chat", "ambiguous", "start"}

ASSUME LeafAssumption == Absent \notin Contents
ASSUME OpsAssumption == NoOp \notin Ops
ASSUME TargetsAssumption == Targets \subseteq Manifests
ASSUME LimitAssumption == Limit \in [Faults -> Nat]

VARIABLES
  files,   \* the workspace
  wal,     \* mutations.jsonl of every operation: the latest state per ordinal
  job,     \* the call in progress of the process that holds the workspace lock
  spent    \* faults so far

restoreVars == <<files, wal, job, spent>>

RecordStates == {"INTENT", "MIDDLE", "TARGET_VERIFIED", "CLEANED"}
(* "torn" is the name of a target artifact with only part of its content.  *)
Artifacts == {"source", "target", "torn"}

(* "undone" is a history field, not on disk: the record was terminated by  *)
(* restoreMutation with the path back at its source content.               *)
MutationRecord ==
  [path : Paths, src : Leaf, dst : Leaf, st : RecordStates,
   arts : SUBSET Artifacts, undone : BOOLEAN]

BatchSteps == {"intent", "target", "link", "remove", "install", "mark", "cleanup", "clean"}
MutatingSteps == BatchSteps \cup {"delete", "write", "verify"}
Steps == MutatingSteps \cup {"idle", "unwind", "forward", "done"}
Results == {"none", "ok", "restore_failed_safe", "partial_restore", "recovery_required"}

Job ==
  [op : Ops \cup {NoOp}, ctx : {"apply", "rollback", "recover"}, step : Steps,
   batch : {"delete", "write"}, base : Manifests, goal : Manifests,
   intents : Manifests, todo : SUBSET Nat, result : Results]

EmptyManifest == [p \in {} |-> Absent]

IdleJob ==
  [op |-> NoOp, ctx |-> "apply", step |-> "idle", batch |-> "delete",
   base |-> EmptyManifest, goal |-> EmptyManifest,
   intents |-> EmptyManifest, todo |-> {}, result |-> "none"]

RestoreTypeOK ==
  /\ files \in [Paths -> Leaf]
  /\ wal \in [Ops -> Seq(MutationRecord)]
  /\ job \in Job
  /\ spent \in [Faults -> Nat]

-----------------------------------------------------------------------------
(* Helpers. *)

Spend(f) == spent[f] < Limit[f] /\ spent' = [spent EXCEPT ![f] = @ + 1]

SetFile(p, c) == files' = [files EXCEPT ![p] = c]

Ordinals(op) == 1..Len(wal[op])

Active(op) == {k \in Ordinals(op) : wal[op][k].st /= "CLEANED"}

AssertCleaned(op) == Active(op) = {}

Rewrite(op, k, r) == wal' = [wal EXCEPT ![op] = [wal[op] EXCEPT ![k] = r]]

Least(S) == CHOOSE k \in S : \A j \in S : k <= j
Greatest(S) == CHOOSE k \in S : \A j \in S : j <= k

(* The manifest a batch starts from and the one it installs: the rollback  *)
(* of a failed call runs from the target back to the captured state.       *)
From == IF job.ctx = "rollback" THEN job.goal ELSE job.base
Into == IF job.ctx = "rollback" THEN job.base ELSE job.goal
Scope == DOMAIN job.goal

(* Variant: a batch takes whatever content it finds.                       *)
AnyContentKnown(p) == p \in Scope

Known(p) == files[p] \in {From[p], Into[p]}

DeletePaths == {p \in Scope : From[p] /= Absent /\ Into[p] = Absent /\ files[p] /= Absent}
WritePaths == {p \in Scope : Into[p] /= Absent /\ From[p] /= Into[p]}

AtManifest(m) == \A p \in DOMAIN m : files[p] = m[p]

Done(result) == job' = [job EXCEPT !.step = "done", !.result = result, !.todo = {}]

-----------------------------------------------------------------------------
(* Starting a call: the journal must hold no unfinished record and every   *)
(* path of the scope must be at the content the caller captured or at its  *)
(* target, or nothing is touched.                                          *)

KnownState(base, goal) == \A p \in DOMAIN goal : files[p] \in {base[p], goal[p]}

(* Variant: a call starts over records an earlier one left unfinished.     *)
StartOverActive(op, base, goal) ==
  /\ job.step = "idle"
  /\ job' = [IdleJob EXCEPT !.op = op, !.base = base, !.goal = goal, !.step = "delete"]
  /\ UNCHANGED <<files, wal>>

StartApply(op, base, goal) ==
  /\ job.step = "idle"
  /\ LET start == [IdleJob EXCEPT !.op = op, !.base = base, !.goal = goal] IN
     job' = IF ~AssertCleaned(op)
              THEN [start EXCEPT !.step = "done", !.result = "recovery_required"]
            ELSE IF ~KnownState(base, goal)
              THEN [start EXCEPT !.step = "done", !.result = "restore_failed_safe"]
            ELSE [start EXCEPT !.step = "delete"]
  /\ UNCHANGED <<files, wal>>

(* Crash recovery of the log alone, before recovery applies a manifest.    *)
StartRecoverMutations(op, decision) ==
  /\ job.step = "idle"
  /\ job' = [IdleJob EXCEPT !.op = op, !.ctx = "recover",
                            !.step = IF decision = "rollback" THEN "unwind" ELSE "forward"]
  /\ UNCHANGED <<files, wal>>

-----------------------------------------------------------------------------
(* Batches: deletes, then writes. The stages of a batch are barriers: each *)
(* one is over for every record before the next one starts.                *)

(* Variant: the file is removed before its source artifact exists.         *)
RemoveBeforeLink ==
  [delete |-> [intent |-> "remove", link |-> "mark", remove |-> "link",
               mark |-> "cleanup", cleanup |-> "clean", clean |-> "write"],
   write  |-> [intent |-> "target", target |-> "remove", link |-> "install",
               remove |-> "link", install |-> "mark", mark |-> "cleanup",
               cleanup |-> "clean", clean |-> "verify"]]

NextStage ==
  [delete |-> [intent |-> "link", link |-> "remove", remove |-> "mark",
               mark |-> "cleanup", cleanup |-> "clean", clean |-> "write"],
   write  |-> [intent |-> "target", target |-> "link", link |-> "remove",
               remove |-> "install", install |-> "mark", mark |-> "cleanup",
               cleanup |-> "clean", clean |-> "verify"]]

(* The stage goes on with the ordinals left, or the next one starts.       *)
Proceed(left) ==
  job' = IF left /= {} THEN [job EXCEPT !.todo = left]
         ELSE LET next == NextStage[job.batch][job.step] IN
              [job EXCEPT !.step = next,
                          !.todo = IF next \in BatchSteps THEN Active(job.op) ELSE {}]

OpenBatch(kind, paths, otherwise) ==
  /\ job.step = kind
  /\ \A p \in paths : Known(p)
  /\ job' = IF paths = {} THEN [job EXCEPT !.step = otherwise]
            ELSE [job EXCEPT !.step = "intent", !.batch = kind,
                             !.intents = [p \in paths |-> files[p]]]
  /\ UNCHANGED <<files, wal, spent>>

OpenDeletes == OpenBatch("delete", DeletePaths, "write")
OpenWrites == OpenBatch("write", WritePaths, "verify")

BeginIntent(p) ==
  /\ job.step = "intent"
  /\ p \in DOMAIN job.intents
  /\ wal' = [wal EXCEPT ![job.op] = Append(@,
       [path |-> p, src |-> job.intents[p], dst |-> Into[p], st |-> "INTENT",
        arts |-> {}, undone |-> FALSE])]
  /\ LET rest == [q \in DOMAIN job.intents \ {p} |-> job.intents[q]]
         next == NextStage[job.batch]["intent"] IN
     job' = IF DOMAIN rest /= {} THEN [job EXCEPT !.intents = rest]
            ELSE [job EXCEPT !.intents = rest, !.step = next,
                             !.todo = {k \in 1..(Len(wal[job.op]) + 1) :
                                         k \in Ordinals(job.op) => k \in Active(job.op)}]
  /\ UNCHANGED <<files, spent>>

(* The target artifact is written under its final name: created, filled,   *)
(* given its mode and synced. A call that dies or fails inside leaves it   *)
(* torn, several of them at a time since the targets are made concurrently.*)
Torn(r) == "torn" \in r.arts

CreateTarget(k) ==
  /\ job.step = "target" /\ k \in job.todo
  /\ ~Torn(wal[job.op][k])
  /\ Rewrite(job.op, k, [wal[job.op][k] EXCEPT !.arts = @ \cup {"torn"}])
  /\ UNCHANGED <<files, job, spent>>

FillTarget(k) ==
  /\ job.step = "target" /\ k \in job.todo
  /\ Torn(wal[job.op][k])
  /\ Rewrite(job.op, k, [wal[job.op][k] EXCEPT !.arts = (@ \ {"torn"}) \cup {"target"}])
  /\ Proceed(job.todo \ {k})
  /\ UNCHANGED <<files, spent>>

(* A file that was replaced or removed by someone else fails the call.     *)
LinkSource(k) ==
  /\ job.step = "link" /\ k \in job.todo
  /\ LET r == wal[job.op][k] IN
     /\ files[r.path] = r.src
     /\ IF r.src = Absent THEN UNCHANGED wal
        ELSE Rewrite(job.op, k, [r EXCEPT !.arts = @ \cup {"source"}])
  /\ Proceed(job.todo \ {k})
  /\ UNCHANGED <<files, spent>>

(* Variant: the file is removed without a second look at it.               *)
RemoveUnseen(k) ==
  /\ job.step = "remove" /\ k \in job.todo
  /\ SetFile(wal[job.op][k].path, Absent)
  /\ Proceed(job.todo \ {k})
  /\ UNCHANGED <<wal, spent>>

RemoveSource(k) ==
  /\ job.step = "remove" /\ k \in job.todo
  /\ LET r == wal[job.op][k] IN
     IF r.src = Absent THEN UNCHANGED files
     ELSE files[r.path] = r.src /\ SetFile(r.path, Absent)
  /\ Proceed(job.todo \ {k})
  /\ UNCHANGED <<wal, spent>>

(* link(2) does not clobber: an existing path fails the call.              *)
InstallTarget(k) ==
  /\ job.step = "install" /\ k \in job.todo
  /\ LET r == wal[job.op][k] IN
     /\ files[r.path] = Absent
     /\ SetFile(r.path, r.dst)
  /\ Proceed(job.todo \ {k})
  /\ UNCHANGED <<wal, spent>>

(* One append carries every record through the middle states; a crash may  *)
(* keep any prefix of its lines.                                           *)
MarkVerified(k) ==
  /\ job.step = "mark" /\ k \in job.todo
  /\ \A j \in job.todo : k <= j /\ files[wal[job.op][j].path] = wal[job.op][j].dst
  /\ LET r == wal[job.op][k] IN
     IF r.st = "INTENT"
       THEN Rewrite(job.op, k, [r EXCEPT !.st = "MIDDLE"]) /\ UNCHANGED job
       ELSE Rewrite(job.op, k, [r EXCEPT !.st = "TARGET_VERIFIED"]) /\ Proceed(job.todo \ {k})
  /\ UNCHANGED <<files, spent>>

RemoveArtifacts(k) ==
  /\ job.step = "cleanup" /\ k \in job.todo
  /\ files[wal[job.op][k].path] = wal[job.op][k].dst
  /\ Rewrite(job.op, k, [wal[job.op][k] EXCEPT !.arts = {}])
  /\ Proceed(job.todo \ {k})
  /\ UNCHANGED <<files, spent>>

(* Variant: a state the log does not know.                                 *)
MarkRemoved(k) ==
  /\ job.step = "clean" /\ k \in job.todo
  /\ Rewrite(job.op, k, [wal[job.op][k] EXCEPT !.st = "REMOVED"])
  /\ Proceed(job.todo \ {k})
  /\ UNCHANGED <<files, spent>>

MarkCleaned(k) ==
  /\ job.step = "clean" /\ k \in job.todo
  /\ \A j \in job.todo : k <= j
  /\ Rewrite(job.op, k, [wal[job.op][k] EXCEPT !.st = "CLEANED"])
  /\ Proceed(job.todo \ {k})
  /\ UNCHANGED <<files, spent>>

Verify ==
  /\ job.step = "verify"
  /\ AtManifest(Into)
  /\ Done(IF ~AssertCleaned(job.op) THEN "recovery_required"
          ELSE IF job.ctx = "apply" THEN "ok" ELSE "restore_failed_safe")
  /\ UNCHANGED <<files, wal, spent>>

-----------------------------------------------------------------------------
(* Failure: an assertion of the current step that does not hold, or an I/O *)
(* error, a timeout or a cancellation, which the bound "fail" counts.      *)

AssertionFails ==
  LET rec(k) == wal[job.op][k]
      at(k) == files[rec(k).path] IN
  \/ job.step = "delete" /\ \E p \in DeletePaths : ~Known(p)
  \/ job.step = "write" /\ \E p \in WritePaths : ~Known(p)
  \/ job.step = "link" /\ \E k \in job.todo : at(k) /= rec(k).src
  \/ job.step = "remove" /\ \E k \in job.todo : rec(k).src /= Absent /\ at(k) /= rec(k).src
  \/ job.step = "install" /\ \E k \in job.todo : at(k) /= Absent
  \/ job.step \in {"mark", "cleanup"} /\ \E k \in job.todo : at(k) /= rec(k).dst
  \/ job.step = "verify" /\ ~AtManifest(Into)

Fails == (AssertionFails /\ UNCHANGED spent) \/ Spend("fail")

MutationFails ==
  /\ job.step \in MutatingSteps
  /\ Fails
  /\ job' = [job EXCEPT !.step = "unwind", !.todo = {}, !.intents = EmptyManifest]
  /\ UNCHANGED <<files, wal>>

-----------------------------------------------------------------------------
(* restoreMutation, newest record first. The steps are its separate        *)
(* effects on the disk; a crash between two of them repeats the function.  *)
(* Before a record is closed or its target unlinked from the path, the     *)
(* target artifact must be whole: a torn one is refused, and stays.        *)

(* Variant: a record whose source artifact is gone is never accepted.      *)
KeepsNoTarget(r) == FALSE

KeepsTarget(r) ==
  /\ r.st = "TARGET_VERIFIED" /\ r.src /= Absent
  /\ "source" \notin r.arts /\ files[r.path] = r.dst
  /\ ~Torn(r)

Unlinks(r) ==
  /\ files[r.path] /= Absent /\ files[r.path] /= r.src /\ files[r.path] = r.dst
  /\ r.src = Absent \/ "source" \in r.arts
  /\ ~Torn(r)

Relinks(r) == r.src /= Absent /\ files[r.path] = Absent /\ "source" \in r.arts

Restored(r) == files[r.path] = r.src /\ ~Torn(r)

Unrestorable(r) == ~(KeepsTarget(r) \/ Unlinks(r) \/ Relinks(r) \/ Restored(r))

Unwinding(k) == job.step = "unwind" /\ k \in Active(job.op) /\ k = Greatest(Active(job.op))

RestoreKeep(k) ==
  /\ Unwinding(k)
  /\ KeepsTarget(wal[job.op][k])
  /\ Rewrite(job.op, k, [wal[job.op][k] EXCEPT !.st = "CLEANED", !.arts = {}])
  /\ UNCHANGED <<files, job, spent>>

RestoreUnlink(k) ==
  /\ Unwinding(k)
  /\ ~KeepsTarget(wal[job.op][k])
  /\ Unlinks(wal[job.op][k])
  /\ SetFile(wal[job.op][k].path, Absent)
  /\ UNCHANGED <<wal, job, spent>>

RestoreLink(k) ==
  /\ Unwinding(k)
  /\ ~KeepsTarget(wal[job.op][k])
  /\ Relinks(wal[job.op][k])
  /\ SetFile(wal[job.op][k].path, wal[job.op][k].src)
  /\ UNCHANGED <<wal, job, spent>>

RestoreFinish(k) ==
  /\ Unwinding(k)
  /\ ~KeepsTarget(wal[job.op][k])
  /\ Restored(wal[job.op][k])
  /\ Rewrite(job.op, k, [wal[job.op][k] EXCEPT !.st = "CLEANED", !.arts = {}, !.undone = TRUE])
  /\ UNCHANGED <<files, job, spent>>

(* After the records: the failed call is rolled back as a whole, once; the *)
(* rollback that failed itself only reports what it can still prove.       *)
Unwound ==
  /\ job.step = "unwind"
  /\ AssertCleaned(job.op)
  /\ CASE job.ctx = "recover"  -> Done("ok")
       [] job.ctx = "apply"    -> job' = [job EXCEPT !.ctx = "rollback", !.step = "delete"]
       [] job.ctx = "rollback" -> Done(
            IF AtManifest(job.base) THEN "restore_failed_safe"
            ELSE IF \E p \in Scope : job.base[p] /= Absent /\ files[p] = job.base[p]
              THEN "partial_restore" ELSE "recovery_required")
  /\ UNCHANGED <<files, wal, spent>>

-----------------------------------------------------------------------------
(* rollForwardMutation and cleanupMutation, oldest record first.           *)

Forwarding(k) == job.step = "forward" /\ k \in Active(job.op) /\ k = Least(Active(job.op))

Detachable(r) ==
  IF r.src = Absent THEN files[r.path] = Absent
  ELSE "source" \in r.arts /\ files[r.path] \in {r.src, Absent}

Installable(r) ==
  /\ files[r.path] = r.dst \/ (files[r.path] = Absent /\ "target" \in r.arts)
  /\ ~Torn(r)

Cleanable(r) == files[r.path] = r.dst /\ ~Torn(r)

Unforwardable(r) ==
  CASE r.st = "INTENT" -> ~Detachable(r)
    [] r.st = "MIDDLE" -> ~Installable(r)
    [] OTHER           -> ~Cleanable(r)

ForwardDetach(k) ==
  /\ Forwarding(k)
  /\ wal[job.op][k].st = "INTENT"
  /\ Detachable(wal[job.op][k])
  /\ SetFile(wal[job.op][k].path, Absent)
  /\ Rewrite(job.op, k, [wal[job.op][k] EXCEPT !.st = "MIDDLE"])
  /\ UNCHANGED <<job, spent>>

ForwardInstall(k) ==
  /\ Forwarding(k)
  /\ wal[job.op][k].st = "MIDDLE"
  /\ Installable(wal[job.op][k])
  /\ SetFile(wal[job.op][k].path, wal[job.op][k].dst)
  /\ Rewrite(job.op, k, [wal[job.op][k] EXCEPT !.st = "TARGET_VERIFIED", !.arts = @ \ {"target"}])
  /\ UNCHANGED <<job, spent>>

ForwardClean(k) ==
  /\ Forwarding(k)
  /\ wal[job.op][k].st = "TARGET_VERIFIED"
  /\ Cleanable(wal[job.op][k])
  /\ Rewrite(job.op, k, [wal[job.op][k] EXCEPT !.st = "CLEANED", !.arts = {}])
  /\ UNCHANGED <<files, job, spent>>

Forwarded ==
  /\ job.step = "forward"
  /\ AssertCleaned(job.op)
  /\ Done("ok")
  /\ UNCHANGED <<files, wal, spent>>

(* Both loops stop at the first record they cannot account for.            *)
RecordConflict ==
  /\ job.step \in {"unwind", "forward"}
  /\ ~AssertCleaned(job.op)
  /\ \/ /\ job.step = "unwind"
        /\ Unrestorable(wal[job.op][Greatest(Active(job.op))])
        /\ UNCHANGED spent
     \/ /\ job.step = "forward"
        /\ Unforwardable(wal[job.op][Least(Active(job.op))])
        /\ UNCHANGED spent
     \/ Spend("fail")
  /\ Done("recovery_required")
  /\ UNCHANGED <<files, wal>>

-----------------------------------------------------------------------------
(* The steps of a call in progress, and what a crash leaves of it.         *)

BatchStep ==
  \/ OpenDeletes \/ OpenWrites \/ Verify
  \/ \E p \in Paths : BeginIntent(p)
  \/ \E k \in job.todo :
       CreateTarget(k) \/ FillTarget(k) \/ LinkSource(k) \/ RemoveSource(k)
         \/ InstallTarget(k) \/ MarkVerified(k) \/ RemoveArtifacts(k) \/ MarkCleaned(k)

UnwindStep ==
  \/ Unwound
  \/ \E k \in Active(job.op) :
       RestoreKeep(k) \/ RestoreUnlink(k) \/ RestoreLink(k) \/ RestoreFinish(k)

ForwardStep ==
  \/ Forwarded
  \/ \E k \in Active(job.op) : ForwardDetach(k) \/ ForwardInstall(k) \/ ForwardClean(k)

Calling == job.op /= NoOp

EngineStep ==
  Calling /\ (BatchStep \/ UnwindStep \/ ForwardStep \/ MutationFails \/ RecordConflict)

(* Another program, or the agent of another session, writes to the         *)
(* workspace without the lock.                                             *)
ExternalEdit(p, c) ==
  /\ Spend("edit")
  /\ c /= files[p]
  /\ SetFile(p, c)
  /\ UNCHANGED <<wal, job>>

=============================================================================
