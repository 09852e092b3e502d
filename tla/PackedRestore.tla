--------------------------- MODULE PackedRestore ---------------------------
(***************************************************************************)
(* The native path of an undo or redo.  Instead of one log record per file *)
(* the transaction publishes one durable pack that holds, for every path,  *)
(* the content before and after, the fingerprints and the names of two     *)
(* artifacts; a helper process then creates, captures, installs and checks *)
(* all paths in four stages.  A stopped or failed helper is rolled back    *)
(* from the pack, an installed transaction is finalized in the background  *)
(* once its cursor is written, and a restart decides by the cursor.        *)
(*                                                                         *)
(* Contents stand for fingerprints (path, mode and bytes), Torn for a file *)
(* whose writer was stopped.  Other programs replace or remove files; they *)
(* do not write in place.  The first apply of the operation takes the      *)
(* native path; what happens when it cannot is the subject of RestoreApply *)
(* and appears here as an ordinary apply of the rollback only.             *)
(***************************************************************************)
EXTENDS Naturals, Sequences, FiniteSets

CONSTANTS N,           \* number of paths in the plan
          Cached,      \* the plans whose pack was prepared in advance
          Limit,       \* how many faults of each kind may happen
          LosesPower,  \* whether a crash may lose what was not synced
          Absent, Torn, None

Paths  == 1 .. N
Plans  == {"forward", "back"}
Names  == Plans \cup {"op"}
Places == Names \X {"source", "target"} \X Paths
Faults == {"crash", "edit", "stop", "refusal", "unpublished"}

ASSUME PackedAssumption ==
    /\ N \in Nat \ {0}
    /\ Cached \subseteq Plans
    /\ Limit \in [Faults -> Nat]
    /\ LosesPower \in BOOLEAN
    /\ Absent \notin {"old", "new", "other"}
    /\ Torn \notin {"old", "new", "other", Absent}
    /\ None \notin Names

VARIABLES before, after, \* the two snapshots the operation goes between
          file,          \* the workspace
          same,          \* the artifact name whose target artifact is the very file
          art,           \* the artifacts beside the files
          pack,          \* the plan of the pack in the transaction's directory
          log,           \* one record for each path, in the pack's order
          extra,         \* records of an ordinary apply, beyond the pack's
          durable,       \* paths whose bytes have reached the disk
          phase, cursor,
          run,           \* the program: where it is, and for each path
          foreign,       \* paths another program wrote or removed
          raced,         \* those of them it wrote behind a check just made
          spent          \* faults so far

vars == <<before, after, file, same, art, pack, log, extra, durable, phase,
          cursor, run, foreign, raced, spent>>
others == <<foreign, raced>>
world == <<before, after, spent, others>>

From(plan) == IF plan = "forward" THEN before ELSE after
To(plan)   == IF plan = "forward" THEN after ELSE before

\* Artifacts are named after the operation, or after the cache entry.
Name(plan) == IF plan \in Cached THEN plan ELSE "op"
Source(p)  == <<Name(run.plan), "source", p>>
Target(p)  == <<Name(run.plan), "target", p>>
Before(p)  == From(run.plan)[p]
After(p)   == To(run.plan)[p]

\* The direction of every recovery: the cursor is the only evidence.
RollForward == cursor
Goal(p)     == IF RollForward THEN After(p) ELSE Before(p)

At(pc, where)  == [run EXCEPT !.pc = pc, !.at = [p \in Paths |-> where]]
Go(p, where)   == run' = [run EXCEPT !.at[p] = where]
Here(pc, p, where)  == run.pc = pc /\ run.at[p] = where
Passed(stages) == \A p \in Paths : run.at[p] \in stages
Locked         == [run EXCEPT !.pc = "locked"]

Spend(fault) ==
    /\ spent[fault] < Limit[fault]
    /\ spent' = [spent EXCEPT ![fault] = @ + 1]

\* The operation's first apply failed, or its cursor was refused: the same
\* transaction goes back with a plan from the target to the source.
Compensating ==
    /\ phase' = "ABORTING"
    /\ run' = [At("publish", "new") EXCEPT !.plan = "back", !.use = "compensation"]

\* An apply that did not succeed ends in a compensation; a compensation or a
\* recovery that did not succeed ends locked.
GiveUp ==
    IF run.use = "undo" THEN Compensating ELSE run' = Locked /\ UNCHANGED phase

Init ==
    /\ before \in [Paths -> {"old", Absent}]
    /\ after \in [Paths -> {"new", Absent}]
    /\ \A p \in Paths : before[p] # after[p]
    /\ file = before
    /\ same = [p \in Paths |-> None]
    /\ art = [place \in Places |-> Absent]
    /\ pack = None /\ log = <<>> /\ extra = "none"
    /\ durable = Paths
    /\ phase = "APPLYING" /\ cursor = FALSE
    /\ run = [pc |-> "publish", plan |-> "forward", use |-> "undo",
              at |-> [p \in Paths |-> "new"]]
    /\ foreign = {} /\ raced = {}
    /\ spent = [f \in Faults |-> 0]

------------------------------------------------------------------------------
(* Publishing the pack.                                                    *)

\* Variant: the records of the pack itself are not counted.
ActiveExtra == extra = "active"

ActiveRecords == extra = "active" \/ \E i \in DOMAIN log : log[i].state # "CLEANED"

\* An apply that finds active records refuses to start.
StaleRecords ==
    /\ run.pc = "publish" /\ ActiveRecords
    /\ run' = Locked
    /\ UNCHANGED <<world, file, same, art, pack, log, extra, durable, phase, cursor>>

\* createDurablePack renames a complete file over the old pack.
createDurablePack ==
    /\ run.pc = "publish" /\ ~ActiveRecords /\ run.plan \notin Cached
    /\ pack' = run.plan
    /\ run' = At("helper", "new")
    /\ UNCHANGED <<world, file, same, art, log, extra, durable, phase, cursor>>

\* A cached pack is linked where the old one was removed.
UnlinkPack ==
    /\ run.pc = "publish" /\ ~ActiveRecords /\ run.plan \in Cached
    /\ pack' = None
    /\ run' = At("link", "new")
    /\ UNCHANGED <<world, file, same, art, log, extra, durable, phase, cursor>>

publishCachedDurablePack ==
    /\ run.pc = "link"
    /\ pack' = run.plan
    /\ run' = At("helper", "new")
    /\ UNCHANGED <<world, file, same, art, log, extra, durable, phase, cursor>>

\* Without a pack, or without a helper for it, whichever pack is there goes
\* and the ordinary apply takes over.
removeDurablePack ==
    /\ run.pc \in {"publish", "link"} /\ run.use = "compensation" /\ ~ActiveRecords
    /\ Spend("unpublished")
    /\ pack' = None
    /\ run' = At("ordinary", "new")
    /\ UNCHANGED <<before, after, others, file, same, art, log, extra, durable, phase, cursor>>

------------------------------------------------------------------------------
(* The helper: four stages, each for all paths in any order.               *)

Created   == {"created", "seen", "linked", "moved", "captured", "installed", "checked"}
Captured  == {"captured", "installed", "checked"}
Installed == {"installed", "checked"}

createTarget(p) ==
    /\ Here("helper", p, "new") /\ art[Target(p)] = Absent
    /\ art' = IF After(p) = Absent THEN art ELSE [art EXCEPT ![Target(p)] = Torn]
    /\ Go(p, IF After(p) = Absent THEN "created" ELSE "filling")
    /\ UNCHANGED <<world, file, same, pack, log, extra, durable, phase, cursor>>

fillTarget(p) ==
    /\ Here("helper", p, "filling")
    /\ art' = [art EXCEPT ![Target(p)] = After(p)]
    /\ Go(p, "created")
    /\ UNCHANGED <<world, file, same, pack, log, extra, durable, phase, cursor>>

verifyFile(p) ==
    /\ Here("helper", p, "created") /\ Passed(Created)
    /\ art[Source(p)] = Absent /\ file[p] = Before(p)
    /\ Go(p, IF Before(p) = Absent THEN "captured" ELSE "seen")
    /\ UNCHANGED <<world, file, same, art, pack, log, extra, durable, phase, cursor>>

\* A file to be replaced is renamed to its source artifact; one to be deleted
\* is linked there first.  What arrives is then compared with what was seen.
captureSource(p) ==
    /\ Here("helper", p, "seen") /\ file[p] # Absent
    /\ art' = [art EXCEPT ![Source(p)] = file[p]]
    /\ file' = IF After(p) = Absent THEN file ELSE [file EXCEPT ![p] = Absent]
    /\ same' = [same EXCEPT ![p] = None]
    /\ Go(p, IF file[p] # Before(p) THEN "moved"
             ELSE IF After(p) = Absent THEN "linked" ELSE "captured")
    /\ UNCHANGED <<world, pack, log, extra, durable, phase, cursor>>

unlinkSource(p) ==
    /\ Here("helper", p, "linked") /\ file[p] # Absent
    /\ file' = [file EXCEPT ![p] = Absent]
    /\ Go(p, "captured")
    /\ UNCHANGED <<world, same, art, pack, log, extra, durable, phase, cursor>>

installTarget(p) ==
    /\ Here("helper", p, "captured") /\ Passed(Captured)
    /\ file[p] = Absent \/ After(p) = Absent
    /\ Go(p, "installed")
    /\ IF After(p) = Absent THEN UNCHANGED <<file, same, durable>>
       ELSE /\ file' = [file EXCEPT ![p] = After(p)]
            /\ same' = [same EXCEPT ![p] = Name(run.plan)]
            /\ durable' = durable \ {p}
    /\ UNCHANGED <<world, art, pack, log, extra, phase, cursor>>

InPlace(p) ==
    /\ file[p] = After(p) /\ art[Source(p)] = Before(p)
    /\ After(p) # Absent => same[p] = Name(run.plan)

verifyInstalled(p) ==
    /\ Here("helper", p, "installed") /\ Passed(Installed) /\ InPlace(p)
    /\ Go(p, "checked")
    /\ UNCHANGED <<world, file, same, art, pack, log, extra, durable, phase, cursor>>

\* The helper is done, and a file it deleted is visible again
\* (assertCompleteVisibleSubset).
Stray(p) == Passed({"checked"}) /\ After(p) = Absent /\ file[p] # Absent

\* A check of the stage the path is at fails.
Blocked(p) ==
    \/ run.at[p] = "new" /\ art[Target(p)] # Absent
    \/ /\ run.at[p] = "created" /\ Passed(Created)
       /\ art[Source(p)] # Absent \/ file[p] # Before(p)
    \/ run.at[p] \in {"seen", "linked"} /\ file[p] = Absent
    \/ run.at[p] = "moved"
    \/ run.at[p] = "captured" /\ Passed(Captured) /\ After(p) # Absent /\ file[p] # Absent
    \/ run.at[p] = "installed" /\ Passed(Installed) /\ ~InPlace(p)
    \/ Stray(p)

HelperFails ==
    /\ run.pc = "helper" /\ \E p \in Paths : Blocked(p)
    /\ run' = At("intents", "look")
    /\ UNCHANGED <<world, file, same, art, pack, log, extra, durable, phase, cursor>>

\* Cancelled or timed out: the process is stopped wherever it is.
HelperStops ==
    /\ run.pc = "helper" /\ Spend("stop")
    /\ run' = At("intents", "look")
    /\ UNCHANGED <<before, after, others, file, same, art, pack, log, extra, durable, phase, cursor>>

\* An apply that finds records in the log has not succeeded either.
HelperSucceeds ==
    /\ run.pc = "helper" /\ Passed({"checked"}) /\ ~\E p \in Paths : Stray(p)
    /\ IF log # <<>> THEN GiveUp
       ELSE IF run.use = "undo"
       THEN phase' = "FILES_VERIFIED" /\ run' = [run EXCEPT !.pc = "verified"]
       ELSE phase' = "ABORTED" /\ run' = [run EXCEPT !.pc = "settled"]
    /\ UNCHANGED <<world, file, same, art, pack, log, extra, durable, cursor>>

------------------------------------------------------------------------------
(* The cursor, and the background finalization it starts.                  *)

CommitCursor ==
    /\ run.pc = "verified"
    /\ cursor' = TRUE /\ phase' = "CURSOR_COMMITTED"
    /\ run' = [At("finalize", "look") EXCEPT !.use = "commit"]
    /\ UNCHANGED <<world, file, same, art, pack, log, extra, durable>>

\* The cursor could not be made durable (volatile).
RefuseCursor ==
    /\ run.pc = "verified" /\ Spend("refusal")
    /\ Compensating
    /\ UNCHANGED <<before, after, others, file, same, art, pack, log, extra, durable, cursor>>

------------------------------------------------------------------------------
(* recoverPackedMutations: back from a stopped helper, or either way after *)
(* a restart.                                                              *)

RecordOf(state) == [plan |-> run.plan, state |-> state]
Matches ==
    /\ pack = run.plan /\ extra = "none"
    /\ \A i \in DOMAIN log : log[i].plan = pack

\* Variant: an intent is appended for every path of the pack.
IntendAll == log \o [p \in Paths |-> RecordOf("INTENT")]

\* The log with a record for every path.
Intended == [p \in Paths |-> IF p \in DOMAIN log THEN log[p] ELSE RecordOf("INTENT")]

ensurePackedIntents ==
    /\ run.pc = "intents" /\ Matches
    /\ log' = Intended
    /\ run' = At("normalize", "look")
    /\ UNCHANGED <<world, file, same, art, pack, extra, durable, phase, cursor>>

Mismatch ==
    /\ run.pc = "intents" /\ ~Matches
    /\ GiveUp
    /\ UNCHANGED <<world, file, same, art, pack, log, extra, durable, cursor>>

Failed == \E p \in Paths : run.at[p] = "failed"

\* Variant: only the artifacts are compared.
KnownArtifacts(p) ==
    /\ art[Source(p)] \in {Absent, Before(p)}
    /\ art[Target(p)] \in {Absent, After(p)}

\* Every file found is one the pack knows, and a target content is ours.
Known(p) ==
    /\ art[Source(p)] \in {Absent, Before(p)}
    /\ art[Target(p)] \in {Absent, After(p)}
    /\ file[p] \in {Absent, Before(p), After(p)}
    /\ RollForward => file[p] # Before(p) \/ Before(p) = Absent
    /\ After(p) # Absent /\ file[p] = After(p) =>
          IF art[Target(p)] # Absent THEN same[p] = Name(run.plan)
          ELSE log[p].state = "CLEANED" /\ RollForward

CleanedDelete(p) == log[p].state = "CLEANED" /\ After(p) = Absent

normalizeRecord(p) ==
    /\ Here("normalize", p, "look") /\ ~Failed
    /\ Go(p, CASE CleanedDelete(p)                    -> IF RollForward THEN "done" ELSE "failed"
               [] ~CleanedDelete(p) /\ ~Known(p)      -> "failed"
               [] ~CleanedDelete(p) /\ Known(p) /\ file[p] = Goal(p)
                                                      -> IF RollForward THEN "done" ELSE "source"
               [] OTHER -> IF file[p] # Absent THEN "unlink" ELSE "write")
    /\ UNCHANGED <<world, file, same, art, pack, log, extra, durable, phase, cursor>>

unlinkOriginal(p) ==
    /\ Here("normalize", p, "unlink")
    /\ file' = [file EXCEPT ![p] = Absent]
    /\ same' = [same EXCEPT ![p] = None]
    /\ Go(p, IF file[p] = Absent THEN "failed"
             ELSE IF Goal(p) = Absent THEN "source" ELSE "write")
    /\ UNCHANGED <<world, art, pack, log, extra, durable, phase, cursor>>

writeBytesExclusive(p) ==
    /\ Here("normalize", p, "write")
    /\ file' = IF file[p] = Absent THEN [file EXCEPT ![p] = Torn] ELSE file
    /\ Go(p, IF file[p] = Absent THEN "fill" ELSE "failed")
    /\ UNCHANGED <<world, same, art, pack, log, extra, durable, phase, cursor>>

\* What does not read back as written is removed.
materialize(p) ==
    /\ Here("normalize", p, "fill")
    /\ file' = [file EXCEPT ![p] = IF @ = Torn THEN Goal(p) ELSE Absent]
    /\ durable' = durable \cup {p}
    /\ Go(p, IF file[p] # Torn THEN "failed" ELSE IF RollForward THEN "mark" ELSE "source")
    /\ UNCHANGED <<world, same, art, pack, log, extra, phase, cursor>>

linkOwnershipMarker(p) ==
    /\ Here("normalize", p, "mark")
    /\ IF art[Target(p)] = Absent /\ file[p] # Absent
       THEN /\ art' = [art EXCEPT ![Target(p)] = file[p]]
            /\ same' = [same EXCEPT ![p] = Name(run.plan)]
            /\ Go(p, "done")
       ELSE UNCHANGED <<art, same>> /\ Go(p, "failed")
    /\ UNCHANGED <<world, file, pack, log, extra, durable, phase, cursor>>

\* The artifact of one role goes if it holds what the pack says.
cleanupArtifact(p) ==
    \E role \in {"source", "target"} :
       LET place == <<Name(run.plan), role, p>>
           fits  == art[place] \in {Absent, IF role = "source" THEN Before(p) ELSE After(p)}
       IN /\ run.pc \in {"normalize", "cleanup"} /\ run.at[p] = role
          /\ art' = IF fits THEN [art EXCEPT ![place] = Absent] ELSE art
          /\ Go(p, IF ~fits THEN "failed"
                   ELSE IF role = "source" /\ After(p) # Absent THEN "target" ELSE "done")
          /\ UNCHANGED <<world, file, same, pack, log, extra, durable, phase, cursor>>

\* The log after all paths are where they should be.
Advanced ==
    [p \in Paths |-> RecordOf(IF RollForward /\ log[p].state # "CLEANED"
                              THEN "TARGET_VERIFIED" ELSE "CLEANED")]

advanceNormalized ==
    /\ run.pc = "normalize" /\ Passed({"done"})
    /\ log' = Advanced
    /\ \/ run.use # "recovery" /\ GiveUp
       \/ /\ run.use = "recovery"
          /\ run' = At(IF RollForward THEN "finalize" ELSE "ordinary", "look")
          /\ UNCHANGED phase
    /\ UNCHANGED <<world, file, same, art, pack, extra, durable, cursor>>

\* Variant: a failure is reported when every path has been tried.
ConflictAtEnd ==
    /\ run.pc \in {"normalize", "cleanup"} /\ Failed
    /\ Passed({"done", "failed"})
    /\ GiveUp
    /\ UNCHANGED <<world, file, same, art, pack, log, extra, durable, cursor>>

\* Workers finish the path they are at; no path is begun after a failure.
Conflict ==
    /\ run.pc \in {"normalize", "cleanup"} /\ Failed
    /\ Passed({"look", "done", "failed"})
    /\ GiveUp
    /\ UNCHANGED <<world, file, same, art, pack, log, extra, durable, cursor>>

------------------------------------------------------------------------------
(* Finalization: sync what was installed while its marker is still there,  *)
(* beside the records; then remove the artifacts and close the records.    *)

Recorded == Len(log) = N /\ \A p \in Paths : log[p].state \in {"TARGET_VERIFIED", "CLEANED"}

materializePackedMutationJournal ==
    /\ run.pc = "finalize" /\ run.use = "commit" /\ ~Recorded
    /\ log' = IF Len(log) < N THEN Intended ELSE Advanced
    /\ UNCHANGED <<world, file, same, art, pack, extra, durable, phase, cursor, run>>

\* Only a recovery accepts a missing artifact, of a record already closed.
Missing(place, p) ==
    art[place] = Absent /\ run.use = "recovery" /\ log[p].state = "CLEANED"

Sealable(p) ==
    /\ file[p] = After(p)
    /\ IF After(p) = Absent
       THEN art[Source(p)] = Before(p) \/ Missing(Source(p), p)
       ELSE (art[Target(p)] # Absent /\ same[p] = Name(run.plan)) \/ Missing(Target(p), p)

\* Variant: what was installed is compared and not synced.
FinalizeUnsynced(p) ==
    /\ Here("finalize", p, "look")
    /\ IF Sealable(p) THEN Go(p, "sealed") ELSE run' = Locked
    /\ UNCHANGED <<world, file, same, art, pack, log, extra, durable, phase, cursor>>

finalizeDurablePack(p) ==
    /\ Here("finalize", p, "look")
    /\ IF Sealable(p) THEN Go(p, "sealed") /\ durable' = durable \cup {p}
       ELSE run' = Locked /\ UNCHANGED durable
    /\ UNCHANGED <<world, file, same, art, pack, log, extra, phase, cursor>>

Finalized ==
    /\ run.pc = "finalize" /\ Passed({"sealed"}) /\ Recorded
    /\ run' = At("cleanup", "look")
    /\ UNCHANGED <<world, file, same, art, pack, log, extra, durable, phase, cursor>>

Removable(p) ==
    IF After(p) = Absent THEN file[p] = Absent
    ELSE IF art[Target(p)] # Absent THEN same[p] = Name(run.plan)
    ELSE log[p].state = "CLEANED"

cleanupPackedMutations(p) ==
    /\ Here("cleanup", p, "look") /\ ~Failed
    /\ Go(p, IF Removable(p) THEN "source" ELSE "failed")
    /\ UNCHANGED <<world, file, same, art, pack, log, extra, durable, phase, cursor>>

Closed == [p \in Paths |-> RecordOf("CLEANED")]

CleanupDone ==
    /\ run.pc = "cleanup" /\ Passed({"done"})
    /\ log' = Closed
    /\ phase' = IF run.use = "commit" THEN "COMMITTED" ELSE phase
    /\ run' = At(IF run.use = "commit" THEN "settled" ELSE "ordinary", "look")
    /\ UNCHANGED <<world, file, same, art, pack, extra, durable, cursor>>

------------------------------------------------------------------------------
(* Recovery, and the ordinary apply it ends with.                          *)

\* Variant: an empty log is enough.
CompensatedByLog == ~cursor /\ log = <<>> /\ extra = "none"

isFullyCompensated == ~cursor /\ log = <<>> /\ extra = "none" /\ pack = None

\* The descriptor names the digest of the forward plan.  Without a pack the
\* records beyond it are recovered as in RestoreApply.
recoverMutations ==
    /\ IF isFullyCompensated
       THEN phase' = "ABORTED" /\ run' = [run EXCEPT !.pc = "settled"]
       ELSE /\ UNCHANGED phase
            /\ run' = IF pack = "back" THEN Locked
                      ELSE [At(IF pack = None THEN "ordinary" ELSE "intents", "look")
                              EXCEPT !.plan = "forward", !.use = "recovery"]
    /\ UNCHANGED <<world, file, same, art, pack, log, extra, durable, cursor>>

Restart      == run.pc = "dead" /\ recoverMutations
RecoverAgain == run.pc = "locked" /\ recoverMutations

Wanted == IF cursor THEN after ELSE before

\* A compensation refuses files it does not know; a recovery has captured them.
Unknown == run.use = "compensation" /\ \E p \in Paths : file[p] \notin {before[p], after[p]}

verifyKnownState ==
    /\ run.pc = "ordinary" /\ Unknown
    /\ run' = Locked
    /\ UNCHANGED <<world, file, same, art, pack, log, extra, durable, phase, cursor>>

BeginOrdinary ==
    /\ run.pc = "ordinary" /\ ~Unknown /\ file # Wanted
    /\ extra' = "active"
    /\ run' = [run EXCEPT !.pc = "applying"]
    /\ UNCHANGED <<world, file, same, art, pack, log, durable, phase, cursor>>

EndOrdinary ==
    /\ run.pc = "applying"
    /\ file' = Wanted
    /\ same' = [p \in Paths |-> IF file[p] = Wanted[p] THEN same[p] ELSE None]
    /\ durable' = durable \cup {p \in Paths : file[p] # Wanted[p]}
    /\ extra' = "cleaned"
    /\ run' = [run EXCEPT !.pc = "ordinary"]
    /\ UNCHANGED <<world, art, pack, log, phase, cursor>>

Settle ==
    /\ run.pc = "ordinary" /\ ~Unknown /\ file = Wanted
    /\ phase' = IF cursor THEN "COMMITTED" ELSE "ABORTED"
    /\ run' = [run EXCEPT !.pc = "settled"]
    /\ UNCHANGED <<world, file, same, art, pack, log, extra, durable, cursor>>

------------------------------------------------------------------------------
(* Faults.                                                                 *)

Working == run.pc \notin {"dead", "locked", "settled"}

\* The records a write under way would leave.
Writing ==
    CASE run.pc = "intents" /\ Matches                 -> Intended
      [] run.pc = "normalize" /\ Passed({"done"})      -> Advanced
      [] run.pc = "finalize" /\ run.use = "commit"     -> IF Len(log) < N THEN Intended ELSE Advanced
      [] run.pc = "cleanup" /\ Passed({"done"})        -> Closed
      [] OTHER                                         -> log

\* A crash keeps any prefix of the records being written; a power failure
\* also takes installed files that were not synced yet.
Crash ==
    /\ Working /\ Spend("crash")
    /\ \E n \in 0 .. Len(Writing) :
          log' = SubSeq(Writing, 1, n) \o SubSeq(log, n + 1, Len(log))
    /\ \E lost \in SUBSET (IF LosesPower THEN Paths \ durable ELSE {}) :
          /\ file' = [p \in Paths |-> IF p \in lost THEN Torn ELSE file[p]]
          /\ art' = [place \in Places |->
                        IF /\ art[place] # Absent /\ place[2] = "target"
                           /\ place[3] \in lost /\ same[place[3]] = place[1]
                        THEN Torn ELSE art[place]]
    /\ run' = [run EXCEPT !.pc = "dead"]
    /\ UNCHANGED <<before, after, others, same, pack, extra, durable, phase, cursor>>

\* Another program replaces or removes files.
Edit ==
    /\ Working /\ run.pc # "applying" /\ Spend("edit")
    /\ \E set \in (SUBSET Paths) \ {{}}, content \in {"other", Absent} :
          /\ file' = [p \in Paths |-> IF p \in set THEN content ELSE file[p]]
          /\ same' = [p \in Paths |-> IF p \in set THEN None ELSE same[p]]
          /\ durable' = durable \cup set
          /\ foreign' = foreign \cup set
          /\ raced' = raced \cup {p \in set : run.at[p] \in {"linked", "unlink", "fill"}}
    /\ UNCHANGED <<before, after, art, pack, log, extra, phase, cursor, run>>

------------------------------------------------------------------------------
HelperStep(p) ==
    \/ createTarget(p) \/ fillTarget(p) \/ verifyFile(p) \/ captureSource(p)
    \/ unlinkSource(p) \/ installTarget(p) \/ verifyInstalled(p)

RecoveryStep(p) ==
    \/ normalizeRecord(p) \/ unlinkOriginal(p) \/ writeBytesExclusive(p)
    \/ materialize(p) \/ linkOwnershipMarker(p) \/ cleanupArtifact(p)
    \/ finalizeDurablePack(p) \/ cleanupPackedMutations(p)

Program ==
    \/ StaleRecords \/ createDurablePack \/ UnlinkPack \/ publishCachedDurablePack
    \/ HelperFails \/ HelperSucceeds \/ CommitCursor
    \/ ensurePackedIntents \/ Mismatch \/ advanceNormalized \/ Conflict
    \/ materializePackedMutationJournal \/ Finalized \/ CleanupDone
    \/ Restart \/ verifyKnownState \/ BeginOrdinary \/ EndOrdinary \/ Settle
    \/ \E p \in Paths : HelperStep(p) \/ RecoveryStep(p)

Next ==
    \/ Program
    \/ removeDurablePack \/ HelperStops \/ RefuseCursor \/ RecoverAgain
    \/ Crash \/ Edit

Spec == Init /\ [][Next]_vars

\* The program keeps running, and a dead session is started again.
FairSpec == Spec /\ WF_vars(Program)

\* The same with a user who asks a locked session to recover again and again.
RecoveringSpec == FairSpec /\ WF_vars(RecoverAgain)
------------------------------------------------------------------------------
(* Properties.                                                             *)

PackedTypeOK ==
    LET Contents == {"old", "new", "other", Absent, Torn} IN
    /\ file \in [Paths -> Contents] /\ art \in [Places -> Contents]
    /\ same \in [Paths -> Names \cup {None}]
    /\ pack \in Plans \cup {None}
    /\ Len(log) <= N
    /\ log \in [DOMAIN log -> [plan : Plans, state : {"INTENT", "TARGET_VERIFIED", "CLEANED"}]]
    /\ extra \in {"none", "active", "cleaned"}
    /\ foreign \subseteq Paths /\ raced \subseteq foreign /\ durable \subseteq Paths
    /\ cursor \in BOOLEAN
    /\ run.plan \in Plans /\ run.use \in {"undo", "compensation", "commit", "recovery"}

NoArtifact == \A place \in Places : art[place] = Absent

\* A committed operation left every file at its target and on the disk, and
\* nothing beside it: finalization synced what cleanup then trusted.
CommittedIsTarget ==
    phase = "COMMITTED" /\ foreign = {} => file = after /\ durable = Paths /\ NoArtifact

\* An aborted operation left every file as it was and nothing beside it
\* (journal.ts isFullyCompensated, packed-recovery.ts cleanupPackedMutations).
\* Not so after a refused cursor: that compensation leaves the artifacts of
\* both packs.
AbortedIsSource ==
    phase = "ABORTED" /\ foreign = {} /\ spent["refusal"] = 0 => file = before /\ NoArtifact

Held(p) == file[p] = "other" \/ \E place \in Places : place[3] = p /\ art[place] = "other"

\* What another program wrote stays, in its place or as an artifact, unless it
\* came between a check and the step the check was for, or was captured by a
\* recovery.
ForeignFileKept ==
    [][\A p \in Paths : Held(p) =>
          Held(p)' \/ p \in raced \/ run.pc = "applying" \/ spent'["edit"] # spent["edit"]]_vars

\* Every artifact in the workspace is one the pack in the transaction's
\* directory names, so that somebody can still remove it.
ArtifactsNamed ==
    spent["refusal"] = 0 =>
        \A place \in Places : art[place] # Absent => pack # None /\ place[1] = Name(pack)

\* An operation with all its recoveries comes to an end.
PackedResolves == []<>(run.pc \in {"settled", "locked"})

\* An operation whose helper was stopped is settled in the end.
CancelledSettles == spent["stop"] > 0 ~> run.pc = "settled"

\* An operation whose cursor is durable is settled in the end, also when the
\* program is stopped on the way.
CommittedSettles == cursor ~> run.pc = "settled"
=============================================================================
