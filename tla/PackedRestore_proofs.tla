------------------------ MODULE PackedRestore_proofs ------------------------
(***************************************************************************)
(* What PackedRestore promises for any number of paths, any packs prepared *)
(* in advance and any number of faults of each kind: all its safety        *)
(* properties.                                                             *)
(*                                                                         *)
(* PackedInv makes a path's stage tell what is at the places its next step *)
(* touches (StageInv), and every foreign content durable (SyncInv), so that*)
(* a power loss takes ours only: what another program wrote is kept.       *)
(*                                                                         *)
(* NameInv holds while no cursor was refused: a pack is replaced only when *)
(* nothing of the other one is left, or records are left that stop it, so  *)
(* every artifact has the name of the pack that is there.                  *)
(*                                                                         *)
(* FileInv holds while no cursor was refused and nobody else wrote: it says*)
(* what each stage of a rollback, a finalization and an ordinary apply     *)
(* leaves, up to what a committed or aborted operation ends with.          *)
(***************************************************************************)
EXTENDS PackedRestore, SequenceTheorems, TLAPS

Everything == {"old", "new", "other", Absent, Torn}
Record == [plan : Plans, state : {"INTENT", "TARGET_VERIFIED", "CLEANED"}]

\* Stages of the helper from its first write on, the stages at which a path is
\* about to be overwritten or removed, and the others.
Helping == {"filling"} \cup Created
Touching == {"linked", "unlink", "fill"}
Idle == {"new", "look", "failed", "source", "target", "write", "mark", "done", "sealed"}
Stages == Idle \cup Touching \cup Helping
RunType ==
  [pc : {"publish", "link", "helper", "verified", "intents", "normalize", "finalize",
         "cleanup", "ordinary", "applying", "settled", "dead", "locked"},
   plan : Plans, use : {"undo", "compensation", "commit", "recovery"},
   at : [Paths -> Stages]]

Shape ==
  /\ before \in [Paths -> {"old", Absent}] /\ after \in [Paths -> {"new", Absent}]
  /\ run \in RunType
  /\ log \in Seq(Record) /\ Len(log) <= N
  /\ spent \in [Faults -> Nat]

Disk ==
  /\ file \in [Paths -> Everything] /\ art \in [Places -> Everything]
  /\ same \in [Paths -> Names \cup {None}]
  /\ durable \subseteq Paths

Flags ==
  /\ pack \in Plans \cup {None} /\ extra \in {"none", "active", "cleaned"}
  /\ cursor \in BOOLEAN
  /\ foreign \subseteq Paths /\ raced \subseteq foreign

StageInv(p) ==
  /\ file[p] = "other" /\ run.at[p] \in Touching => p \in raced
  /\ run.at[p] = "seen" => art[Source(p)] # "other"
  /\ run.at[p] \in Helping => art[Target(p)] # "other"

SyncInv(p) ==
  /\ file[p] = "other" => p \in durable
  /\ \A name \in Names :
       art[<<name, "target", p>>] = "other" /\ same[p] = name => p \in durable

PackedInv ==
  /\ Shape /\ Disk /\ Flags
  /\ \A p \in Paths : StageInv(p) /\ SyncInv(p)

\* The step ForeignFileKept speaks of.
Kept ==
  \A p \in Paths : Held(p) =>
    Held(p)' \/ p \in raced \/ run.pc = "applying" \/ spent'["edit"] # spent["edit"]

-----------------------------------------------------------------------------

\* The contents of the two snapshots (createDurablePack's before and after) are
\* never a foreign one.
LEMMA Snapshots ==
  ASSUME Shape, NEW p \in Paths
  PROVE  /\ Before(p) \in {"old", "new", Absent} /\ After(p) \in {"old", "new", Absent}
         /\ Goal(p) \in {"old", "new", Absent}
         /\ Before(p) # "other" /\ After(p) # "other" /\ Goal(p) # "other"
BY PackedAssumption DEF Shape, Before, After, Goal, From, To

\* The artifacts of a path, named after the operation or its cache entry, are
\* among the places.
LEMMA ArtifactPlaces ==
  ASSUME run \in RunType, NEW p \in Paths
  PROVE  /\ Name(run.plan) \in Names /\ Name(run.plan) # None
         /\ Source(p) \in Places /\ Target(p) \in Places
         /\ Source(p) = <<Name(run.plan), "source", p>>
         /\ Target(p) = <<Name(run.plan), "target", p>>
BY PackedAssumption DEF RunType, Name, Names, Source, Target, Places

\* A step of one path leaves the other paths where they are.
LEMMA GoFields ==
  ASSUME run \in RunType, NEW p \in Paths, NEW where \in Stages, Go(p, where)
  PROVE  /\ run' \in RunType /\ run'.plan = run.plan /\ run'.pc = run.pc
         /\ run'.use = run.use
         /\ run'.at[p] = where
         /\ \A q \in Paths \ {p} : run'.at[q] = run.at[q]
BY DEF Go, RunType

\* The log of a stopped or failed write is a prefix of the new one followed by
\* the rest of the old one (ensurePackedIntents, advanceNormalized).
LEMMA PartialLog ==
  ASSUME NEW s \in Seq(Record), NEW t \in Seq(Record), Len(s) <= N, Len(t) <= N,
         NEW n \in 0 .. Len(t)
  PROVE  LET u == SubSeq(t, 1, n) \o SubSeq(s, n + 1, Len(s))
         IN  u \in Seq(Record) /\ Len(u) <= N
<1> DEFINE front == SubSeq(t, 1, n)
           rest == SubSeq(s, n + 1, Len(s))
<1>1. front \in Seq(Record) /\ Len(front) = n
  OBVIOUS
<1>2. rest \in Seq(Record) /\ (Len(rest) = 0 \/ Len(rest) = Len(s) - n)
  <2>1. CASE n < Len(s) BY <2>1
  <2>2. CASE n >= Len(s) BY <2>2
  <2>3. QED BY <2>1, <2>2
<1>3. n <= N /\ n \in Nat /\ N \in Nat BY PackedAssumption
<1> HIDE DEF front, rest
<1>4. front \o rest \in Seq(Record) /\ Len(front \o rest) = Len(front) + Len(rest)
  BY <1>1, <1>2, ConcatProperties
<1>5. Len(front \o rest) <= N BY <1>1, <1>2, <1>3, <1>4
<1>6. QED BY <1>4, <1>5 DEF front, rest

\* A whole log has one record for every path of the pack.
LEMMA WholeLog ==
  ASSUME NEW f \in [Paths -> Record]
  PROVE  f \in Seq(Record) /\ Len(f) = N
<1>1. N \in Nat BY PackedAssumption
<1>2. f \in Seq(Record) BY <1>1 DEF Paths
<1>3. QED BY <1>1, <1>2 DEF Paths

\* Intents, advanced records and closed records are whole logs.
LEMMA Logs ==
  ASSUME Shape
  PROVE  /\ Intended \in Seq(Record) /\ Len(Intended) <= N
         /\ Advanced \in Seq(Record) /\ Len(Advanced) <= N
         /\ Closed \in Seq(Record) /\ Len(Closed) <= N
<1>1. \A state \in {"INTENT", "TARGET_VERIFIED", "CLEANED"} : RecordOf(state) \in Record
  BY DEF RecordOf, Record, Shape, RunType
<1>2. \A i \in DOMAIN log : log[i] \in Record BY DEF Shape
<1>3. Intended \in [Paths -> Record] BY <1>1, <1>2 DEF Intended
<1>4. Advanced \in [Paths -> Record] BY <1>1 DEF Advanced
<1>5. Closed \in [Paths -> Record] BY <1>1 DEF Closed
<1>6. N <= N BY PackedAssumption
<1>7. QED BY <1>3, <1>4, <1>5, <1>6, WholeLog

\* PackedInv contains the type invariant the runs check.
LEMMA PackedTyped == PackedInv => PackedTypeOK
<1> SUFFICES ASSUME PackedInv PROVE PackedTypeOK OBVIOUS
<1>1. log \in [DOMAIN log -> Record] BY DEF PackedInv, Shape
<1>2. Len(log) <= N BY DEF PackedInv, Shape
<1>3. run.plan \in Plans /\ run.use \in {"undo", "compensation", "commit", "recovery"}
  BY DEF PackedInv, Shape, RunType
<1>4. QED
  BY <1>1, <1>2, <1>3 DEF PackedTypeOK, PackedInv, Disk, Flags, Everything, Record

\* The first state is the workspace at the source, with no pack.
LEMMA PackedInit == Init => PackedInv
<1> SUFFICES ASSUME Init PROVE PackedInv OBVIOUS
<1>1. Shape
  <2>1. run \in RunType BY DEF Init, RunType, Stages, Idle, Plans
  <2>2. log \in Seq(Record) /\ Len(log) <= N BY PackedAssumption DEF Init
  <2>3. spent \in [Faults -> Nat] BY DEF Init
  <2>4. QED BY <2>1, <2>2, <2>3 DEF Shape, Init
<1>2. Disk
  <2>1. file \in [Paths -> Everything] BY DEF Init, Everything
  <2>2. art \in [Places -> Everything] BY DEF Init, Everything
  <2>3. QED BY <2>1, <2>2 DEF Disk, Init
<1>3. Flags BY DEF Flags, Init
<1>4. \A p \in Paths : StageInv(p) /\ SyncInv(p)
  BY PackedAssumption DEF Init, StageInv, SyncInv, Helping, Touching, Created
<1>5. QED BY <1>1, <1>2, <1>3, <1>4 DEF PackedInv

-----------------------------------------------------------------------------
(* Steps that leave the workspace and the artifacts alone.                   *)

Still == UNCHANGED <<before, after, file, same, art, durable, foreign, raced>>
WellFormed ==
  /\ run' \in RunType /\ log' \in Seq(Record) /\ Len(log') <= N
  /\ spent' \in [Faults -> Nat]
  /\ pack' \in Plans \cup {None} /\ extra' \in {"none", "active", "cleaned"}
  /\ cursor' \in BOOLEAN

\* The program moves on: paths stay at their step, or are at an idle one.
Turn ==
  \/ run'.plan = run.plan /\ \A p \in Paths : run'.at[p] \in Idle \cup {run.at[p]}
  \/ \A p \in Paths : run'.at[p] \in Idle

\* A step that touches no file (publication, normalization's classification,
\* the cursor) keeps the invariant when the stages agree.
LEMMA StillStep ==
  ASSUME PackedInv, Still, WellFormed, \A p \in Paths : StageInv(p)'
  PROVE  PackedInv' /\ Kept
<1>1. Shape' /\ Disk' /\ Flags'
  BY DEF PackedInv, Shape, Disk, Flags, Still, WellFormed
<1>2. \A p \in Paths : SyncInv(p)' BY DEF PackedInv, SyncInv, Still
<1>3. Kept BY DEF Kept, Held, Still
<1>4. QED BY <1>1, <1>2, <1>3 DEF PackedInv

\* A control step takes no path to a stage at which it is about to touch a file.
LEMMA ControlStep ==
  ASSUME PackedInv, Still, WellFormed, Turn
  PROVE  PackedInv' /\ Kept
<1>1. ASSUME NEW p \in Paths PROVE StageInv(p)'
  <2>1. StageInv(p) BY DEF PackedInv
  <2>2. CASE run'.at[p] \in Idle
    BY <2>2 DEF StageInv, Idle, Touching, Helping, Created
  <2>3. CASE run'.at[p] = run.at[p] /\ run'.plan = run.plan
    BY <2>1, <2>3 DEF StageInv, Still, Source, Target, Name
  <2>4. QED BY <2>2, <2>3 DEF Turn
<1>2. QED BY <1>1, StillStep

\* Locked, and back to a compensation: what a failure makes of the program
\* (controller.ts lockAfterFailure and the compensation of a failed apply).
LEMMA GivingUp ==
  ASSUME run \in RunType, GiveUp \/ run' = Locked \/ Compensating
  PROVE  run' \in RunType /\ Turn
<1>1. CASE run' = Locked
  <2>1. run' \in RunType BY <1>1 DEF RunType, Locked
  <2>2. run'.at = run.at /\ run'.plan = run.plan BY <1>1 DEF RunType, Locked
  <2>3. QED BY <2>1, <2>2 DEF Turn
<1>2. CASE Compensating
  <2>1. run' \in RunType BY <1>2 DEF Compensating, At, RunType, Plans, Stages, Idle
  <2>2. run'.at = [p \in Paths |-> "new"] BY <1>2 DEF Compensating, At, RunType
  <2>3. QED BY <2>1, <2>2 DEF Turn, Idle
<1>3. QED BY <1>1, <1>2 DEF GiveUp

\* The start of a stage of the program, as a step.
LEMMA Starting ==
  ASSUME run \in RunType, NEW pc, NEW where \in Idle, run' = At(pc, where),
         pc \in {"publish", "link", "helper", "verified", "intents", "normalize", "finalize",
                 "cleanup", "ordinary", "applying", "settled", "dead", "locked"}
  PROVE  run' \in RunType /\ Turn
<1>1. run' \in RunType BY DEF At, RunType, Stages
<1>2. run'.at = [p \in Paths |-> where] BY DEF At, RunType
<1>3. QED BY <1>1, <1>2 DEF Turn

\* Another place in the program, every path where it was.
LEMMA Moving ==
  ASSUME run \in RunType, NEW pc, run' = [run EXCEPT !.pc = pc],
         pc \in {"publish", "link", "helper", "verified", "intents", "normalize", "finalize",
                 "cleanup", "ordinary", "applying", "settled", "dead", "locked"}
  PROVE  run' \in RunType /\ Turn
<1>1. run' \in RunType BY DEF RunType
<1>2. run'.at = run.at /\ run'.plan = run.plan BY DEF RunType
<1>3. QED BY <1>1, <1>2 DEF Turn

\* A fault that is spent is counted.
LEMMA Spending ==
  ASSUME spent \in [Faults -> Nat], NEW fault \in Faults, Spend(fault)
  PROVE  spent' \in [Faults -> Nat] /\ spent'[fault] = spent[fault] + 1
BY DEF Spend

Control ==
  \/ StaleRecords \/ createDurablePack \/ UnlinkPack \/ publishCachedDurablePack
  \/ removeDurablePack \/ HelperFails \/ HelperStops \/ HelperSucceeds
  \/ CommitCursor \/ RefuseCursor \/ ensurePackedIntents \/ Mismatch
  \/ advanceNormalized \/ Conflict \/ materializePackedMutationJournal
  \/ Finalized \/ CleanupDone \/ Restart \/ RecoverAgain
  \/ verifyKnownState \/ BeginOrdinary \/ Settle

\* Every step of the program that reads the workspace and touches no file:
\* publication, the ends of the helper, the cursor, the records of a recovery,
\* its verdicts, and the beginning and end of an ordinary apply.
LEMMA ControlSteps ==
  ASSUME PackedInv, Control
  PROVE  PackedInv' /\ Kept
<1>1. run \in RunType /\ log \in Seq(Record) /\ Len(log) <= N /\ spent \in [Faults -> Nat]
  BY DEF PackedInv, Shape
<1>2. Flags BY DEF PackedInv
<1>3. pack' \in Plans \cup {None} /\ extra' \in {"none", "active", "cleaned"} /\ cursor' \in BOOLEAN
  BY <1>2, <1>1 DEF Control, Flags, RunType, world, recoverMutations, StaleRecords,
      createDurablePack, UnlinkPack, publishCachedDurablePack, removeDurablePack,
      HelperFails, HelperStops, HelperSucceeds, CommitCursor, RefuseCursor,
      ensurePackedIntents, Mismatch, advanceNormalized, Conflict,
      materializePackedMutationJournal, Finalized, CleanupDone, Restart, RecoverAgain,
      verifyKnownState, BeginOrdinary, Settle
<1>4. log' \in Seq(Record) /\ Len(log') <= N
  BY <1>1, Logs DEF Control, PackedInv, world, recoverMutations, StaleRecords,
      createDurablePack, UnlinkPack, publishCachedDurablePack, removeDurablePack,
      HelperFails, HelperStops, HelperSucceeds, CommitCursor, RefuseCursor,
      ensurePackedIntents, Mismatch, advanceNormalized, Conflict,
      materializePackedMutationJournal, Finalized, CleanupDone, Restart, RecoverAgain,
      verifyKnownState, BeginOrdinary, Settle
<1>5. spent' \in [Faults -> Nat]
  BY <1>1 DEF Control, world, Spend, recoverMutations, StaleRecords, createDurablePack,
      UnlinkPack, publishCachedDurablePack, removeDurablePack, HelperFails, HelperStops,
      HelperSucceeds, CommitCursor, RefuseCursor, ensurePackedIntents, Mismatch,
      advanceNormalized, Conflict, materializePackedMutationJournal, Finalized,
      CleanupDone, Restart, RecoverAgain, verifyKnownState, BeginOrdinary, Settle
<1>6. run' \in RunType /\ Turn
  <2>1. CASE StaleRecords \/ verifyKnownState
    BY <1>1, <2>1, GivingUp DEF StaleRecords, verifyKnownState
  <2>2. CASE createDurablePack \/ UnlinkPack \/ publishCachedDurablePack \/ removeDurablePack
    BY <1>1, <2>2, Starting
       DEF createDurablePack, UnlinkPack, publishCachedDurablePack, removeDurablePack, Idle
  <2>3. CASE HelperFails \/ HelperStops
    BY <1>1, <2>3, Starting DEF HelperFails, HelperStops, Idle
  <2>4. CASE HelperSucceeds
    BY <1>1, <2>4, GivingUp, Moving DEF HelperSucceeds
  <2>5. CASE CommitCursor
    <3>1. run' \in RunType /\ run'.at = [p \in Paths |-> "look"]
      BY <1>1, <2>5 DEF CommitCursor, At, RunType, Stages, Idle
    <3>2. QED BY <3>1 DEF Turn, Idle
  <2>6. CASE RefuseCursor BY <1>1, <2>6, GivingUp DEF RefuseCursor
  <2>7. CASE ensurePackedIntents \/ Finalized
    BY <1>1, <2>7, Starting DEF ensurePackedIntents, Finalized, Idle
  <2>8. CASE Mismatch \/ Conflict BY <1>1, <2>8, GivingUp DEF Mismatch, Conflict
  <2>9. CASE advanceNormalized
    <3>1. CASE GiveUp BY <1>1, <3>1, GivingUp
    <3>2. CASE run' = At(IF RollForward THEN "finalize" ELSE "ordinary", "look")
      BY <1>1, <3>2, Starting DEF Idle
    <3>3. QED BY <2>9, <3>1, <3>2 DEF advanceNormalized
  <2>10. CASE materializePackedMutationJournal
    BY <1>1, <2>10 DEF materializePackedMutationJournal, Turn
  <2>11. CASE CleanupDone
    <3>1. run' = At(IF run.use = "commit" THEN "settled" ELSE "ordinary", "look")
      BY <2>11 DEF CleanupDone
    <3>2. QED BY <1>1, <3>1, Starting DEF Idle
  <2>12. CASE Restart \/ RecoverAgain
    <3>1. CASE run' = [run EXCEPT !.pc = "settled"] BY <1>1, <3>1, Moving
    <3>2. CASE run' = Locked BY <1>1, <3>2, GivingUp
    <3>3. CASE run' = [At(IF pack = None THEN "ordinary" ELSE "intents", "look")
                         EXCEPT !.plan = "forward", !.use = "recovery"]
      <4>1. run' \in RunType /\ run'.at = [p \in Paths |-> "look"]
        BY <1>1, <3>3 DEF At, RunType, Stages, Idle, Plans
      <4>2. QED BY <4>1 DEF Turn, Idle
    <3>4. QED BY <2>12, <3>1, <3>2, <3>3 DEF Restart, RecoverAgain, recoverMutations
  <2>13. CASE BeginOrdinary \/ Settle
    BY <1>1, <2>13, Moving DEF BeginOrdinary, Settle
  <2>14. QED
    BY <2>1, <2>2, <2>3, <2>4, <2>5, <2>6, <2>7, <2>8, <2>9, <2>10, <2>11, <2>12, <2>13
       DEF Control
<1>7. Still
  BY DEF Control, Still, world, others, recoverMutations, StaleRecords,
      createDurablePack, UnlinkPack, publishCachedDurablePack, removeDurablePack,
      HelperFails, HelperStops, HelperSucceeds, CommitCursor, RefuseCursor,
      ensurePackedIntents, Mismatch, advanceNormalized, Conflict,
      materializePackedMutationJournal, Finalized, CleanupDone, Restart, RecoverAgain,
      verifyKnownState, BeginOrdinary, Settle
<1>8. QED BY <1>3, <1>4, <1>5, <1>6, <1>7, ControlStep DEF WellFormed

-----------------------------------------------------------------------------
(* Steps of one path.                                                        *)

\* Nothing but the path's own file and artifacts is touched.
Local(p) ==
  /\ UNCHANGED <<before, after, foreign, raced, pack, log, extra, cursor, spent>>
  /\ Disk'
  /\ \A q \in Paths \ {p} :
        file'[q] = file[q] /\ same'[q] = same[q] /\ (q \in durable' <=> q \in durable)
  /\ \A place \in Places : place[3] # p => art'[place] = art[place]

\* The steps of two paths do not meet: each has its own file and artifacts
\* (durable-pack.ts artifact names), so a step needs a look at its path only.
LEMMA PathStep ==
  ASSUME PackedInv, NEW p \in Paths, NEW where \in Stages, Go(p, where), Local(p),
         StageInv(p)', SyncInv(p)', Held(p) => Held(p)' \/ p \in raced
  PROVE  PackedInv' /\ Kept
<1>1. /\ run \in RunType /\ run' \in RunType /\ run'.plan = run.plan
      /\ \A q \in Paths \ {p} : run'.at[q] = run.at[q]
  BY GoFields DEF PackedInv, Shape
<1>2. Shape' /\ Disk' /\ Flags'
  BY <1>1 DEF PackedInv, Shape, Flags, Local
<1>3. ASSUME NEW q \in Paths \ {p} PROVE StageInv(q)' /\ SyncInv(q)'
  <2>1. StageInv(q) /\ SyncInv(q) BY DEF PackedInv
  <2>2. \A name \in Names, role \in {"source", "target"} :
          /\ <<name, role, q>> \in Places
          /\ art'[<<name, role, q>>] = art[<<name, role, q>>]
    BY DEF Places, Local
  <2>3. Source(q)' = Source(q) /\ Target(q)' = Target(q)
    BY <1>1 DEF Source, Target, Name
  <2>4. art'[Source(q)] = art[Source(q)] /\ art'[Target(q)] = art[Target(q)]
    BY <1>1, <2>2, ArtifactPlaces
  <2>5. StageInv(q)' BY <1>1, <2>1, <2>3, <2>4 DEF StageInv, Local
  <2>6. SyncInv(q)' BY <2>1, <2>2 DEF SyncInv, Local
  <2>7. QED BY <2>5, <2>6
<1>4. ASSUME NEW q \in Paths \ {p}, Held(q) PROVE Held(q)'
  BY <1>4 DEF Held, Local
<1>5. Kept BY <1>4 DEF Kept
<1>6. \A q \in Paths : StageInv(q)' /\ SyncInv(q)' BY <1>3
<1>7. QED BY <1>2, <1>5, <1>6 DEF PackedInv

\* What a step may rely on about its own path.
LEMMA PathFacts ==
  ASSUME PackedInv, NEW p \in Paths
  PROVE  /\ run \in RunType /\ Disk /\ StageInv(p) /\ SyncInv(p)
         /\ Name(run.plan) \in Names /\ Name(run.plan) # None
         /\ Source(p) \in Places /\ Target(p) \in Places
         /\ Source(p) = <<Name(run.plan), "source", p>>
         /\ Target(p) = <<Name(run.plan), "target", p>>
         /\ Before(p) \in Everything \ {"other"} /\ After(p) \in Everything \ {"other"}
         /\ Goal(p) \in Everything \ {"other"}
         /\ Absent # "other" /\ Torn # "other"
BY ArtifactPlaces, Snapshots, PackedAssumption DEF PackedInv, Shape, Everything

\* A step of a path takes the plan, and so the names of the artifacts, along.
LEMMA SamePlaces ==
  ASSUME run'.plan = run.plan, NEW p
  PROVE  Source(p)' = Source(p) /\ Target(p)' = Target(p)
BY DEF Source, Target, Name

\* createTarget opens a target artifact where none was, so what it overwrites
\* is nothing.
LEMMA CreateTargetStep ==
  ASSUME PackedInv, NEW p \in Paths, createTarget(p)
  PROVE  PackedInv' /\ Kept
<1> USE PathFacts
<1> DEFINE where == IF After(p) = Absent THEN "created" ELSE "filling"
<1>1. Go(p, where) BY DEF createTarget
<1>2. where \in Stages BY DEF Stages, Helping, Created
<1>3. run'.plan = run.plan /\ run'.at[p] = where BY <1>1, <1>2, GoFields
<1>4. art[Target(p)] = Absent /\ art' \in [Places -> Everything]
      /\ (art' = art \/ art' = [art EXCEPT ![Target(p)] = Torn])
  BY DEF createTarget, Disk, Everything
<1>5. Local(p) BY <1>4 DEF createTarget, Local, world, others, Disk
<1>6. StageInv(p)'
  BY <1>3, <1>4, SamePlaces DEF createTarget, StageInv, Touching, Disk
<1>7. SyncInv(p)' BY <1>4 DEF createTarget, SyncInv, Disk, Places
<1>8. Held(p) => Held(p)' BY <1>4 DEF createTarget, Held, Disk
<1>9. QED BY <1>1, <1>2, <1>5, <1>6, <1>7, <1>8, PathStep

\* fillTarget writes an artifact this helper created.
LEMMA FillTargetStep ==
  ASSUME PackedInv, NEW p \in Paths, fillTarget(p)
  PROVE  PackedInv' /\ Kept
<1> USE PathFacts
<1>1. Go(p, "created") /\ run.at[p] = "filling" BY DEF fillTarget, Here
<1>2. "created" \in Stages BY DEF Stages, Helping, Created
<1>3. run'.plan = run.plan /\ run'.at[p] = "created" BY <1>1, <1>2, GoFields
<1>4. art[Target(p)] # "other" BY <1>1 DEF StageInv, Helping
<1>5. art' = [art EXCEPT ![Target(p)] = After(p)] BY DEF fillTarget
<1>6. Local(p) BY <1>5 DEF fillTarget, Local, world, others, Disk
<1>7. StageInv(p)' BY <1>3, <1>5, SamePlaces DEF fillTarget, StageInv, Touching, Disk
<1>8. SyncInv(p)' BY <1>5 DEF fillTarget, SyncInv, Disk, Places
<1>9. Held(p) => Held(p)' BY <1>4, <1>5 DEF fillTarget, Held, Disk
<1>10. QED BY <1>1, <1>2, <1>6, <1>7, <1>8, <1>9, PathStep

\* verifyFile goes on only when no source artifact is in the way.
LEMMA VerifyFileStep ==
  ASSUME PackedInv, NEW p \in Paths, verifyFile(p)
  PROVE  PackedInv' /\ Kept
<1> USE PathFacts
<1> DEFINE where == IF Before(p) = Absent THEN "captured" ELSE "seen"
<1>1. Go(p, where) /\ run.at[p] = "created" /\ art[Source(p)] = Absent
  BY DEF verifyFile, Here
<1>2. where \in Stages BY DEF Stages, Helping, Created
<1>3. run'.plan = run.plan /\ run'.at[p] = where BY <1>1, <1>2, GoFields
<1>4. art[Target(p)] # "other" BY <1>1 DEF StageInv, Helping, Created
<1>5. Local(p) BY DEF verifyFile, Local, world, others, Disk
<1>6. StageInv(p)' BY <1>1, <1>3, <1>4, SamePlaces DEF verifyFile, StageInv, Touching
<1>7. SyncInv(p)' /\ (Held(p) => Held(p)') BY DEF verifyFile, SyncInv, Held
<1>8. QED BY <1>1, <1>2, <1>5, <1>6, <1>7, PathStep

\* captureSource moves whatever it finds to a free name; only what is as it was
\* seen is going to be unlinked.
LEMMA CaptureSourceStep ==
  ASSUME PackedInv, NEW p \in Paths, captureSource(p)
  PROVE  PackedInv' /\ Kept
<1> USE PathFacts
<1> DEFINE where == IF file[p] # Before(p) THEN "moved"
                    ELSE IF After(p) = Absent THEN "linked" ELSE "captured"
<1>1. Go(p, where) /\ run.at[p] = "seen" BY DEF captureSource, Here
<1>2. where \in Stages BY DEF Stages, Helping, Created
<1>3. run'.plan = run.plan /\ run'.at[p] = where BY <1>1, <1>2, GoFields
<1>4. art[Target(p)] # "other" /\ art[Source(p)] # "other"
  BY <1>1 DEF StageInv, Helping, Created
<1>5. /\ art' = [art EXCEPT ![Source(p)] = file[p]]
      /\ file' = file \/ file' = [file EXCEPT ![p] = Absent]
      /\ same' = [same EXCEPT ![p] = None]
  BY DEF captureSource
<1>6. art'[Target(p)] = art[Target(p)] BY <1>5 DEF Disk
<1>7. Disk' BY <1>5 DEF Disk, Everything, captureSource
<1>8. Local(p) BY <1>5, <1>7 DEF captureSource, Local, world, others, Disk
<1>9. StageInv(p)'
  BY <1>3, <1>4, <1>5, <1>6, SamePlaces DEF StageInv, Touching, Disk
<1>10. SyncInv(p)'
  BY <1>5, PackedAssumption DEF captureSource, SyncInv, Disk, Places
<1>11. Held(p) => Held(p)'
  <2>1. CASE file[p] = "other" BY <2>1, <1>5 DEF Held, Disk, Places
  <2>2. CASE file[p] # "other" BY <2>2, <1>4, <1>5 DEF Held, Disk
  <2>3. QED BY <2>1, <2>2
<1>12. QED BY <1>1, <1>2, <1>8, <1>9, <1>10, <1>11, PathStep

\* unlinkSource removes a file that was linked to its artifact as seen; a foreign
\* one there was put behind that check.
LEMMA UnlinkSourceStep ==
  ASSUME PackedInv, NEW p \in Paths, unlinkSource(p)
  PROVE  PackedInv' /\ Kept
<1> USE PathFacts
<1>1. Go(p, "captured") /\ run.at[p] = "linked" BY DEF unlinkSource, Here
<1>2. "captured" \in Stages BY DEF Stages, Helping, Created
<1>3. run'.plan = run.plan /\ run'.at[p] = "captured" BY <1>1, <1>2, GoFields
<1>4. art[Target(p)] # "other" /\ (file[p] = "other" => p \in raced)
  BY <1>1 DEF StageInv, Helping, Created, Touching
<1>5. file' = [file EXCEPT ![p] = Absent] BY DEF unlinkSource
<1>6. Local(p) BY <1>5 DEF unlinkSource, Local, world, others, Disk, Everything
<1>7. StageInv(p)'
  BY <1>3, <1>4, SamePlaces DEF unlinkSource, StageInv, Touching
<1>8. SyncInv(p)' BY <1>5 DEF unlinkSource, SyncInv, Disk
<1>9. Held(p) => Held(p)' \/ p \in raced BY <1>4 DEF unlinkSource, Held
<1>10. QED BY <1>1, <1>2, <1>6, <1>7, <1>8, <1>9, PathStep

\* installTarget links where there is no file.
LEMMA InstallTargetStep ==
  ASSUME PackedInv, NEW p \in Paths, installTarget(p)
  PROVE  PackedInv' /\ Kept
<1> USE PathFacts
<1>1. Go(p, "installed") /\ run.at[p] = "captured" BY DEF installTarget, Here
<1>2. "installed" \in Stages BY DEF Stages, Helping, Created
<1>3. run'.plan = run.plan /\ run'.at[p] = "installed" BY <1>1, <1>2, GoFields
<1>4. art[Target(p)] # "other" BY <1>1 DEF StageInv, Helping, Created
<1>5. \/ UNCHANGED <<file, same, durable>>
      \/ /\ file[p] = Absent /\ file' = [file EXCEPT ![p] = After(p)]
         /\ same' = [same EXCEPT ![p] = Name(run.plan)]
         /\ durable' = durable \ {p}
  BY DEF installTarget
<1>6. Disk' BY <1>5, ZenonT(60) DEF Disk, installTarget
<1>7. Local(p) BY <1>5, <1>6 DEF installTarget, Local, world, others, Disk
<1>8. StageInv(p)'
  BY <1>3, <1>4, SamePlaces DEF installTarget, StageInv, Touching
<1>9. SyncInv(p)' BY <1>4, <1>5 DEF installTarget, SyncInv, Disk
<1>10. Held(p) => Held(p)' BY <1>5 DEF installTarget, Held, Disk
<1>11. QED BY <1>1, <1>2, <1>7, <1>8, <1>9, <1>10, PathStep

\* verifyInstalled reads.
LEMMA VerifyInstalledStep ==
  ASSUME PackedInv, NEW p \in Paths, verifyInstalled(p)
  PROVE  PackedInv' /\ Kept
<1> USE PathFacts
<1>1. Go(p, "checked") /\ run.at[p] = "installed" BY DEF verifyInstalled, Here
<1>2. "checked" \in Stages BY DEF Stages, Helping, Created
<1>3. run'.plan = run.plan /\ run'.at[p] = "checked" BY <1>1, <1>2, GoFields
<1>4. art[Target(p)] # "other" BY <1>1 DEF StageInv, Helping, Created
<1>5. Local(p) BY DEF verifyInstalled, Local, world, others, Disk
<1>6. StageInv(p)'
  BY <1>3, <1>4, SamePlaces DEF verifyInstalled, StageInv, Touching
<1>7. SyncInv(p)' /\ (Held(p) => Held(p)') BY DEF verifyInstalled, SyncInv, Held
<1>8. QED BY <1>1, <1>2, <1>5, <1>6, <1>7, PathStep

\* A recovery plans to remove a file only when it is one the pack knows.
LEMMA NormalizeRecordStep ==
  ASSUME PackedInv, NEW p \in Paths, normalizeRecord(p)
  PROVE  PackedInv' /\ Kept
<1> USE PathFacts
<1>1. PICK where \in {"done", "failed", "source", "unlink", "write"} :
        Go(p, where) /\ (where = "unlink" => Known(p))
  <2>1. CASE CleanedDelete(p) BY <2>1 DEF normalizeRecord
  <2>2. CASE ~CleanedDelete(p) /\ ~Known(p) BY <2>2 DEF normalizeRecord
  <2>3. CASE ~CleanedDelete(p) /\ Known(p) BY <2>3 DEF normalizeRecord
  <2>4. QED BY <2>1, <2>2, <2>3
<1>2. where \in Stages BY DEF Stages, Idle, Touching
<1>3. run'.plan = run.plan /\ run'.at[p] = where BY <1>1, <1>2, GoFields
<1>4. where = "unlink" => file[p] # "other" BY <1>1 DEF Known
<1>5. Local(p) BY DEF normalizeRecord, Local, world, others, Disk
<1>6. StageInv(p)'
  BY <1>3, <1>4, SamePlaces DEF normalizeRecord, StageInv, Touching, Helping, Created
<1>7. SyncInv(p)' /\ (Held(p) => Held(p)') BY DEF normalizeRecord, SyncInv, Held
<1>8. QED BY <1>1, <1>2, <1>5, <1>6, <1>7, PathStep

\* unlinkOriginal removes a file that was known; a foreign one there was put
\* behind that check.
LEMMA UnlinkOriginalStep ==
  ASSUME PackedInv, NEW p \in Paths, unlinkOriginal(p)
  PROVE  PackedInv' /\ Kept
<1> USE PathFacts
<1> DEFINE where == IF file[p] = Absent THEN "failed"
                    ELSE IF Goal(p) = Absent THEN "source" ELSE "write"
<1>1. Go(p, where) /\ run.at[p] = "unlink" BY DEF unlinkOriginal, Here
<1>2. where \in Stages BY DEF Stages, Idle
<1>3. run'.plan = run.plan /\ run'.at[p] = where BY <1>1, <1>2, GoFields
<1>4. file[p] = "other" => p \in raced BY <1>1 DEF StageInv, Touching
<1>5. file' = [file EXCEPT ![p] = Absent] /\ same' = [same EXCEPT ![p] = None]
  BY DEF unlinkOriginal
<1>6. Local(p) BY <1>5 DEF unlinkOriginal, Local, world, others, Disk, Everything
<1>7. StageInv(p)' BY <1>3 DEF StageInv, Touching, Helping, Created
<1>8. SyncInv(p)' BY <1>5, PackedAssumption DEF unlinkOriginal, SyncInv, Disk
<1>9. Held(p) => Held(p)' \/ p \in raced BY <1>4 DEF unlinkOriginal, Held
<1>10. QED BY <1>1, <1>2, <1>6, <1>7, <1>8, <1>9, PathStep

\* writeBytesExclusive creates a file only where there is none.
LEMMA WriteStep ==
  ASSUME PackedInv, NEW p \in Paths, writeBytesExclusive(p)
  PROVE  PackedInv' /\ Kept
<1> USE PathFacts
<1> DEFINE where == IF file[p] = Absent THEN "fill" ELSE "failed"
<1>1. Go(p, where) BY DEF writeBytesExclusive
<1>2. where \in Stages BY DEF Stages, Idle, Touching
<1>3. run'.plan = run.plan /\ run'.at[p] = where BY <1>1, <1>2, GoFields
<1>4. file' = IF file[p] = Absent THEN [file EXCEPT ![p] = Torn] ELSE file
  BY DEF writeBytesExclusive
<1>5. Local(p) BY <1>4 DEF writeBytesExclusive, Local, world, others, Disk, Everything
<1>6. StageInv(p)' BY <1>3, <1>4 DEF StageInv, Touching, Helping, Created, Disk
<1>7. SyncInv(p)' BY <1>4 DEF writeBytesExclusive, SyncInv, Disk
<1>8. Held(p) => Held(p)' BY <1>4 DEF writeBytesExclusive, Held, Disk
<1>9. QED BY <1>1, <1>2, <1>5, <1>6, <1>7, <1>8, PathStep

\* materialize removes what does not read back as written: a foreign file there
\* was put behind the exclusive creation.
LEMMA MaterializeStep ==
  ASSUME PackedInv, NEW p \in Paths, materialize(p)
  PROVE  PackedInv' /\ Kept
<1> USE PathFacts
<1> DEFINE where == IF file[p] # Torn THEN "failed" ELSE IF RollForward THEN "mark" ELSE "source"
<1>1. Go(p, where) /\ run.at[p] = "fill" BY DEF materialize, Here
<1>2. where \in Stages BY DEF Stages, Idle
<1>3. run'.plan = run.plan /\ run'.at[p] = where BY <1>1, <1>2, GoFields
<1>4. file[p] = "other" => p \in raced BY <1>1 DEF StageInv, Touching
<1>5. /\ file' = [file EXCEPT ![p] = IF file[p] = Torn THEN Goal(p) ELSE Absent]
      /\ durable' = durable \cup {p}
  BY DEF materialize
<1>6. file' \in [Paths -> Everything] BY <1>5 DEF Disk, Everything
<1>7. Local(p) BY <1>5, <1>6 DEF materialize, Local, world, others, Disk
<1>8. StageInv(p)' BY <1>3 DEF StageInv, Touching, Helping, Created
<1>9. SyncInv(p)' BY <1>5 DEF SyncInv
<1>10. Held(p) => Held(p)' \/ p \in raced BY <1>4 DEF materialize, Held
<1>11. QED BY <1>1, <1>2, <1>7, <1>8, <1>9, <1>10, PathStep

\* linkOwnershipMarker links the file to a free name.
LEMMA MarkStep ==
  ASSUME PackedInv, NEW p \in Paths, linkOwnershipMarker(p)
  PROVE  PackedInv' /\ Kept
<1> USE PathFacts
<1>1. PICK where \in {"done", "failed"} : Go(p, where) BY DEF linkOwnershipMarker
<1>2. where \in Stages BY DEF Stages, Idle
<1>3. run'.plan = run.plan /\ run'.at[p] = where BY <1>1, <1>2, GoFields
<1>4. \/ UNCHANGED <<art, same>>
      \/ /\ art[Target(p)] = Absent /\ art' = [art EXCEPT ![Target(p)] = file[p]]
         /\ same' = [same EXCEPT ![p] = Name(run.plan)]
  BY DEF linkOwnershipMarker
<1>5. Disk' BY <1>4, SMTT(60) DEF Disk, linkOwnershipMarker
<1>6. Local(p) BY <1>4, <1>5 DEF linkOwnershipMarker, Local, world, others, Disk
<1>7. StageInv(p)' BY <1>3 DEF StageInv, Touching, Helping, Created
<1>8. SyncInv(p)'
  <2>1. file' = file /\ durable' = durable BY DEF linkOwnershipMarker
  <2>2. CASE UNCHANGED <<art, same>> BY <2>1, <2>2 DEF SyncInv
  <2>3. CASE /\ art' = [art EXCEPT ![Target(p)] = file[p]]
             /\ same' = [same EXCEPT ![p] = Name(run.plan)]
    <3>1. art'[Target(p)] = file[p] /\ same'[p] = Name(run.plan) BY <2>3 DEF Disk
    <3>2. QED BY <2>1, <3>1 DEF SyncInv
  <2>4. QED BY <1>4, <2>2, <2>3
<1>9. Held(p) => Held(p)' BY <1>4 DEF linkOwnershipMarker, Held, Disk
<1>10. QED BY <1>1, <1>2, <1>6, <1>7, <1>8, <1>9, PathStep

\* cleanupArtifact removes what holds a content of the pack.
LEMMA CleanupArtifactStep ==
  ASSUME PackedInv, NEW p \in Paths, cleanupArtifact(p)
  PROVE  PackedInv' /\ Kept
<1> USE PathFacts
<1>1. PICK role \in {"source", "target"}, where \in {"failed", "target", "done"} :
        /\ Go(p, where)
        /\ \/ art' = art
           \/ /\ art[<<Name(run.plan), role, p>>] # "other"
              /\ art' = [art EXCEPT ![<<Name(run.plan), role, p>>] = Absent]
  BY DEF cleanupArtifact
<1>2. where \in Stages BY DEF Stages, Idle
<1>3. run'.plan = run.plan /\ run'.at[p] = where BY <1>1, <1>2, GoFields
<1>4. <<Name(run.plan), role, p>> \in Places BY DEF Places
<1>5. Local(p)
  <2>1. Disk' BY <1>1, <1>4 DEF cleanupArtifact, Disk, Everything
  <2>2. \A place \in Places : place[3] # p => art'[place] = art[place]
    BY <1>1, <1>4 DEF Disk
  <2>3. QED BY <2>1, <2>2 DEF cleanupArtifact, Local, world, others
<1>6. StageInv(p)' BY <1>3 DEF StageInv, Touching, Helping, Created
<1>7. SyncInv(p)' BY <1>1, <1>4 DEF cleanupArtifact, SyncInv, Disk, Places
<1>8. Held(p) => Held(p)' BY <1>1, <1>4 DEF cleanupArtifact, Held, Disk
<1>9. QED BY <1>1, <1>2, <1>5, <1>6, <1>7, <1>8, PathStep

\* finalizeDurablePack syncs a file, or locks the session.
LEMMA FinalizeStep ==
  ASSUME PackedInv, NEW p \in Paths, finalizeDurablePack(p)
  PROVE  PackedInv' /\ Kept
<1> USE PathFacts
<1>1. CASE Sealable(p)
  <2>1. Go(p, "sealed") /\ durable' = durable \cup {p}
    BY <1>1 DEF finalizeDurablePack
  <2>2. "sealed" \in Stages BY DEF Stages, Idle
  <2>3. run'.plan = run.plan /\ run'.at[p] = "sealed" BY <2>1, <2>2, GoFields
  <2>4. Local(p) BY <2>1 DEF finalizeDurablePack, Local, world, others, Disk
  <2>5. StageInv(p)' BY <2>3 DEF StageInv, Touching, Helping, Created
  <2>6. SyncInv(p)' /\ (Held(p) => Held(p)')
    BY <2>1 DEF finalizeDurablePack, SyncInv, Held
  <2>7. QED BY <2>1, <2>2, <2>4, <2>5, <2>6, PathStep
<1>2. CASE ~Sealable(p)
  <2>1. run' = Locked /\ Still BY <1>2 DEF finalizeDurablePack, Still, world, others
  <2>2. run' \in RunType /\ Turn BY <2>1, GivingUp
  <2>3. WellFormed
    BY <2>2 DEF finalizeDurablePack, WellFormed, world, PackedInv, Shape, Flags
  <2>4. QED BY <2>1, <2>2, <2>3, ControlStep
<1>3. QED BY <1>1, <1>2

\* cleanupPackedMutations reads before its artifacts go.
LEMMA CleanupStep ==
  ASSUME PackedInv, NEW p \in Paths, cleanupPackedMutations(p)
  PROVE  PackedInv' /\ Kept
<1> USE PathFacts
<1>1. PICK where \in {"source", "failed"} : Go(p, where) BY DEF cleanupPackedMutations
<1>2. where \in Stages BY DEF Stages, Idle
<1>3. run'.plan = run.plan /\ run'.at[p] = where BY <1>1, <1>2, GoFields
<1>4. Local(p) BY DEF cleanupPackedMutations, Local, world, others, Disk
<1>5. StageInv(p)' BY <1>3 DEF StageInv, Touching, Helping, Created
<1>6. SyncInv(p)' /\ (Held(p) => Held(p)') BY DEF cleanupPackedMutations, SyncInv, Held
<1>7. QED BY <1>1, <1>2, <1>4, <1>5, <1>6, PathStep

-----------------------------------------------------------------------------
(* The ordinary apply, the faults, and the theorems.                         *)

\* The ordinary apply of a rollback makes every file what it was to be; what it
\* does on the way is the subject of RestoreApply.
LEMMA EndOrdinaryStep ==
  ASSUME PackedInv, EndOrdinary
  PROVE  PackedInv' /\ Kept
<1>1. run \in RunType BY DEF PackedInv, Shape
<1>2. run.pc = "applying" /\ run' = [run EXCEPT !.pc = "ordinary"] BY DEF EndOrdinary
<1>3. run' \in RunType /\ run'.at = run.at /\ run'.plan = run.plan
  BY <1>1, <1>2 DEF RunType
<1>4. \A p \in Paths : file'[p] = Wanted[p] /\ Wanted[p] \in Everything \ {"other"}
  BY PackedAssumption DEF EndOrdinary, Wanted, PackedInv, Shape, Everything
<1>5. file' \in [Paths -> Everything]
  BY PackedAssumption DEF EndOrdinary, Wanted, PackedInv, Shape, Everything
<1>6. same' \in [Paths -> Names \cup {None}] /\ durable' \subseteq Paths
  BY DEF EndOrdinary, PackedInv, Disk
<1>7. Shape' BY <1>3 DEF EndOrdinary, PackedInv, Shape, world
<1>8. Disk' BY <1>5, <1>6 DEF EndOrdinary, PackedInv, Disk
<1>9. Flags' BY DEF EndOrdinary, PackedInv, Flags, world, others
<1>10. ASSUME NEW p \in Paths PROVE StageInv(p)' /\ SyncInv(p)'
  <2>1. StageInv(p) /\ SyncInv(p) BY DEF PackedInv
  <2>2. StageInv(p)'
    BY <1>3, <1>4, <2>1, SamePlaces DEF StageInv, EndOrdinary, world, others
  <2>3. \A name \in Names : same'[p] = name => same[p] = name
    BY PackedAssumption DEF EndOrdinary
  <2>4. SyncInv(p)' BY <1>4, <2>1, <2>3 DEF SyncInv, EndOrdinary
  <2>5. QED BY <2>2, <2>4
<1>11. Kept BY <1>2 DEF Kept
<1>12. QED BY <1>7, <1>8, <1>9, <1>10, <1>11 DEF PackedInv

\* A crash keeps a part of the records under way; a power failure takes only
\* files that were installed and not synced, and none of those is foreign.
LEMMA CrashStep ==
  ASSUME PackedInv, Crash
  PROVE  PackedInv' /\ Kept
<1>1. run \in RunType /\ Shape BY DEF PackedInv, Shape
<1>2. run' \in RunType /\ run'.at = run.at /\ run'.plan = run.plan
  BY <1>1 DEF Crash, RunType
<1>3. log' \in Seq(Record) /\ Len(log') <= N
  <2>1. Writing \in Seq(Record) /\ Len(Writing) <= N
    BY <1>1, Logs DEF Writing, Shape
  <2>2. PICK n \in 0 .. Len(Writing) :
          log' = SubSeq(Writing, 1, n) \o SubSeq(log, n + 1, Len(log))
    BY DEF Crash
  <2>3. QED BY <1>1, <2>1, <2>2, PartialLog DEF Shape
<1>4. spent' \in [Faults -> Nat] BY <1>1, Spending DEF Crash, Shape, Faults
<1>5. PICK lost \in SUBSET (Paths \ durable) :
        /\ file' = [p \in Paths |-> IF p \in lost THEN Torn ELSE file[p]]
        /\ art' = [place \in Places |->
                     IF /\ art[place] # Absent /\ place[2] = "target"
                        /\ place[3] \in lost /\ same[place[3]] = place[1]
                     THEN Torn ELSE art[place]]
  BY DEF Crash
<1>6. Shape' BY <1>2, <1>3, <1>4 DEF PackedInv, Shape, Crash
<1>7. Disk' BY <1>5 DEF PackedInv, Disk, Crash, Everything
<1>8. Flags' BY DEF PackedInv, Flags, Crash, others
<1>9. Torn # "other" BY PackedAssumption
<1>10. ASSUME NEW p \in Paths PROVE StageInv(p)' /\ SyncInv(p)'
  <2>1. StageInv(p) /\ SyncInv(p) BY DEF PackedInv
  <2>2. file'[p] = "other" => file[p] = "other" BY <1>5, <1>9
  <2>3. \A place \in Places : art'[place] = "other" => art[place] = "other"
    BY <1>5, <1>9
  <2>4. Source(p) \in Places /\ Target(p) \in Places BY <1>1, ArtifactPlaces
  <2>5. Source(p)' = Source(p) /\ Target(p)' = Target(p) BY <1>2, SamePlaces
  <2>6. StageInv(p)'
    BY <1>2, <2>1, <2>2, <2>3, <2>4, <2>5 DEF StageInv, Crash, others
  <2>7. \A name \in Names : <<name, "target", p>> \in Places BY DEF Places
  <2>8. SyncInv(p)' BY <2>1, <2>2, <2>3, <2>7 DEF SyncInv, Crash
  <2>9. QED BY <2>6, <2>8
<1>11. ASSUME NEW p \in Paths, Held(p) PROVE Held(p)'
  <2>1. SyncInv(p) BY DEF PackedInv
  <2>2. CASE file[p] = "other" BY <1>5, <2>1, <2>2 DEF SyncInv, Held
  <2>3. ASSUME NEW place \in Places, place[3] = p, art[place] = "other"
        PROVE  art'[place] = "other"
    <3>1. place[1] \in Names /\ place = <<place[1], place[2], place[3]>>
      BY DEF Places
    <3>2. CASE place[2] = "target" /\ same[p] = place[1]
      BY <1>5, <2>1, <2>3, <3>1, <3>2 DEF SyncInv
    <3>3. CASE ~(place[2] = "target" /\ same[p] = place[1])
      BY <1>5, <2>3, <3>3
    <3>4. QED BY <3>2, <3>3
  <2>4. QED BY <1>11, <2>2, <2>3 DEF Held
<1>12. Kept BY <1>11 DEF Kept
<1>13. QED BY <1>6, <1>7, <1>8, <1>10, <1>12 DEF PackedInv

\* Another program's step: what it writes reaches the disk by itself, and what
\* it puts behind a check is counted as raced.
LEMMA EditStep ==
  ASSUME PackedInv, Edit
  PROVE  PackedInv' /\ Kept
<1>1. run \in RunType /\ spent \in [Faults -> Nat] BY DEF PackedInv, Shape
<1>2. spent' \in [Faults -> Nat] /\ spent'["edit"] = spent["edit"] + 1
  BY <1>1, Spending DEF Edit, Faults
<1>3. PICK set \in SUBSET Paths, content \in {"other", Absent} :
        /\ file' = [p \in Paths |-> IF p \in set THEN content ELSE file[p]]
        /\ same' = [p \in Paths |-> IF p \in set THEN None ELSE same[p]]
        /\ durable' = durable \cup set
        /\ foreign' = foreign \cup set
        /\ raced' = raced \cup {p \in set : run.at[p] \in Touching}
  BY DEF Edit, Touching
<1>4. Shape' BY <1>2 DEF PackedInv, Shape, Edit
<1>5. Disk' BY <1>3 DEF PackedInv, Disk, Edit, Everything
<1>6. Flags' BY <1>3 DEF PackedInv, Flags, Edit
<1>7. ASSUME NEW p \in Paths PROVE StageInv(p)' /\ SyncInv(p)'
  <2>1. StageInv(p) /\ SyncInv(p) BY DEF PackedInv
  <2>2. run' = run /\ art' = art BY DEF Edit
  <2>3. Source(p)' = Source(p) /\ Target(p)' = Target(p) BY <2>2, SamePlaces
  <2>4. StageInv(p)' BY <1>3, <2>1, <2>2, <2>3 DEF StageInv
  <2>5. SyncInv(p)' BY <1>3, <2>1, <2>2, PackedAssumption DEF SyncInv
  <2>6. QED BY <2>4, <2>5
<1>8. Kept
  <2>1. spent'["edit"] # spent["edit"]
    <3>1. spent["edit"] \in Nat BY <1>1 DEF Faults
    <3>2. QED BY <1>2, <3>1
  <2>2. QED BY <2>1 DEF Kept
<1>9. QED BY <1>4, <1>5, <1>6, <1>7, <1>8 DEF PackedInv

\* Every step of the program, of a fault and of another program keeps PackedInv
\* and what ForeignFileKept asks of it.
LEMMA PackedStep ==
  ASSUME PackedInv, [Next]_vars
  PROVE  PackedInv' /\ Kept
<1>1. CASE Control BY <1>1, ControlSteps
<1>2. ASSUME NEW p \in Paths, HelperStep(p) PROVE PackedInv' /\ Kept
  BY <1>2, CreateTargetStep, FillTargetStep, VerifyFileStep, CaptureSourceStep,
     UnlinkSourceStep, InstallTargetStep, VerifyInstalledStep
     DEF HelperStep
<1>3. ASSUME NEW p \in Paths, RecoveryStep(p) PROVE PackedInv' /\ Kept
  BY <1>3, NormalizeRecordStep, UnlinkOriginalStep, WriteStep, MaterializeStep,
     MarkStep, CleanupArtifactStep, FinalizeStep, CleanupStep
     DEF RecoveryStep
<1>4. CASE EndOrdinary BY <1>4, EndOrdinaryStep
<1>5. CASE Crash BY <1>5, CrashStep
<1>6. CASE Edit BY <1>6, EditStep
<1>7. CASE UNCHANGED vars
  <2>1. Still /\ WellFormed
    BY <1>7 DEF vars, others, Still, WellFormed, PackedInv, Shape, Flags
  <2>2. Turn BY <1>7 DEF vars, Turn
  <2>3. QED BY <2>1, <2>2, ControlStep
<1>8. QED
  BY <1>1, <1>2, <1>3, <1>4, <1>5, <1>6, <1>7 DEF Next, Program, Control

\* The inductive invariant of the native path.
LEMMA PackedInvariant == Spec => []PackedInv
<1>1. PackedInv /\ [Next]_vars => PackedInv' BY PackedStep
<1>2. QED BY <1>1, PackedInit, PTL DEF Spec

\* The pack's log never has more than one record for each path, whatever part of
\* a write a crash leaves, and files and artifacts hold known contents only
\* (durable-pack.ts, packed-recovery.ts ensurePackedIntents).
THEOREM PackedTypes == Spec => []PackedTypeOK
<1>1. PackedInv => PackedTypeOK BY PackedTyped
<1>2. QED BY <1>1, PackedInvariant, PTL

\* What another program wrote stays, in its place or as an artifact, unless it
\* came between a check and its step or was captured by the ordinary apply of a
\* rollback: for any number of paths and of faults of each kind
\* (packed-recovery.ts classification, the helper's capture).
THEOREM ForeignFilesStay == Spec => ForeignFileKept
<1>1. PackedInv /\ [Next]_vars => [Kept]_vars BY PackedStep
<1>2. Spec => [][Kept]_vars BY <1>1, PackedInvariant, PTL DEF Spec
<1>3. QED BY <1>2 DEF ForeignFileKept, Kept

-----------------------------------------------------------------------------
(* The artifacts and the pack that names them.                               *)

Named(place) ==
  art[place] # Absent =>
    /\ pack # None /\ place[1] = Name(pack)
    /\ place[2] = "target" => To(pack)[place[3]] # Absent

\* From the publication to the end of a cleanup the pack is that of the plan.
PlanInv ==
  run.pc \in {"helper", "verified", "intents", "normalize", "finalize", "cleanup"} =>
    pack = run.plan

\* The first apply has no records until its helper has failed.
UndoInv ==
  run.use = "undo" =>
    /\ ~cursor /\ run.pc \notin {"finalize", "cleanup", "ordinary", "applying"}
    /\ run.pc \in {"publish", "link", "helper", "verified", "intents"} =>
         log = <<>> /\ extra = "none"
    /\ run.pc = "normalize" => \E i \in DOMAIN log : log[i].state = "INTENT"

\* A pack is replaced only when nothing needs it.
FreshInv == run.pc = "link" \/ (run.pc = "publish" /\ ~ActiveRecords) => NoArtifact

CleanInv(p) ==
  run.pc = "normalize" =>
    /\ run.at[p] \in {"write", "fill", "mark"} => Goal(p) # Absent
    /\ run.at[p] = "mark" => cursor
    /\ ~cursor /\ run.at[p] = "target" => art[Source(p)] = Absent
    /\ ~cursor /\ run.at[p] = "done" => art[Source(p)] = Absent /\ art[Target(p)] = Absent

NameInv ==
  /\ \A place \in Places : Named(place)
  /\ PlanInv /\ UndoInv /\ FreshInv
  /\ \A p \in Paths : CleanInv(p)

\* NameInv speaks of what only the control steps change, and of the artifacts.
NameFrame == UNCHANGED <<before, after, pack, art, cursor>>

\* A pack that stays names the artifacts that stay.
LEMMA NamedStays ==
  ASSUME NEW place \in Places, Named(place), NameFrame
  PROVE  Named(place)'
BY DEF Named, NameFrame, Name, To

\* With no artifact there is nothing a pack has to name.
LEMMA NothingToName ==
  ASSUME NoArtifact, art' = art
  PROVE  \A place \in Places : Named(place)'
BY DEF NoArtifact, Named

\* A locked session keeps its pack and its artifacts.
LEMMA LockedNames ==
  ASSUME NameInv, run \in RunType, NameFrame,
         NEW pc \in {"locked", "settled", "dead"}, run' = [run EXCEPT !.pc = pc]
  PROVE  NameInv'
<1>1. run'.pc = pc /\ run'.use = run.use BY DEF RunType
<1>2. \A place \in Places : Named(place)' BY NamedStays DEF NameInv
<1>3. PlanInv' /\ FreshInv' /\ \A p \in Paths : CleanInv(p)'
  BY <1>1 DEF PlanInv, FreshInv, CleanInv
<1>4. UndoInv' BY <1>1 DEF NameInv, UndoInv, NameFrame
<1>5. QED BY <1>2, <1>3, <1>4 DEF NameInv

\* Publication replaces a pack when no artifact is left that it names
\* (restore-engine.ts applyNativeFilePlan, active records refuse to start).
LEMMA PublishNames ==
  ASSUME NameInv, Shape,
         createDurablePack \/ UnlinkPack \/ publishCachedDurablePack \/ removeDurablePack
  PROVE  NameInv'
<1>1. run \in RunType /\ run.plan \in Plans BY DEF Shape, RunType
<1>2. NoArtifact
  BY DEF NameInv, FreshInv, createDurablePack, UnlinkPack, publishCachedDurablePack,
         removeDurablePack
<1>3. art' = art
  BY DEF createDurablePack, UnlinkPack, publishCachedDurablePack, removeDurablePack
<1>4. \A place \in Places : Named(place)' BY <1>2, <1>3, NothingToName
<1>5. NoArtifact' BY <1>2, <1>3 DEF NoArtifact
<1>6. /\ run'.plan = run.plan /\ run'.use = run.use
      /\ run'.pc \in {"helper", "link", "ordinary"}
      /\ run'.pc = "helper" => pack' = run.plan
      /\ run'.pc = "ordinary" => run.use = "compensation"
  <2>1. CASE createDurablePack BY <1>1, <2>1 DEF createDurablePack, At, RunType
  <2>2. CASE UnlinkPack BY <1>1, <2>2 DEF UnlinkPack, At, RunType
  <2>3. CASE publishCachedDurablePack BY <1>1, <2>3 DEF publishCachedDurablePack, At, RunType
  <2>4. CASE removeDurablePack BY <1>1, <2>4 DEF removeDurablePack, At, RunType
  <2>5. QED BY <2>1, <2>2, <2>3, <2>4
<1>7. PlanInv' BY <1>6 DEF PlanInv
<1>8. FreshInv' BY <1>5 DEF FreshInv
<1>9. \A p \in Paths : CleanInv(p)' BY <1>6 DEF CleanInv
<1>10. UndoInv'
  <2>1. UndoInv BY DEF NameInv
  <2>2. run.pc \in {"publish", "link"} /\ UNCHANGED <<log, extra, cursor>>
    BY DEF createDurablePack, UnlinkPack, publishCachedDurablePack, removeDurablePack
  <2>3. QED BY <1>6, <2>1, <2>2 DEF UndoInv
<1>11. QED BY <1>4, <1>7, <1>8, <1>9, <1>10 DEF NameInv

\* The way back is published over the pack of the way forward: either nothing
\* is left of that, or the records that are left stop it.
LEMMA CompensatingNames ==
  ASSUME NameInv, run \in RunType, NameFrame, Compensating, NoArtifact \/ ActiveRecords'
  PROVE  NameInv'
<1>1. run'.pc = "publish" /\ run'.use = "compensation"
  BY DEF Compensating, At, RunType
<1>2. \A place \in Places : Named(place)' BY NamedStays DEF NameInv
<1>3. PlanInv' /\ UndoInv' /\ \A p \in Paths : CleanInv(p)'
  BY <1>1 DEF PlanInv, UndoInv, CleanInv
<1>4. FreshInv' BY <1>1 DEF FreshInv, NoArtifact, NameFrame
<1>5. QED BY <1>2, <1>3, <1>4 DEF NameInv

\* A new stage over the same pack: the paths begin it at an idle step.
LEMMA StageNames ==
  ASSUME NameInv, NameFrame,
         run'.plan = run.plan, run'.pc \notin {"publish", "link"},
         run'.pc \in {"helper", "verified", "intents", "normalize", "finalize", "cleanup"} =>
           pack = run.plan,
         UndoInv', run'.at = [p \in Paths |-> "look"]
  PROVE  NameInv'
<1>1. \A place \in Places : Named(place)' BY NamedStays DEF NameInv
<1>2. PlanInv' BY DEF PlanInv, NameFrame
<1>3. FreshInv' BY DEF FreshInv
<1>4. \A p \in Paths : CleanInv(p)' BY DEF CleanInv
<1>5. QED BY <1>1, <1>2, <1>3, <1>4 DEF NameInv

\* A whole normalization back to the source has removed every artifact.
LEMMA NormalizedClean ==
  ASSUME NameInv, run \in RunType, run.pc = "normalize", Passed({"done"}), ~cursor
  PROVE  NoArtifact
<1> SUFFICES ASSUME NEW place \in Places PROVE art[place] = Absent
  BY DEF NoArtifact
<1>1. /\ place[3] \in Paths /\ place[2] \in {"source", "target"}
      /\ place = <<place[1], place[2], place[3]>>
  BY DEF Places
<1>2. art[Source(place[3])] = Absent /\ art[Target(place[3])] = Absent
  BY <1>1 DEF NameInv, CleanInv, Passed
<1>3. art[place] # Absent => place[1] = Name(run.plan)
  BY DEF NameInv, PlanInv, Named
<1>4. QED BY <1>1, <1>2, <1>3 DEF Source, Target

\* The steps that touch no file leave artifacts only under the name of the pack.
LEMMA ControlNames ==
  ASSUME PackedInv, NameInv, Control, ~RefuseCursor
  PROVE  NameInv'
<1>1. Shape /\ run \in RunType /\ run.plan \in Plans /\ pack \in Plans \cup {None}
  BY DEF PackedInv, Shape, RunType, Flags
<1>2. PlanInv /\ UndoInv BY DEF NameInv
<1>3. CASE StaleRecords \/ verifyKnownState
  BY <1>1, <1>3, LockedNames DEF StaleRecords, verifyKnownState, Locked, NameFrame, world
<1>4. CASE createDurablePack \/ UnlinkPack \/ publishCachedDurablePack \/ removeDurablePack
  BY <1>1, <1>4, PublishNames
<1>5. CASE HelperFails \/ HelperStops
  <2>1. NameFrame /\ UNCHANGED <<log, extra>> /\ run.pc = "helper"
    BY <1>5 DEF HelperFails, HelperStops, NameFrame, world
  <2>2. /\ run'.pc = "intents" /\ run'.plan = run.plan /\ run'.use = run.use
        /\ run'.at = [p \in Paths |-> "look"]
    BY <1>1, <1>5 DEF HelperFails, HelperStops, At, RunType
  <2>3. UndoInv' BY <1>2, <2>1, <2>2 DEF UndoInv, NameFrame
  <2>4. QED BY <1>2, <2>1, <2>2, <2>3, StageNames DEF PlanInv
<1>6. CASE HelperSucceeds
  <2>1. NameFrame /\ UNCHANGED <<log, extra>> /\ run.pc = "helper"
    BY <1>6 DEF HelperSucceeds, NameFrame, world
  <2>2. CASE run' = Locked BY <1>1, <2>1, <2>2, LockedNames DEF Locked
  <2>3. CASE run' = [run EXCEPT !.pc = "settled"] BY <1>1, <2>1, <2>3, LockedNames
  <2>4. CASE run' = [run EXCEPT !.pc = "verified"]
    <3>1. run'.pc = "verified" /\ run'.plan = run.plan /\ run'.use = run.use
      BY <1>1, <2>4 DEF RunType
    <3>2. \A place \in Places : Named(place)' BY <2>1, NamedStays DEF NameInv
    <3>3. PlanInv' BY <1>2, <2>1, <3>1 DEF PlanInv, NameFrame
    <3>4. UndoInv' BY <1>2, <2>1, <3>1 DEF UndoInv, NameFrame
    <3>5. FreshInv' /\ \A p \in Paths : CleanInv(p)' BY <3>1 DEF FreshInv, CleanInv
    <3>6. QED BY <3>2, <3>3, <3>4, <3>5 DEF NameInv
  <2>5. QED BY <1>2, <1>6, <2>1, <2>2, <2>3, <2>4 DEF HelperSucceeds, GiveUp, UndoInv
<1>7. CASE CommitCursor
  <2>1. /\ UNCHANGED <<before, after, pack, art>> /\ run.pc = "verified"
    BY <1>7 DEF CommitCursor, world
  <2>2. /\ run'.pc = "finalize" /\ run'.plan = run.plan /\ run'.use = "commit"
    BY <1>1, <1>7 DEF CommitCursor, At, RunType
  <2>3. \A place \in Places : Named(place)' BY <2>1 DEF NameInv, Named, Name, To
  <2>4. PlanInv' BY <1>2, <2>1, <2>2 DEF PlanInv
  <2>5. UndoInv' /\ FreshInv' /\ \A p \in Paths : CleanInv(p)'
    BY <2>2 DEF UndoInv, FreshInv, CleanInv
  <2>6. QED BY <2>3, <2>4, <2>5 DEF NameInv
<1>8. CASE ensurePackedIntents
  <2>1. NameFrame /\ run.pc = "intents" /\ pack = run.plan
    BY <1>8 DEF ensurePackedIntents, NameFrame, Matches, world
  <2>2. /\ run'.pc = "normalize" /\ run'.plan = run.plan /\ run'.use = run.use
        /\ run'.at = [p \in Paths |-> "look"]
    BY <1>1, <1>8 DEF ensurePackedIntents, At, RunType
  <2>3. UndoInv'
    <3>1. SUFFICES ASSUME run.use = "undo"
                   PROVE  \E i \in DOMAIN log' : log'[i].state = "INTENT"
      BY <1>2, <2>1, <2>2 DEF UndoInv, NameFrame
    <3>2. log = <<>> /\ log' = Intended
      BY <1>2, <1>8, <2>1, <3>1 DEF UndoInv, ensurePackedIntents
    <3>3. 1 \in Paths BY PackedAssumption DEF Paths
    <3>4. DOMAIN log' = Paths /\ log'[1] = RecordOf("INTENT")
      BY <3>2, <3>3 DEF Intended
    <3>5. QED BY <3>3, <3>4 DEF RecordOf
  <2>4. QED BY <2>1, <2>2, <2>3, StageNames
<1>9. CASE Mismatch
  <2>1. NameFrame /\ run.pc = "intents" BY <1>9 DEF Mismatch, NameFrame, world
  <2>2. run.use # "undo" BY <1>2, <1>9, <2>1 DEF Mismatch, Matches, UndoInv, PlanInv
  <2>3. run' = Locked BY <1>9, <2>2 DEF Mismatch, GiveUp
  <2>4. QED BY <1>1, <2>1, <2>3, LockedNames DEF Locked
<1>10. CASE advanceNormalized
  <2>1. /\ NameFrame /\ run.pc = "normalize" /\ Passed({"done"}) /\ pack = run.plan
        /\ log' = Advanced
    BY <1>2, <1>10 DEF advanceNormalized, NameFrame, world, PlanInv
  <2>2. CASE run' = Locked BY <1>1, <2>1, <2>2, LockedNames DEF Locked
  <2>3. CASE run.use = "undo" /\ Compensating
    <3>1. ~cursor BY <1>2, <2>3 DEF UndoInv
    <3>2. NoArtifact BY <1>1, <2>1, <3>1, NormalizedClean
    <3>3. QED BY <1>1, <2>1, <2>3, <3>2, CompensatingNames
  <2>4. CASE /\ run.use = "recovery"
             /\ run' = At(IF RollForward THEN "finalize" ELSE "ordinary", "look")
    <3>1. /\ run'.pc \in {"finalize", "ordinary"} /\ run'.plan = run.plan
          /\ run'.use = "recovery" /\ run'.at = [p \in Paths |-> "look"]
      BY <1>1, <2>4 DEF At, RunType
    <3>2. UndoInv' BY <3>1 DEF UndoInv
    <3>3. QED BY <2>1, <3>1, <3>2, StageNames
  <2>5. QED BY <1>10, <2>2, <2>3, <2>4 DEF advanceNormalized, GiveUp
<1>11. CASE Conflict
  <2>1. /\ NameFrame /\ run.pc \in {"normalize", "cleanup"} /\ log' = log /\ extra' = extra
    BY <1>11 DEF Conflict, NameFrame, world
  <2>2. CASE run' = Locked BY <1>1, <2>1, <2>2, LockedNames DEF Locked
  <2>3. CASE run.use = "undo" /\ Compensating
    <3>1. ActiveRecords' BY <1>2, <2>1, <2>3 DEF UndoInv, ActiveRecords
    <3>2. QED BY <1>1, <2>1, <2>3, <3>1, CompensatingNames
  <2>4. QED BY <1>11, <2>2, <2>3 DEF Conflict, GiveUp
<1>12. CASE materializePackedMutationJournal
  <2>1. /\ NameFrame /\ run' = run /\ run.pc = "finalize" /\ run.use = "commit"
    BY <1>12 DEF materializePackedMutationJournal, NameFrame, world
  <2>2. \A place \in Places : Named(place)' BY <2>1, NamedStays DEF NameInv
  <2>3. PlanInv' BY <1>2, <2>1 DEF PlanInv, NameFrame
  <2>4. UndoInv' /\ FreshInv' /\ \A p \in Paths : CleanInv(p)'
    BY <2>1 DEF UndoInv, FreshInv, CleanInv
  <2>5. QED BY <2>2, <2>3, <2>4 DEF NameInv
<1>13. CASE Finalized \/ CleanupDone
  <2>1. NameFrame /\ run.pc \in {"finalize", "cleanup"} /\ run.use # "undo"
    BY <1>2, <1>13 DEF Finalized, CleanupDone, NameFrame, world, UndoInv
  <2>2. /\ run'.pc \in {"cleanup", "settled", "ordinary"} /\ run'.plan = run.plan
        /\ run'.use = run.use /\ run'.at = [p \in Paths |-> "look"]
    BY <1>1, <1>13 DEF Finalized, CleanupDone, At, RunType
  <2>3. UndoInv' BY <2>1, <2>2 DEF UndoInv
  <2>4. QED BY <1>2, <2>1, <2>2, <2>3, StageNames DEF PlanInv
<1>14. CASE Restart \/ RecoverAgain
  <2>1. NameFrame BY <1>14 DEF Restart, RecoverAgain, recoverMutations, NameFrame, world
  <2>2. CASE run' = Locked \/ run' = [run EXCEPT !.pc = "settled"]
    BY <1>1, <2>1, <2>2, LockedNames DEF Locked
  <2>3. CASE /\ pack # "back"
             /\ run' = [At(IF pack = None THEN "ordinary" ELSE "intents", "look")
                          EXCEPT !.plan = "forward", !.use = "recovery"]
    <3>1. /\ run'.pc = (IF pack = None THEN "ordinary" ELSE "intents")
          /\ run'.plan = "forward" /\ run'.use = "recovery"
      BY <1>1, <2>3 DEF At, RunType
    <3>2. PlanInv' BY <1>1, <2>1, <2>3, <3>1 DEF PlanInv, NameFrame, Plans
    <3>3. UndoInv' /\ FreshInv' /\ \A p \in Paths : CleanInv(p)'
      BY <3>1 DEF UndoInv, FreshInv, CleanInv
    <3>4. \A place \in Places : Named(place)' BY <2>1, NamedStays DEF NameInv
    <3>5. QED BY <3>2, <3>3, <3>4 DEF NameInv
  <2>4. QED BY <1>14, <2>2, <2>3 DEF Restart, RecoverAgain, recoverMutations
<1>15. CASE BeginOrdinary \/ Settle
  <2>1. NameFrame /\ run.pc = "ordinary"
    BY <1>15 DEF BeginOrdinary, Settle, NameFrame, world
  <2>2. run'.pc \in {"applying", "settled"} /\ run'.use = run.use
    BY <1>1, <1>15 DEF BeginOrdinary, Settle, RunType
  <2>3. \A place \in Places : Named(place)' BY <2>1, NamedStays DEF NameInv
  <2>4. UndoInv' BY <1>2, <2>1, <2>2 DEF UndoInv
  <2>5. PlanInv' /\ FreshInv' /\ \A p \in Paths : CleanInv(p)'
    BY <2>2 DEF PlanInv, FreshInv, CleanInv
  <2>6. QED BY <2>3, <2>4, <2>5 DEF NameInv
<1>16. QED
  BY <1>3, <1>4, <1>5, <1>6, <1>7, <1>8, <1>9, <1>10, <1>11, <1>12, <1>13, <1>14, <1>15
     DEF Control

\* An artifact appears only under the names of the plan, and a target artifact
\* only for a path that has a target.
Appears(p) ==
  \A place \in Places : art'[place] # Absent =>
    \/ art[place] # Absent
    \/ place = Source(p)
    \/ place = Target(p) /\ After(p) # Absent

\* A step of one path of the helper, a recovery or a finalization makes artifacts
\* under the pack's name only.
LEMMA PathNames ==
  ASSUME NameInv, run \in RunType, NEW p \in Paths, NEW where \in Stages, Go(p, where),
         UNCHANGED <<before, after, pack, log, extra, cursor>>,
         run.pc \in {"helper", "normalize", "finalize", "cleanup"},
         Appears(p), CleanInv(p)'
  PROVE  NameInv'
<1>1. /\ run'.plan = run.plan /\ run'.use = run.use /\ run'.pc = run.pc
      /\ \A q \in Paths \ {p} : run'.at[q] = run.at[q]
  BY GoFields
<1>2. pack = run.plan /\ pack # None
  BY PackedAssumption DEF NameInv, PlanInv, RunType, Names
<1>3. ASSUME NEW place \in Places PROVE Named(place)'
  <2>1. Named(place) BY DEF NameInv
  <2>2. CASE art[place] # Absent BY <2>1, <2>2 DEF Named, Name, To
  <2>3. CASE place = Source(p) BY <1>2, <2>3 DEF Named, Source, Name
  <2>4. CASE place = Target(p) /\ After(p) # Absent
    BY <1>2, <2>4 DEF Named, Target, Name, After, To
  <2>5. QED BY <2>2, <2>3, <2>4 DEF Appears, Named
<1>4. PlanInv' BY <1>1, <1>2 DEF PlanInv
<1>5. UndoInv' BY <1>1 DEF NameInv, UndoInv
<1>6. FreshInv' BY <1>1 DEF FreshInv
<1>7. ASSUME NEW q \in Paths \ {p} PROVE CleanInv(q)'
  <2>1. CleanInv(q) BY DEF NameInv
  <2>2. Source(q)' = Source(q) /\ Target(q)' = Target(q) /\ Goal(q)' = Goal(q)
    BY <1>1, SamePlaces DEF Goal, RollForward, Before, After, From, To
  <2>3. /\ art[Source(q)] = Absent => art'[Source(q)] = Absent
        /\ art[Target(q)] = Absent => art'[Target(q)] = Absent
    BY ArtifactPlaces DEF Appears
  <2>4. QED BY <1>1, <2>1, <2>2, <2>3 DEF CleanInv
<1>8. QED BY <1>3, <1>4, <1>5, <1>6, <1>7 DEF NameInv

\* The helper makes a target artifact for a path that gets a content, and a
\* source artifact (createTarget, captureSource).
LEMMA HelperNames ==
  ASSUME PackedInv, NameInv, NEW p \in Paths, HelperStep(p)
  PROVE  NameInv'
<1> USE PathFacts
<1>1. run.pc = "helper" /\ UNCHANGED <<before, after, pack, log, extra, cursor>>
  BY DEF HelperStep, createTarget, fillTarget, verifyFile, captureSource, unlinkSource,
         installTarget, verifyInstalled, Here, world
<1>2. PICK where \in Stages : Go(p, where)
  <2> USE DEF Stages, Helping, Created
  <2>1. CASE createTarget(p) BY <2>1 DEF createTarget
  <2>2. CASE fillTarget(p) BY <2>2 DEF fillTarget
  <2>3. CASE verifyFile(p) BY <2>3 DEF verifyFile
  <2>4. CASE captureSource(p) BY <2>4 DEF captureSource
  <2>5. CASE unlinkSource(p) \/ installTarget(p) \/ verifyInstalled(p)
    BY <2>5 DEF unlinkSource, installTarget, verifyInstalled
  <2>6. QED BY <2>1, <2>2, <2>3, <2>4, <2>5 DEF HelperStep
<1>3. Appears(p)
  <2>1. CASE createTarget(p) BY <2>1 DEF createTarget, Appears, Disk
  <2>2. CASE fillTarget(p) BY <2>2 DEF fillTarget, Appears, Disk
  <2>3. CASE captureSource(p) BY <2>3 DEF captureSource, Appears, Disk
  <2>4. CASE verifyFile(p) \/ unlinkSource(p) \/ installTarget(p) \/ verifyInstalled(p)
    BY <2>4 DEF verifyFile, unlinkSource, installTarget, verifyInstalled, Appears
  <2>5. QED BY <2>1, <2>2, <2>3, <2>4 DEF HelperStep
<1>4. CleanInv(p)' BY <1>1, <1>2, GoFields DEF CleanInv
<1>5. QED BY <1>1, <1>2, <1>3, <1>4, PathNames

\* cleanupArtifact empties the source artifact before the target artifact, and
\* without a target there is no target artifact.
LEMMA CleanupArtifactNames ==
  ASSUME PackedInv, NameInv, NEW p \in Paths, cleanupArtifact(p)
  PROVE  NameInv'
<1> USE PathFacts
<1>1. run.pc \in {"normalize", "cleanup"} /\ UNCHANGED <<before, after, pack, log, extra, cursor>>
  BY DEF cleanupArtifact, world
<1>2. PICK role \in {"source", "target"}, where \in {"failed", "target", "done"} :
        /\ run.at[p] = role /\ Go(p, where)
        /\ where = "failed" =>  art' = art
        /\ where # "failed" => art' = [art EXCEPT ![<<Name(run.plan), role, p>>] = Absent]
        /\ where = "target" => role = "source"
        /\ where = "done" => role = "target" \/ After(p) = Absent
  BY DEF cleanupArtifact
<1>3. where \in Stages BY DEF Stages, Idle
<1>4. run'.plan = run.plan /\ run'.pc = run.pc /\ run'.at[p] = where
  BY <1>2, <1>3, GoFields
<1>5. Appears(p) BY <1>2 DEF Appears, Disk
<1>6. CleanInv(p)'
  <2>1. SUFFICES ASSUME run.pc = "normalize", ~cursor
                 PROVE  /\ where = "target" => art'[Source(p)] = Absent
                        /\ where = "done" => art'[Source(p)] = Absent /\ art'[Target(p)] = Absent
    BY <1>1, <1>4, SamePlaces DEF CleanInv
  <2>2. role = "target" => art[Source(p)] = Absent
    BY <1>2, <2>1 DEF NameInv, CleanInv
  <2>3. After(p) = Absent => art[Target(p)] = Absent
    BY <2>1 DEF NameInv, Named, PlanInv, After
  <2>4. CASE role = "source"
    <3>1. where # "failed" => art'[Source(p)] = Absent /\ art'[Target(p)] = art[Target(p)]
      BY <1>2, <2>4, SMTT(60) DEF Disk
    <3>2. QED BY <1>2, <2>3, <2>4, <3>1
  <2>5. CASE role = "target"
    <3>1. where # "failed" => art'[Target(p)] = Absent /\ art'[Source(p)] = art[Source(p)]
      BY <1>2, <2>5 DEF Disk
    <3>2. QED BY <1>2, <2>2, <2>5, <3>1
  <2>6. QED BY <2>4, <2>5
<1>7. QED BY <1>1, <1>2, <1>3, <1>5, <1>6, PathNames

\* Recovery makes a target artifact only for a file it restored to its target
\* (linkOwnershipMarker, which a roll-forward alone reaches).
LEMMA RecoveryNames ==
  ASSUME PackedInv, NameInv, NEW p \in Paths, RecoveryStep(p)
  PROVE  NameInv'
<1> USE PathFacts
<1>1. CASE cleanupArtifact(p) BY <1>1, CleanupArtifactNames
<1>2. CASE finalizeDurablePack(p) \/ cleanupPackedMutations(p)
  <2>1. /\ run.pc \in {"finalize", "cleanup"} /\ art' = art
        /\ UNCHANGED <<before, after, pack, log, extra, cursor>>
    BY <1>2 DEF finalizeDurablePack, cleanupPackedMutations, Here, world
  <2>2. CASE run' = Locked BY <2>1, <2>2, LockedNames DEF Locked, NameFrame
  <2>3. ASSUME NEW where \in {"sealed", "source", "failed"}, Go(p, where) PROVE NameInv'
    <3>1. where \in Stages BY DEF Stages, Idle
    <3>2. run'.pc = run.pc BY <2>3, <3>1, GoFields
    <3>3. CleanInv(p)' BY <2>1, <3>2 DEF CleanInv
    <3>4. Appears(p) BY <2>1 DEF Appears
    <3>5. QED BY <2>1, <2>3, <3>1, <3>3, <3>4, PathNames
  <2>4. QED BY <1>2, <2>2, <2>3 DEF finalizeDurablePack, cleanupPackedMutations
<1>3. CASE \/ normalizeRecord(p) \/ unlinkOriginal(p) \/ writeBytesExclusive(p)
           \/ materialize(p) \/ linkOwnershipMarker(p)
  <2>1. run.pc = "normalize" /\ UNCHANGED <<before, after, pack, log, extra, cursor>>
    BY <1>3 DEF normalizeRecord, unlinkOriginal, writeBytesExclusive, materialize,
                linkOwnershipMarker, Here, world
  <2>2. PICK where \in {"done", "failed", "source", "unlink", "write", "fill", "mark"} :
          /\ Go(p, where)
          /\ where \in {"write", "fill", "mark"} => Goal(p) # Absent
          /\ where \in {"mark", "done"} => cursor
    <3>1. CleanInv(p) BY DEF NameInv
    <3>2. CASE normalizeRecord(p)
      <4>1. CASE CleanedDelete(p) BY <3>2, <4>1 DEF normalizeRecord, RollForward
      <4>2. CASE ~CleanedDelete(p) /\ ~Known(p) BY <3>2, <4>2 DEF normalizeRecord
      <4>3. CASE ~CleanedDelete(p) /\ Known(p)
        BY <3>2, <4>3 DEF normalizeRecord, RollForward
      <4>4. QED BY <4>1, <4>2, <4>3
    <3>3. CASE unlinkOriginal(p) BY <3>3 DEF unlinkOriginal
    <3>4. CASE writeBytesExclusive(p)
      BY <3>1, <3>4 DEF writeBytesExclusive, CleanInv, Here
    <3>5. CASE materialize(p)
      BY <3>1, <3>5 DEF materialize, CleanInv, Here, RollForward
    <3>6. CASE linkOwnershipMarker(p)
      BY <3>1, <3>6 DEF linkOwnershipMarker, CleanInv, Here
    <3>7. QED BY <1>3, <3>2, <3>3, <3>4, <3>5, <3>6
  <2>3. where \in Stages BY DEF Stages, Idle, Touching
  <2>4. run'.plan = run.plan /\ run'.pc = run.pc /\ run'.at[p] = where
    BY <2>2, <2>3, GoFields
  <2>5. Appears(p)
    <3>1. CASE linkOwnershipMarker(p)
      <4>1. After(p) # Absent
        BY <3>1 DEF linkOwnershipMarker, Here, NameInv, CleanInv, Goal, RollForward
      <4>2. QED BY <3>1, <4>1 DEF linkOwnershipMarker, Appears, Disk
    <3>2. CASE art' = art BY <3>2 DEF Appears
    <3>3. QED
      BY <1>3, <3>1, <3>2 DEF normalizeRecord, unlinkOriginal, writeBytesExclusive, materialize
  <2>6. Goal(p)' = Goal(p) BY <2>1, <2>4 DEF Goal, RollForward, Before, After, From, To
  <2>7. CleanInv(p)' BY <2>1, <2>2, <2>4, <2>6 DEF CleanInv
  <2>8. QED BY <2>1, <2>2, <2>3, <2>5, <2>7, PathNames
<1>4. QED BY <1>1, <1>2, <1>3 DEF RecoveryStep

\* The ordinary apply, a crash and another program make no artifact and touch no
\* pack.
LEMMA OutsideNames ==
  ASSUME PackedInv, NameInv, EndOrdinary \/ Crash \/ Edit \/ UNCHANGED vars
  PROVE  NameInv'
<1>1. run \in RunType BY DEF PackedInv, Shape
<1>2. UndoInv BY DEF NameInv
<1>3. CASE EndOrdinary
  <2>1. NameFrame BY <1>3 DEF EndOrdinary, NameFrame, world
  <2>2. run'.pc = "ordinary" /\ run'.use = run.use /\ run.pc = "applying"
    BY <1>1, <1>3 DEF EndOrdinary, RunType
  <2>3. \A place \in Places : Named(place)' BY <2>1, NamedStays DEF NameInv
  <2>4. UndoInv' BY <1>2, <2>2 DEF UndoInv
  <2>5. PlanInv' /\ FreshInv' /\ \A p \in Paths : CleanInv(p)'
    BY <2>2 DEF PlanInv, FreshInv, CleanInv
  <2>6. QED BY <2>3, <2>4, <2>5 DEF NameInv
<1>4. CASE Crash
  <2>1. run'.pc = "dead" /\ run'.use = run.use BY <1>1, <1>4 DEF Crash, RunType
  <2>2. UNCHANGED <<before, after, pack, cursor>> BY <1>4 DEF Crash
  <2>3. \A place \in Places : art'[place] # Absent => art[place] # Absent
    BY <1>4 DEF Crash
  <2>4. \A place \in Places : Named(place)'
    BY <2>2, <2>3 DEF NameInv, Named, Name, To
  <2>5. UndoInv' BY <1>2, <2>1, <2>2 DEF UndoInv
  <2>6. PlanInv' /\ FreshInv' /\ \A p \in Paths : CleanInv(p)'
    BY <2>1 DEF PlanInv, FreshInv, CleanInv
  <2>7. QED BY <2>4, <2>5, <2>6 DEF NameInv
<1>5. CASE Edit \/ UNCHANGED vars
  <2>1. UNCHANGED <<before, after, art, pack, log, extra, cursor, run>>
    BY <1>5 DEF Edit, vars
  <2>2. \A place \in Places : Named(place)' BY <2>1 DEF NameInv, Named, Name, To
  <2>3. PlanInv' /\ UndoInv' BY <2>1 DEF NameInv, PlanInv, UndoInv
  <2>4. FreshInv' BY <2>1 DEF NameInv, FreshInv, ActiveRecords, NoArtifact
  <2>5. ASSUME NEW p \in Paths PROVE CleanInv(p)'
    <3>1. CleanInv(p) BY DEF NameInv
    <3>2. Source(p)' = Source(p) /\ Target(p)' = Target(p) /\ Goal(p)' = Goal(p)
      BY <2>1, SamePlaces DEF Goal, RollForward, Before, After, From, To
    <3>3. QED BY <2>1, <3>1, <3>2 DEF CleanInv
  <2>6. QED BY <2>2, <2>3, <2>4, <2>5 DEF NameInv
<1>6. QED BY <1>3, <1>4, <1>5

\* Faults are counted up: none is forgotten.
LEMMA RefusalsStay ==
  ASSUME PackedInv, [Next]_vars, spent'["refusal"] = 0
  PROVE  spent["refusal"] = 0 /\ ~RefuseCursor
<1>1. spent \in [Faults -> Nat] /\ spent["refusal"] \in Nat
  BY DEF PackedInv, Shape, Faults
<1>2. ASSUME NEW fault \in Faults, Spend(fault)
      PROVE  spent["refusal"] = 0 /\ fault # "refusal"
  BY <1>1, <1>2 DEF Spend, Faults
<1>3. ~RefuseCursor BY <1>2 DEF RefuseCursor, Faults
<1>4. CASE removeDurablePack \/ HelperStops \/ Crash \/ Edit
  BY <1>2, <1>3, <1>4 DEF removeDurablePack, HelperStops, Crash, Edit, Faults
<1>5. CASE RecoverAgain \/ UNCHANGED vars
  BY <1>3, <1>5 DEF RecoverAgain, recoverMutations, vars, world
<1>6. CASE Program
  <2>1. spent' = spent
    <3>1. CASE \E p \in Paths : HelperStep(p) \/ RecoveryStep(p)
      BY <3>1 DEF HelperStep, RecoveryStep, createTarget, fillTarget, verifyFile,
        captureSource, unlinkSource, installTarget, verifyInstalled, normalizeRecord,
        unlinkOriginal, writeBytesExclusive, materialize, linkOwnershipMarker,
        cleanupArtifact, finalizeDurablePack, cleanupPackedMutations, world
    <3>2. CASE ~\E p \in Paths : HelperStep(p) \/ RecoveryStep(p)
      BY <1>6, <3>2 DEF Program, StaleRecords, createDurablePack, UnlinkPack,
        publishCachedDurablePack, HelperFails, HelperSucceeds, CommitCursor,
        ensurePackedIntents, Mismatch, advanceNormalized, Conflict,
        materializePackedMutationJournal, Finalized, CleanupDone, Restart,
        recoverMutations, verifyKnownState, BeginOrdinary, EndOrdinary, Settle, world
    <3>3. QED BY <3>1, <3>2
  <2>2. QED BY <1>3, <2>1
<1>7. QED BY <1>3, <1>4, <1>5, <1>6 DEF Next

NamesInv == PackedInv /\ (spent["refusal"] = 0 => NameInv)

\* The artifacts keep the names of the pack through every step.
LEMMA NamesInitially == Init => NamesInv
<1> SUFFICES ASSUME Init PROVE NameInv BY PackedInit DEF NamesInv
<1>1. run.pc = "publish" /\ run.use = "undo" BY DEF Init
<1>2. NoArtifact BY DEF Init, NoArtifact
<1>3. \A place \in Places : Named(place) BY <1>2 DEF NoArtifact, Named
<1>4. QED
  BY <1>1, <1>2, <1>3 DEF Init, NameInv, PlanInv, UndoInv, FreshInv, CleanInv

\* The same for every step of the program, of a fault and of another program.
LEMMA NamesStep ==
  ASSUME NamesInv, [Next]_vars
  PROVE  NamesInv'
<1> SUFFICES ASSUME spent'["refusal"] = 0 PROVE NameInv'
  BY PackedStep DEF NamesInv
<1>1. PackedInv /\ NameInv /\ ~RefuseCursor BY RefusalsStay DEF NamesInv
<1>2. CASE Control BY <1>1, <1>2, ControlNames
<1>3. ASSUME NEW p \in Paths, HelperStep(p) PROVE NameInv'
  BY <1>1, <1>3, HelperNames
<1>4. ASSUME NEW p \in Paths, RecoveryStep(p) PROVE NameInv'
  BY <1>1, <1>4, RecoveryNames
<1>5. CASE EndOrdinary \/ Crash \/ Edit \/ UNCHANGED vars
  BY <1>1, <1>5, OutsideNames
<1>6. QED BY <1>2, <1>3, <1>4, <1>5 DEF Next, Program, Control

\* While no cursor is refused, every artifact in the workspace is one the pack in
\* the transaction's directory names, so that somebody can still remove it, for
\* any number of paths, crashes, stops and failed publications
\* (restore-engine.ts publication, packed-recovery.ts cleanup).
THEOREM ArtifactsAlwaysNamed == Spec => []ArtifactsNamed
<1>1. NamesInv => ArtifactsNamed
  BY DEF NamesInv, NameInv, Named, ArtifactsNamed
<1>2. NamesInv /\ [Next]_vars => NamesInv' BY NamesStep
<1>3. QED BY <1>1, <1>2, NamesInitially, PTL DEF Spec

-----------------------------------------------------------------------------
(* What the end of an operation finds in the workspace.                      *)

\* What a step of one path leaves alone.
LEMMA PathRun ==
  ASSUME run \in RunType, NEW p \in Paths, HelperStep(p) \/ RecoveryStep(p)
  PROVE  /\ UNCHANGED <<before, after, spent, foreign, pack, log, extra, phase, cursor>>
         /\ run'.use = run.use /\ run'.plan = run.plan
         /\ run.pc \in {"helper", "normalize", "finalize", "cleanup"}
         /\ run'.pc = run.pc \/ run'.pc = "locked"
<1> USE DEF RunType
<1>1. CASE HelperStep(p)
  BY <1>1 DEF HelperStep, createTarget, fillTarget, verifyFile, captureSource,
     unlinkSource, installTarget, verifyInstalled, Here, Go, world, others
<1>2. CASE finalizeDurablePack(p)
  BY <1>2 DEF finalizeDurablePack, Here, Go, Locked, world, others
<1>3. CASE RecoveryStep(p) /\ ~finalizeDurablePack(p)
  BY <1>3 DEF RecoveryStep, normalizeRecord, unlinkOriginal, writeBytesExclusive,
     materialize, linkOwnershipMarker, cleanupArtifact, cleanupPackedMutations,
     Here, Go, world, others
<1>4. QED BY <1>1, <1>2, <1>3

\* The uses of the program, and what the cursor says about them.
CursorInv ==
  /\ run.use = "undo" => ~cursor /\ run.plan = "forward" /\ spent["refusal"] = 0
  /\ run.use = "compensation" => run.plan = "back"
  /\ run.use = "commit" => cursor
  /\ run.pc = "verified" => run.use = "undo"
  /\ run.pc \in {"publish", "link", "helper"} => run.use \in {"undo", "compensation"}
  /\ run.pc \in {"finalize", "cleanup"} => cursor
  /\ cursor => /\ run.use \in {"commit", "recovery"} /\ run.plan = "forward"
               /\ pack = "forward" /\ spent["refusal"] = 0
               /\ run.pc \notin {"publish", "link", "helper", "verified"}
  /\ phase = "COMMITTED" => cursor
  /\ phase = "ABORTED" => ~cursor
  /\ phase \in {"COMMITTED", "ABORTED"} => run.pc = "settled"

\* The steps keep the uses of the program apart: only a verified first apply
\* writes the cursor, and only with a cursor is anything finalized
\* (controller.ts commit, packed-recovery.ts direction of recovery).
LEMMA CursorStep ==
  ASSUME NamesInv, CursorInv, [Next]_vars
  PROVE  CursorInv'
<1>1. /\ run \in RunType /\ pack \in Plans \cup {None} /\ cursor \in BOOLEAN
      /\ spent \in [Faults -> Nat]
  BY DEF NamesInv, PackedInv, Shape, Flags
<1>2. ASSUME NEW p \in Paths, HelperStep(p) \/ RecoveryStep(p) PROVE CursorInv'
  BY <1>1, <1>2, PathRun DEF CursorInv
<1>3. CASE Program /\ spent' = spent /\ ~\E p \in Paths : HelperStep(p) \/ RecoveryStep(p)
  <2> USE <1>1, <1>3 DEF CursorInv, RunType, world
  <2>1. CASE StaleRecords BY <2>1 DEF StaleRecords, Locked
  <2>2. CASE createDurablePack BY <2>2 DEF createDurablePack, At
  <2>3. CASE UnlinkPack BY <2>3 DEF UnlinkPack, At
  <2>4. CASE publishCachedDurablePack BY <2>4 DEF publishCachedDurablePack, At
  <2>5. CASE HelperFails BY <2>5 DEF HelperFails, At
  <2>6. CASE HelperSucceeds BY <2>6, ZenonT(60) DEF HelperSucceeds, GiveUp, Compensating, Locked, At
  <2>7. CASE CommitCursor BY <2>7 DEF CommitCursor, At, NamesInv, NameInv, PlanInv
  <2>8. CASE ensurePackedIntents BY <2>8 DEF ensurePackedIntents, At
  <2>9. CASE Mismatch BY <2>9, ZenonT(60) DEF Mismatch, GiveUp, Compensating, Locked, At
  <2>10. CASE advanceNormalized
    BY <2>10, ZenonT(60) DEF advanceNormalized, GiveUp, Compensating, Locked, At, RollForward
  <2>11. CASE Conflict BY <2>11, ZenonT(60) DEF Conflict, GiveUp, Compensating, Locked, At
  <2>12. CASE materializePackedMutationJournal
    BY <2>12 DEF materializePackedMutationJournal
  <2>13. CASE Finalized BY <2>13 DEF Finalized, At
  <2>14. CASE CleanupDone BY <2>14 DEF CleanupDone, At
  <2>15. CASE Restart
    BY <2>15, ZenonT(60) DEF Restart, recoverMutations, isFullyCompensated, Locked, At
  <2>16. CASE verifyKnownState BY <2>16 DEF verifyKnownState, Locked
  <2>17. CASE BeginOrdinary BY <2>17 DEF BeginOrdinary
  <2>18. CASE EndOrdinary BY <2>18 DEF EndOrdinary
  <2>19. CASE Settle BY <2>19 DEF Settle
  <2>20. QED
    BY <2>1, <2>2, <2>3, <2>4, <2>5, <2>6, <2>7, <2>8, <2>9, <2>10, <2>11, <2>12,
       <2>13, <2>14, <2>15, <2>16, <2>17, <2>18, <2>19 DEF Program
<1>4. CASE removeDurablePack \/ HelperStops \/ Crash \/ Edit
  <2>1. spent'["refusal"] = spent["refusal"]
    BY <1>1, <1>4 DEF removeDurablePack, HelperStops, Crash, Edit, Spend, Faults
  <2> USE <1>1, <2>1 DEF CursorInv, RunType
  <2>2. CASE removeDurablePack BY <2>2 DEF removeDurablePack, At
  <2>3. CASE HelperStops BY <2>3 DEF HelperStops, At
  <2>4. CASE Crash
    <3>1. phase \notin {"COMMITTED", "ABORTED"} BY <2>4 DEF Crash, Working
    <3>2. /\ run'.pc = "dead" /\ run'.use = run.use /\ run'.plan = run.plan
          /\ UNCHANGED <<pack, phase, cursor>>
      BY <2>4 DEF Crash
    <3>3. QED BY <3>1, <3>2
  <2>5. CASE Edit BY <2>5 DEF Edit
  <2>6. QED BY <1>4, <2>2, <2>3, <2>4, <2>5
<1>5. CASE RefuseCursor
  BY <1>1, <1>5 DEF RefuseCursor, Compensating, At, RunType, CursorInv
<1>6. CASE RecoverAgain
  BY <1>1, <1>6, ZenonT(60) DEF RecoverAgain, recoverMutations, isFullyCompensated, Locked, At,
     RunType, CursorInv, world
<1>7. CASE UNCHANGED vars BY <1>7 DEF vars, CursorInv
<1>8. Program /\ ~(\E p \in Paths : HelperStep(p) \/ RecoveryStep(p)) => spent' = spent
  BY DEF Program, StaleRecords, createDurablePack, UnlinkPack, publishCachedDurablePack,
     HelperFails, HelperSucceeds, CommitCursor, ensurePackedIntents, Mismatch,
     advanceNormalized, Conflict, materializePackedMutationJournal, Finalized,
     CleanupDone, Restart, recoverMutations, verifyKnownState, BeginOrdinary,
     EndOrdinary, Settle, world
<1>9. QED BY <1>2, <1>3, <1>4, <1>5, <1>6, <1>7, <1>8 DEF Next

\* What is known of the files of an operation nobody disturbed.  A path of a
\* recovery on its way back that is past its file has the file it is to have; a
\* sealed one is at its target and on the disk; the helper of a compensation
\* gets no further than its first check.
PathFiles(p) ==
  /\ run.pc = "normalize" /\ ~cursor /\ run.at[p] \in {"source", "target", "done"} =>
       file[p] = Goal(p)
  /\ run.pc = "finalize" /\ run.at[p] = "sealed" => file[p] = After(p) /\ p \in durable
  /\ run.pc = "cleanup" =>
       /\ file[p] = After(p) /\ p \in durable
       /\ run.at[p] = "target" => art[Source(p)] = Absent
       /\ run.at[p] = "done" => art[Source(p)] = Absent /\ art[Target(p)] = Absent
  /\ run.pc = "helper" /\ run.use = "compensation" =>
       run.at[p] \in {"new", "filling", "created"}

\* A compensation that publishes its pack finds the files back already.
BackFiles ==
  run.use = "compensation" =>
    /\ run.pc \in {"link", "helper"} \/ (run.pc = "publish" /\ ~ActiveRecords) =>
         file = before
    /\ run.pc \in {"publish", "link"} => log # <<>>

\* An ordinary apply begins when nothing of the native one is left.
OrdinaryFiles ==
  run.pc \in {"ordinary", "applying"} =>
    /\ NoArtifact /\ (cursor => durable = Paths)
    /\ pack = None => log # <<>> \/ extra # "none"

\* Without pack and records nothing has been touched.
BareFiles ==
  /\ pack = None /\ log = <<>> /\ extra = "none" => file = before /\ durable = Paths
  /\ run.use = "undo" /\ run.pc \in {"publish", "link"} => file = before /\ durable = Paths

EndFiles ==
  /\ phase = "COMMITTED" => file = after /\ durable = Paths /\ NoArtifact
  /\ phase = "ABORTED" => file = before /\ NoArtifact

FileInv ==
  /\ \A p \in Paths : before[p] # after[p]
  /\ \A p \in Paths : PathFiles(p)
  /\ BackFiles /\ OrdinaryFiles /\ BareFiles /\ EndFiles

Facts == PackedInv /\ NameInv /\ CursorInv /\ FileInv

\* An operation that has not ended stays so.
LEMMA NotEnded ==
  ASSUME CursorInv, run.pc # "settled", phase' = phase
  PROVE  EndFiles'
BY DEF CursorInv, EndFiles

\* Stopped, locked or settled, the program holds no file to a promise but the one
\* of its end.
LEMMA ParkedFiles ==
  ASSUME FileInv, run'.pc \in {"locked", "settled", "dead", "intents", "verified"},
         UNCHANGED <<before, after>>, BareFiles', EndFiles'
  PROVE  FileInv'
<1>1. \A p \in Paths : PathFiles(p)' BY DEF PathFiles
<1>2. BackFiles' /\ OrdinaryFiles' BY DEF BackFiles, OrdinaryFiles
<1>3. QED BY <1>1, <1>2 DEF FileInv

\* A pack in the directory means that an empty log says nothing.
LEMMA PackedBare ==
  ASSUME pack' \in Plans, run'.pc \notin {"publish", "link"}
  PROVE  BareFiles'
BY PackedAssumption DEF BareFiles, Names

\* Every path of a cleanup is clean of artifacts.
LEMMA CleanedUp ==
  ASSUME NameInv, FileInv, run \in RunType, run.pc = "cleanup", Passed({"done"})
  PROVE  NoArtifact
<1> SUFFICES ASSUME NEW place \in Places PROVE art[place] = Absent
  BY DEF NoArtifact
<1>1. /\ place[3] \in Paths /\ place[2] \in {"source", "target"}
      /\ place = <<place[1], place[2], place[3]>>
  BY DEF Places
<1>2. art[Source(place[3])] = Absent /\ art[Target(place[3])] = Absent
  BY <1>1 DEF FileInv, PathFiles, Passed
<1>3. art[place] # Absent => place[1] = Name(run.plan)
  BY DEF NameInv, PlanInv, Named
<1>4. QED BY <1>1, <1>2, <1>3 DEF Source, Target

\* Publication keeps the files as they are, the way back included.
LEMMA PublishFiles ==
  ASSUME Facts,
         createDurablePack \/ UnlinkPack \/ publishCachedDurablePack \/ removeDurablePack
  PROVE  FileInv'
<1>1. run \in RunType /\ run.plan \in Plans /\ run.pc \in {"publish", "link"}
  BY DEF Facts, PackedInv, Shape, RunType, createDurablePack, UnlinkPack,
         publishCachedDurablePack, removeDurablePack
<1>2. UNCHANGED <<before, after, file, art, log, extra, durable, phase, cursor>>
  BY DEF createDurablePack, UnlinkPack, publishCachedDurablePack, removeDurablePack, world
<1>3. NoArtifact /\ (run.pc = "link" \/ ~ActiveRecords)
  BY DEF Facts, NameInv, FreshInv, createDurablePack, UnlinkPack, publishCachedDurablePack,
         removeDurablePack
<1>4. /\ run'.plan = run.plan /\ run'.use = run.use /\ run'.at = [p \in Paths |-> "new"]
      /\ \/ run'.pc = "helper" /\ pack' = run.plan
         \/ run'.pc = "link" /\ pack' = None
         \/ run'.pc = "ordinary" /\ pack' = None /\ run.use = "compensation"
  <2>1. CASE createDurablePack BY <1>1, <2>1 DEF createDurablePack, At, RunType
  <2>2. CASE UnlinkPack BY <1>1, <2>2 DEF UnlinkPack, At, RunType
  <2>3. CASE publishCachedDurablePack BY <1>1, <2>3 DEF publishCachedDurablePack, At, RunType
  <2>4. CASE removeDurablePack BY <1>1, <2>4 DEF removeDurablePack, At, RunType
  <2>5. QED BY <2>1, <2>2, <2>3, <2>4
<1>5. run.use \in {"undo", "compensation"} /\ ~cursor
  BY <1>1 DEF Facts, CursorInv
<1>6. /\ file = before
      /\ run.use = "undo" => durable = Paths
      /\ run.use = "compensation" => log # <<>>
  BY <1>1, <1>3, <1>5 DEF Facts, FileInv, BackFiles, BareFiles
<1>7. \A p \in Paths : PathFiles(p)' BY <1>4 DEF PathFiles
<1>8. BackFiles' BY <1>2, <1>4, <1>6 DEF BackFiles
<1>9. OrdinaryFiles' BY <1>2, <1>3, <1>4, <1>5, <1>6 DEF OrdinaryFiles, NoArtifact
<1>10. BareFiles' BY <1>1, <1>2, <1>4, <1>5, <1>6, PackedAssumption DEF BareFiles, Names
<1>11. EndFiles' BY <1>1, <1>2, NotEnded DEF Facts
<1>12. QED BY <1>2, <1>7, <1>8, <1>9, <1>10, <1>11 DEF Facts, FileInv

\* A compensation whose rollback succeeded starts from the files as they were;
\* one whose rollback failed has the records that stop it.
LEMMA CompensatingFiles ==
  ASSUME Facts, Compensating, run.pc # "settled", phase \notin {"COMMITTED", "ABORTED"},
         UNCHANGED <<before, after>>, file' = file,
         ActiveRecords' \/ file = before, log' # <<>>
  PROVE  FileInv'
<1>1. run'.pc = "publish" /\ run'.use = "compensation"
  BY DEF Facts, PackedInv, Shape, RunType, Compensating, At
<1>2. (\A p \in Paths : PathFiles(p)') /\ OrdinaryFiles'
  BY <1>1 DEF PathFiles, OrdinaryFiles
<1>3. BackFiles' BY <1>1 DEF BackFiles
<1>4. BareFiles' BY <1>1 DEF BareFiles
<1>5. EndFiles' BY DEF Compensating, EndFiles
<1>6. QED BY <1>2, <1>3, <1>4, <1>5 DEF Facts, FileInv

\* The ends of the helper, the cursor, and the verdicts of a recovery.
LEMMA VerdictFiles ==
  ASSUME Facts,
         \/ StaleRecords \/ verifyKnownState \/ HelperFails \/ HelperStops
         \/ HelperSucceeds \/ CommitCursor \/ ensurePackedIntents \/ Mismatch
         \/ advanceNormalized \/ Conflict
  PROVE  FileInv'
<1>1. /\ Shape /\ run \in RunType /\ run.plan \in Plans
      /\ PlanInv /\ UndoInv /\ CursorInv /\ NameInv /\ FileInv
  BY DEF Facts, PackedInv, Shape, RunType, NameInv
<1>2. UNCHANGED <<before, after, file, art, durable, pack, extra>>
  BY DEF StaleRecords, verifyKnownState, HelperFails, HelperStops, HelperSucceeds,
     CommitCursor, ensurePackedIntents, Mismatch, advanceNormalized, Conflict, world
<1>3. run.pc # "settled" /\ phase \notin {"COMMITTED", "ABORTED"}
  BY <1>1 DEF StaleRecords, verifyKnownState, HelperFails, HelperStops, HelperSucceeds,
     CommitCursor, ensurePackedIntents, Mismatch, advanceNormalized, Conflict, CursorInv
<1>4. run' = Locked => run'.pc = "locked" BY <1>1 DEF Locked, RunType
<1>5. CASE StaleRecords \/ verifyKnownState
  <2>1. run'.pc = "locked" /\ log' = log /\ phase' = phase
    BY <1>4, <1>5 DEF StaleRecords, verifyKnownState
  <2>2. BareFiles' BY <1>1, <1>2, <2>1 DEF BareFiles, FileInv
  <2>3. QED BY <1>1, <1>2, <1>3, <2>1, <2>2, NotEnded, ParkedFiles
<1>6. CASE HelperFails \/ HelperStops
  <2>1. run'.pc = "intents" /\ phase' = phase /\ run.pc = "helper"
    BY <1>1, <1>6 DEF HelperFails, HelperStops, At, RunType
  <2>2. pack' \in Plans BY <1>1, <1>2, <2>1 DEF PlanInv
  <2>3. QED BY <1>1, <1>2, <1>3, <2>1, <2>2, NotEnded, ParkedFiles, PackedBare
<1>7. CASE HelperSucceeds
  <2>1. run.pc = "helper" /\ Passed({"checked"}) BY <1>7 DEF HelperSucceeds
  <2>2. 1 \in Paths BY PackedAssumption DEF Paths
  <2>3. run.use = "undo"
    BY <1>1, <2>1, <2>2 DEF FileInv, PathFiles, Passed, CursorInv
  <2>4. log = <<>> BY <1>1, <2>1, <2>3 DEF UndoInv
  <2>5. run'.pc = "verified" /\ phase' = "FILES_VERIFIED"
    BY <1>1, <1>7, <2>3, <2>4 DEF HelperSucceeds, RunType
  <2>6. pack' \in Plans BY <1>1, <1>2, <2>1 DEF PlanInv
  <2>7. EndFiles' BY <2>5 DEF EndFiles
  <2>8. QED BY <1>1, <1>2, <2>5, <2>6, <2>7, ParkedFiles, PackedBare
<1>8. CASE CommitCursor
  <2>1. /\ run'.pc = "finalize" /\ run'.use = "commit" /\ phase' = "CURSOR_COMMITTED"
        /\ run'.at = [p \in Paths |-> "look"] /\ run.pc = "verified"
    BY <1>1, <1>8 DEF CommitCursor, At, RunType
  <2>2. pack' \in Plans BY <1>1, <1>2, <2>1 DEF PlanInv
  <2>3. BareFiles' BY <2>1, <2>2, PackedBare
  <2>4. (\A p \in Paths : PathFiles(p)') /\ BackFiles' /\ OrdinaryFiles' /\ EndFiles'
    BY <2>1 DEF PathFiles, BackFiles, OrdinaryFiles, EndFiles
  <2>5. QED BY <1>1, <1>2, <2>3, <2>4 DEF FileInv
<1>9. CASE ensurePackedIntents
  <2>1. /\ run'.pc = "normalize" /\ run'.at = [p \in Paths |-> "look"] /\ phase' = phase
        /\ run.pc = "intents"
    BY <1>1, <1>9 DEF ensurePackedIntents, At, RunType
  <2>2. pack' \in Plans BY <1>1, <1>2, <2>1 DEF PlanInv
  <2>3. BareFiles' BY <2>1, <2>2, PackedBare
  <2>4. (\A p \in Paths : PathFiles(p)') /\ BackFiles' /\ OrdinaryFiles'
    BY <2>1 DEF PathFiles, BackFiles, OrdinaryFiles
  <2>5. QED BY <1>1, <1>2, <1>3, <2>1, <2>3, <2>4, NotEnded DEF FileInv
<1>10. CASE Mismatch
  <2>1. run.pc = "intents" BY <1>10 DEF Mismatch
  <2>2. run.use # "undo" BY <1>1, <1>10, <2>1 DEF Mismatch, Matches, UndoInv, PlanInv
  <2>3. run'.pc = "locked" /\ phase' = phase BY <1>4, <1>10, <2>2 DEF Mismatch, GiveUp
  <2>4. pack' \in Plans BY <1>1, <1>2, <2>1 DEF PlanInv
  <2>5. QED BY <1>1, <1>2, <1>3, <2>3, <2>4, NotEnded, ParkedFiles, PackedBare
<1>11. CASE advanceNormalized
  <2>1. run.pc = "normalize" /\ Passed({"done"}) /\ log' = Advanced
    BY <1>11 DEF advanceNormalized
  <2>2. pack' \in Plans BY <1>1, <1>2, <2>1 DEF PlanInv
  <2>3. CASE run' = Locked /\ phase' = phase
    BY <1>1, <1>2, <1>3, <1>4, <2>2, <2>3, NotEnded, ParkedFiles, PackedBare
  <2>4. CASE run.use = "undo" /\ Compensating
    <3>1. ~cursor /\ run.plan = "forward" BY <1>1, <2>4 DEF CursorInv
    <3>2. \A p \in Paths : file[p] = before[p]
      BY <1>1, <2>1, <3>1 DEF FileInv, PathFiles, Passed, Goal, RollForward, Before, From
    <3>3. file = before BY <3>2 DEF Facts, PackedInv, Disk, Shape
    <3>4. Advanced # <<>>
      <4>1. 1 \in DOMAIN Advanced BY PackedAssumption DEF Advanced, Paths
      <4>2. QED BY <4>1
    <3>5. QED BY <1>2, <1>3, <2>1, <2>4, <3>3, <3>4, CompensatingFiles
  <2>5. CASE /\ run.use = "recovery" /\ phase' = phase
             /\ run' = At(IF RollForward THEN "finalize" ELSE "ordinary", "look")
    <3>1. /\ run'.pc = (IF RollForward THEN "finalize" ELSE "ordinary")
          /\ run'.use = "recovery" /\ run'.at = [p \in Paths |-> "look"]
      BY <1>1, <2>5 DEF At, RunType
    <3>2. (\A p \in Paths : PathFiles(p)') /\ BackFiles'
      BY <3>1 DEF PathFiles, BackFiles
    <3>3. OrdinaryFiles'
      <4>1. SUFFICES ASSUME ~cursor PROVE OrdinaryFiles'
        BY <3>1 DEF OrdinaryFiles, RollForward
      <4>2. NoArtifact' BY <1>1, <1>2, <2>1, <4>1, NormalizedClean DEF NoArtifact
      <4>3. cursor' = cursor BY <1>11 DEF advanceNormalized
      <4>4. pack' # None BY <2>2, PackedAssumption DEF Names
      <4>5. QED BY <4>1, <4>2, <4>3, <4>4 DEF OrdinaryFiles
    <3>4. BareFiles' BY <2>2, <3>1, PackedBare
    <3>5. QED BY <1>1, <1>2, <1>3, <2>5, <3>2, <3>3, <3>4, NotEnded DEF FileInv
  <2>6. QED BY <1>11, <2>3, <2>4, <2>5 DEF advanceNormalized, GiveUp
<1>12. CASE Conflict
  <2>1. run.pc \in {"normalize", "cleanup"} /\ log' = log BY <1>12 DEF Conflict
  <2>2. pack' \in Plans BY <1>1, <1>2, <2>1 DEF PlanInv
  <2>3. CASE run' = Locked /\ phase' = phase
    BY <1>1, <1>2, <1>3, <1>4, <2>2, <2>3, NotEnded, ParkedFiles, PackedBare
  <2>4. CASE run.use = "undo" /\ Compensating
    <3>1. \E i \in DOMAIN log : log[i].state = "INTENT"
      BY <1>1, <2>1, <2>4 DEF UndoInv
    <3>2. ActiveRecords' BY <1>2, <2>1, <3>1 DEF ActiveRecords
    <3>3. log' # <<>> BY <2>1, <3>1
    <3>4. QED BY <1>2, <1>3, <2>4, <3>2, <3>3, CompensatingFiles
  <2>5. QED BY <1>12, <2>3, <2>4 DEF Conflict, GiveUp
<1>13. QED
  BY <1>5, <1>6, <1>7, <1>8, <1>9, <1>10, <1>11, <1>12

\* Finalization, a restart, and the ordinary apply: what ends an operation.
LEMMA EndingFiles ==
  ASSUME Facts,
         \/ materializePackedMutationJournal \/ Finalized \/ CleanupDone
         \/ Restart \/ RecoverAgain \/ BeginOrdinary \/ Settle \/ EndOrdinary
  PROVE  FileInv'
<1>1. /\ Shape /\ run \in RunType /\ run.plan \in Plans /\ pack \in Plans \cup {None}
      /\ Disk /\ PlanInv /\ UndoInv /\ CursorInv /\ NameInv /\ FileInv
  BY DEF Facts, PackedInv, Shape, RunType, NameInv, Flags
<1>2. UNCHANGED <<before, after, art, pack, cursor>>
  BY DEF materializePackedMutationJournal, Finalized, CleanupDone, Restart, RecoverAgain,
     recoverMutations, BeginOrdinary, Settle, EndOrdinary, world
<1>3. run.pc # "settled" /\ phase \notin {"COMMITTED", "ABORTED"}
  BY <1>1 DEF materializePackedMutationJournal, Finalized, CleanupDone, Restart,
     RecoverAgain, BeginOrdinary, Settle, EndOrdinary, CursorInv
<1>4. cursor => \A p \in Paths : After(p) = after[p]
  BY <1>1 DEF CursorInv, After, To
<1>5. CASE materializePackedMutationJournal
  <2>1. /\ run' = run /\ run.pc = "finalize" /\ run.use = "commit"
        /\ UNCHANGED <<file, durable, phase>>
    BY <1>5 DEF materializePackedMutationJournal
  <2>2. pack' \in Plans BY <1>1, <1>2, <2>1 DEF PlanInv
  <2>3. BareFiles' BY <2>1, <2>2, PackedBare
  <2>4. ASSUME NEW p \in Paths PROVE PathFiles(p)'
    <3>1. After(p)' = After(p) BY <1>2, <2>1 DEF After, To
    <3>2. QED BY <1>1, <2>1, <3>1 DEF FileInv, PathFiles
  <2>5. BackFiles' /\ OrdinaryFiles' BY <2>1 DEF BackFiles, OrdinaryFiles
  <2>6. QED BY <1>1, <1>2, <1>3, <2>1, <2>3, <2>4, <2>5, NotEnded DEF FileInv
<1>6. CASE Finalized
  <2>1. /\ run'.pc = "cleanup" /\ run'.use = run.use /\ run'.plan = run.plan
        /\ run'.at = [p \in Paths |-> "look"]
        /\ run.pc = "finalize" /\ Passed({"sealed"})
        /\ UNCHANGED <<file, durable, phase>>
    BY <1>1, <1>6 DEF Finalized, At, RunType
  <2>2. pack' \in Plans BY <1>1, <1>2, <2>1 DEF PlanInv
  <2>3. BareFiles' BY <2>1, <2>2, PackedBare
  <2>4. ASSUME NEW p \in Paths PROVE PathFiles(p)'
    <3>1. After(p)' = After(p) BY <1>2, <2>1 DEF After, To
    <3>2. file[p] = After(p) /\ p \in durable
      BY <1>1, <2>1 DEF FileInv, PathFiles, Passed
    <3>3. QED BY <2>1, <3>1, <3>2 DEF PathFiles
  <2>5. BackFiles' /\ OrdinaryFiles' BY <2>1 DEF BackFiles, OrdinaryFiles
  <2>6. QED BY <1>1, <1>2, <1>3, <2>1, <2>3, <2>4, <2>5, NotEnded DEF FileInv
<1>7. CASE CleanupDone
  <2>1. /\ run.pc = "cleanup" /\ Passed({"done"}) /\ UNCHANGED <<file, durable, extra>>
        /\ phase' = IF run.use = "commit" THEN "COMMITTED" ELSE phase
        /\ run'.pc = IF run.use = "commit" THEN "settled" ELSE "ordinary"
        /\ run'.use = run.use
    BY <1>1, <1>7 DEF CleanupDone, At, RunType
  <2>2. cursor BY <1>1, <2>1 DEF CursorInv
  <2>3. NoArtifact BY <1>1, <2>1, CleanedUp
  <2>4. \A p \in Paths : file[p] = after[p] /\ p \in durable
    BY <1>1, <1>4, <2>1, <2>2 DEF FileInv, PathFiles
  <2>5. file = after /\ durable = Paths BY <1>1, <2>4 DEF Disk, Shape
  <2>6. NoArtifact' BY <1>2, <2>3 DEF NoArtifact
  <2>7. pack' \in Plans /\ pack' # None
    BY <1>1, <1>2, <2>1, PackedAssumption DEF PlanInv, Names
  <2>8. BareFiles' BY <2>1, <2>7, PackedBare
  <2>9. OrdinaryFiles' BY <2>1, <2>5, <2>6, <2>7 DEF OrdinaryFiles
  <2>10. EndFiles' BY <1>2, <1>3, <2>1, <2>5, <2>6 DEF EndFiles
  <2>11. (\A p \in Paths : PathFiles(p)') /\ BackFiles' BY <2>1 DEF PathFiles, BackFiles
  <2>12. QED BY <1>1, <1>2, <2>8, <2>9, <2>10, <2>11 DEF FileInv
<1>8. CASE Restart \/ RecoverAgain
  <2>1. UNCHANGED <<file, durable, log, extra>>
    BY <1>8 DEF Restart, RecoverAgain, recoverMutations, world
  <2>2. pack = None => NoArtifact BY <1>1 DEF NameInv, Named, NoArtifact
  <2>3. CASE isFullyCompensated
    <3>1. phase' = "ABORTED" /\ run'.pc = "settled" /\ run'.use = run.use
      BY <1>1, <1>8, <2>3 DEF Restart, RecoverAgain, recoverMutations, RunType
    <3>2. file = before /\ NoArtifact
      BY <1>1, <2>2, <2>3 DEF isFullyCompensated, FileInv, BareFiles
    <3>3. EndFiles' BY <1>2, <2>1, <3>1, <3>2 DEF EndFiles, NoArtifact
    <3>4. BareFiles' BY <1>1, <1>2, <2>1, <3>1 DEF FileInv, BareFiles
    <3>5. QED BY <1>1, <1>2, <3>1, <3>3, <3>4, ParkedFiles
  <2>4. CASE ~isFullyCompensated /\ (pack = "back" \/ pack # None)
    <3>1. run'.pc \in {"locked", "intents"} /\ phase' = phase
      BY <1>1, <1>8, <2>4, PackedAssumption, ZenonT(60)
         DEF Restart, RecoverAgain, recoverMutations, Locked, At, RunType, Names, Plans
    <3>2. BareFiles' BY <1>1, <1>2, <2>1, <3>1 DEF FileInv, BareFiles
    <3>3. QED BY <1>1, <1>2, <1>3, <3>1, <3>2, NotEnded, ParkedFiles
  <2>5. CASE ~isFullyCompensated /\ pack = None
    <3>1. pack # "back" BY <2>5, PackedAssumption DEF Names, Plans
    <3>2. run'.pc = "ordinary" /\ run'.use = "recovery" /\ phase' = phase
      BY <1>1, <1>8, <2>5, <3>1 DEF Restart, RecoverAgain, recoverMutations, At, RunType
    <3>3. ~cursor
      <4>1. pack # "forward" BY <2>5, PackedAssumption DEF Names, Plans
      <4>2. QED BY <1>1, <4>1 DEF CursorInv
    <3>4. log # <<>> \/ extra # "none" BY <2>5, <3>3 DEF isFullyCompensated
    <3>5. NoArtifact' BY <1>2, <2>2, <2>5 DEF NoArtifact
    <3>6. OrdinaryFiles' BY <1>2, <2>1, <3>3, <3>4, <3>5 DEF OrdinaryFiles
    <3>7. BareFiles' BY <2>1, <3>2, <3>4 DEF BareFiles
    <3>8. (\A p \in Paths : PathFiles(p)') /\ BackFiles' BY <3>2 DEF PathFiles, BackFiles
    <3>9. QED BY <1>1, <1>2, <1>3, <3>2, <3>6, <3>7, <3>8, NotEnded DEF FileInv
  <2>6. QED BY <2>3, <2>4, <2>5
<1>9. CASE BeginOrdinary
  <2>1. /\ run.pc = "ordinary" /\ run'.pc = "applying" /\ run'.use = run.use
        /\ extra' = "active" /\ UNCHANGED <<file, durable, log, phase>>
    BY <1>1, <1>9 DEF BeginOrdinary, RunType
  <2>2. OrdinaryFiles'
    BY <1>1, <1>2, <2>1 DEF FileInv, OrdinaryFiles, NoArtifact
  <2>3. BareFiles' /\ BackFiles' /\ \A p \in Paths : PathFiles(p)'
    BY <2>1 DEF BareFiles, BackFiles, PathFiles
  <2>4. QED BY <1>1, <1>2, <1>3, <2>1, <2>2, <2>3, NotEnded DEF FileInv
<1>10. CASE Settle
  <2>1. /\ run.pc = "ordinary" /\ run'.pc = "settled" /\ run'.use = run.use /\ file = Wanted
        /\ phase' = (IF cursor THEN "COMMITTED" ELSE "ABORTED")
        /\ UNCHANGED <<file, durable, log, extra>>
    BY <1>1, <1>10 DEF Settle, RunType
  <2>2. NoArtifact /\ (cursor => durable = Paths)
    BY <1>1, <2>1 DEF FileInv, OrdinaryFiles
  <2>3. EndFiles' BY <1>2, <2>1, <2>2 DEF EndFiles, Wanted, NoArtifact
  <2>4. BareFiles' BY <1>1, <1>2, <2>1 DEF FileInv, BareFiles
  <2>5. QED BY <1>1, <1>2, <2>1, <2>3, <2>4, ParkedFiles
<1>11. CASE EndOrdinary
  <2>1. /\ run.pc = "applying" /\ run'.pc = "ordinary" /\ run'.use = run.use
        /\ extra' = "cleaned" /\ phase' = phase
        /\ durable \subseteq durable' /\ durable' \subseteq Paths
    BY <1>1, <1>11 DEF EndOrdinary, RunType, Disk
  <2>2. OrdinaryFiles'
    BY <1>1, <1>2, <2>1 DEF FileInv, OrdinaryFiles, NoArtifact
  <2>3. BareFiles' /\ BackFiles' /\ \A p \in Paths : PathFiles(p)'
    BY <2>1 DEF BareFiles, BackFiles, PathFiles
  <2>4. QED BY <1>1, <1>2, <1>3, <2>1, <2>2, <2>3, NotEnded DEF FileInv
<1>12. QED
  BY <1>5, <1>6, <1>7, <1>8, <1>9, <1>10, <1>11

\* A crash keeps the log no emptier than it was, and where nothing was touched
\* there is nothing a power failure can take.
LEMMA CrashFiles ==
  ASSUME Facts, Crash
  PROVE  FileInv'
<1>1. run'.pc = "dead" /\ run'.use = run.use
  BY DEF Facts, PackedInv, Shape, RunType, Crash
<1>2. UNCHANGED <<before, after, pack, extra, durable, phase, cursor>> BY DEF Crash
<1>3. log' = <<>> => log = <<>>
  <2>1. log \in Seq(Record) /\ Writing \in Seq(Record)
    BY Logs DEF Facts, PackedInv, Shape, Writing
  <2>2. PICK n \in 0 .. Len(Writing) :
          log' = SubSeq(Writing, 1, n) \o SubSeq(log, n + 1, Len(log))
    BY DEF Crash
  <2> DEFINE front == SubSeq(Writing, 1, n)
             rest == SubSeq(log, n + 1, Len(log))
  <2>3. front \in Seq(Record) /\ Len(front) = n BY <2>1
  <2>4. rest \in Seq(Record) /\ (n = 0 => Len(rest) = Len(log))
    <3>1. CASE n < Len(log) BY <2>1, <3>1
    <3>2. CASE n >= Len(log) BY <2>1, <3>2
    <3>3. QED BY <2>1, <3>1, <3>2
  <2> HIDE DEF front, rest
  <2>5. Len(front \o rest) = n + Len(rest) BY <2>3, <2>4, ConcatProperties
  <2>6. SUFFICES ASSUME front \o rest = <<>> PROVE log = <<>> BY <2>2 DEF front, rest
  <2>7. n + Len(rest) = 0 BY <2>5, <2>6
  <2>8. Len(log) = 0 BY <2>3, <2>4, <2>7
  <2>9. QED BY <2>1, <2>8
<1>4. BareFiles'
  <2>1. SUFFICES ASSUME pack = None, log = <<>>, extra = "none"
                 PROVE  file' = before /\ durable = Paths
    BY <1>1, <1>2, <1>3 DEF BareFiles
  <2>2. file = before /\ durable = Paths BY <2>1 DEF Facts, FileInv, BareFiles
  <2>3. file' = file BY <2>2 DEF Crash, Facts, PackedInv, Disk
  <2>4. QED BY <2>2, <2>3
<1>5. EndFiles' BY <1>2, NotEnded DEF Facts, Crash, Working
<1>6. QED BY <1>1, <1>2, <1>4, <1>5, ParkedFiles DEF Facts

\* The helper of a compensation stops at its first check: the files are back
\* already, and the pack of the way back expects them at the target.
LEMMA HelperFiles ==
  ASSUME Facts, NEW p \in Paths, HelperStep(p)
  PROVE  FileInv'
<1>1. /\ run \in RunType /\ PlanInv /\ CursorInv /\ FileInv /\ PackedInv /\ run.plan \in Plans
  BY DEF Facts, PackedInv, Shape, NameInv, RunType
<1>2. run.pc = "helper"
  BY DEF HelperStep, createTarget, fillTarget, verifyFile, captureSource, unlinkSource,
         installTarget, verifyInstalled, Here
<1>3. /\ UNCHANGED <<before, after, pack, log, extra, phase, cursor>>
      /\ run'.use = run.use /\ run'.plan = run.plan /\ run'.pc \in {"helper", "locked"}
  BY <1>1, <1>2, PathRun
<1>4. pack' \in Plans BY <1>1, <1>2, <1>3 DEF PlanInv
<1>5. BareFiles' /\ OrdinaryFiles' BY <1>3, <1>4, PackedBare DEF OrdinaryFiles
<1>6. EndFiles' BY <1>1, <1>2, <1>3, NotEnded
<1>7. CASE run.use = "compensation"
  <2>1. file = before /\ run.at[p] \in {"new", "filling", "created"}
    BY <1>1, <1>2, <1>7 DEF FileInv, BackFiles, PathFiles
  <2>2. Before(p) = after[p] /\ file[p] # Before(p)
    BY <1>1, <1>7, <2>1 DEF CursorInv, Before, From, FileInv
  <2>3. createTarget(p) \/ fillTarget(p)
    BY <2>1, <2>2 DEF HelperStep, verifyFile, captureSource, unlinkSource, installTarget,
                      verifyInstalled, Here
  <2>4. file' = file BY <2>3 DEF createTarget, fillTarget
  <2>5. PICK where \in {"filling", "created"} : Go(p, where)
    BY <2>3 DEF createTarget, fillTarget
  <2>6. where \in Stages BY DEF Stages, Helping, Created
  <2>7. /\ run'.at[p] = where /\ run'.pc = "helper"
        /\ \A q \in Paths \ {p} : run'.at[q] = run.at[q]
    BY <1>1, <1>2, <2>5, <2>6, GoFields
  <2>8. \A q \in Paths : PathFiles(q)'
    BY <1>1, <1>2, <1>7, <2>7 DEF FileInv, PathFiles
  <2>9. BackFiles' BY <1>3, <2>1, <2>4, <2>7 DEF BackFiles
  <2>10. QED BY <1>1, <1>3, <1>5, <1>6, <2>8, <2>9 DEF FileInv
<1>8. CASE run.use # "compensation"
  <2>1. (\A q \in Paths : PathFiles(q)') /\ BackFiles'
    BY <1>3, <1>8 DEF PathFiles, BackFiles
  <2>2. QED BY <1>1, <1>3, <1>5, <1>6, <2>1 DEF FileInv
<1>9. QED BY <1>7, <1>8

\* A step of a recovery or a finalization leaves the other paths' files, stages
\* and artifacts alone, and takes nothing back from the disk.
LEMMA RecoveryLocal ==
  ASSUME PackedInv, NEW p \in Paths, RecoveryStep(p), NEW q \in Paths \ {p}
  PROVE  /\ file'[q] = file[q] /\ run'.at[q] = run.at[q] /\ (q \in durable => q \in durable')
         /\ art'[Source(q)] = art[Source(q)] /\ art'[Target(q)] = art[Target(q)]
<1> USE PathFacts
<1>1. run \in RunType /\ run.at \in [Paths -> Stages] /\ p \in Paths
  BY DEF RunType
<1>2. run'.at[q] = run.at[q]
  <2>1. ASSUME NEW where, Go(p, where) PROVE run'.at[q] = run.at[q]
    BY <1>1, <2>1 DEF Go, RunType
  <2>2. run' = Locked => run'.at[q] = run.at[q] BY <1>1 DEF Locked, RunType
  <2>3. run' = Locked \/ \E where \in Stages : Go(p, where)
    <3> USE DEF Stages, Idle, Touching
    <3>1. CASE normalizeRecord(p) BY <3>1 DEF normalizeRecord
    <3>2. CASE unlinkOriginal(p) BY <3>2 DEF unlinkOriginal
    <3>3. CASE writeBytesExclusive(p) \/ materialize(p)
      BY <3>3 DEF writeBytesExclusive, materialize
    <3>4. CASE linkOwnershipMarker(p) BY <3>4 DEF linkOwnershipMarker
    <3>5. CASE cleanupArtifact(p) BY <3>5 DEF cleanupArtifact
    <3>6. CASE finalizeDurablePack(p) \/ cleanupPackedMutations(p)
      BY <3>6 DEF finalizeDurablePack, cleanupPackedMutations
    <3>7. QED BY <3>1, <3>2, <3>3, <3>4, <3>5, <3>6 DEF RecoveryStep
  <2>4. QED BY <2>1, <2>2, <2>3
<1>3. file'[q] = file[q] /\ (q \in durable => q \in durable')
  BY DEF RecoveryStep, normalizeRecord, unlinkOriginal, writeBytesExclusive, materialize,
     linkOwnershipMarker, cleanupArtifact, finalizeDurablePack, cleanupPackedMutations, Disk
<1>4. \A place \in Places : place[3] = q => art'[place] = art[place]
  <2>1. CASE linkOwnershipMarker(p) BY <2>1 DEF linkOwnershipMarker, Disk
  <2>2. CASE cleanupArtifact(p) BY <2>2 DEF cleanupArtifact, Disk
  <2>3. CASE art' = art BY <2>3
  <2>4. QED
    BY <2>1, <2>2, <2>3 DEF RecoveryStep, normalizeRecord, unlinkOriginal,
       writeBytesExclusive, materialize, finalizeDurablePack, cleanupPackedMutations
<1>5. QED BY <1>2, <1>3, <1>4

\* Each step of a recovery or a finalization leaves its path as its next stage
\* expects it.
LEMMA RecoveryPath ==
  ASSUME Facts, NEW p \in Paths, RecoveryStep(p)
  PROVE  PathFiles(p)'
<1> USE PathFacts DEF Facts
<1>1. /\ UNCHANGED <<before, after, cursor>>
      /\ run'.use = run.use /\ run'.plan = run.plan
      /\ run'.pc = run.pc \/ run'.pc = "locked"
  BY PathRun
<1>2. /\ Source(p)' = Source(p) /\ Target(p)' = Target(p)
      /\ Goal(p)' = Goal(p) /\ After(p)' = After(p)
  BY <1>1, SamePlaces DEF Goal, RollForward, Before, After, From, To
<1>3. PathFiles(p) /\ CleanInv(p) BY DEF FileInv, NameInv
<1>4. CASE normalizeRecord(p)
  <2>1. PICK where \in {"done", "failed", "source", "unlink", "write"} :
          /\ Go(p, where)
          /\ where = "source" => file[p] = Goal(p)
          /\ where = "done" => cursor
    <3>1. CASE CleanedDelete(p) BY <1>4, <3>1 DEF normalizeRecord, RollForward
    <3>2. CASE ~CleanedDelete(p) /\ ~Known(p) BY <1>4, <3>2 DEF normalizeRecord
    <3>3. CASE ~CleanedDelete(p) /\ Known(p) BY <1>4, <3>3 DEF normalizeRecord, RollForward
    <3>4. QED BY <3>1, <3>2, <3>3
  <2>2. where \in Stages BY DEF Stages, Idle, Touching
  <2>3. run'.at[p] = where /\ run'.pc = run.pc BY <2>1, <2>2, GoFields
  <2>4. run.pc = "normalize" /\ file' = file BY <1>4 DEF normalizeRecord, Here
  <2>5. QED BY <1>1, <1>2, <2>1, <2>3, <2>4 DEF PathFiles
<1>5. CASE unlinkOriginal(p)
  <2>1. PICK where \in {"failed", "source", "write"} :
          Go(p, where) /\ (where = "source" => Goal(p) = Absent)
    BY <1>5 DEF unlinkOriginal
  <2>2. where \in Stages BY DEF Stages, Idle
  <2>3. run'.at[p] = where /\ run'.pc = run.pc BY <2>1, <2>2, GoFields
  <2>4. run.pc = "normalize" /\ file'[p] = Absent BY <1>5 DEF unlinkOriginal, Here, Disk
  <2>5. QED BY <1>1, <1>2, <2>1, <2>3, <2>4 DEF PathFiles
<1>6. CASE writeBytesExclusive(p)
  <2>1. PICK where \in {"failed", "fill"} : Go(p, where) BY <1>6 DEF writeBytesExclusive
  <2>2. where \in Stages BY DEF Stages, Idle, Touching
  <2>3. run'.at[p] = where /\ run'.pc = run.pc BY <2>1, <2>2, GoFields
  <2>4. run.pc = "normalize" BY <1>6 DEF writeBytesExclusive, Here
  <2>5. QED BY <2>1, <2>3, <2>4 DEF PathFiles
<1>7. CASE materialize(p)
  <2>1. PICK where \in {"failed", "mark", "source"} :
          Go(p, where) /\ (where = "source" => file[p] = Torn)
    BY <1>7 DEF materialize
  <2>2. where \in Stages BY DEF Stages, Idle
  <2>3. run'.at[p] = where /\ run'.pc = run.pc BY <2>1, <2>2, GoFields
  <2>4. run.pc = "normalize" /\ (file[p] = Torn => file'[p] = Goal(p))
    BY <1>7 DEF materialize, Here, Disk
  <2>5. QED BY <1>1, <1>2, <2>1, <2>3, <2>4 DEF PathFiles
<1>8. CASE linkOwnershipMarker(p)
  <2>1. PICK where \in {"failed", "done"} : Go(p, where) BY <1>8 DEF linkOwnershipMarker
  <2>2. where \in Stages BY DEF Stages, Idle
  <2>3. run'.at[p] = where /\ run'.pc = run.pc BY <2>1, <2>2, GoFields
  <2>4. run.pc = "normalize" /\ cursor
    BY <1>3, <1>8 DEF linkOwnershipMarker, Here, CleanInv
  <2>5. QED BY <1>1, <2>1, <2>3, <2>4 DEF PathFiles
<1>9. CASE cleanupArtifact(p)
  <2>1. PICK role \in {"source", "target"}, where \in {"failed", "target", "done"} :
          /\ run.at[p] = role /\ Go(p, where)
          /\ where = "failed" => art' = art
          /\ where # "failed" => art' = [art EXCEPT ![<<Name(run.plan), role, p>>] = Absent]
          /\ where = "target" => role = "source"
          /\ where = "done" => role = "target" \/ After(p) = Absent
    BY <1>9 DEF cleanupArtifact
  <2>2. where \in Stages BY DEF Stages, Idle
  <2>3. run'.at[p] = where /\ run'.pc = run.pc BY <2>1, <2>2, GoFields
  <2>4. run.pc \in {"normalize", "cleanup"} /\ file' = file /\ durable' = durable
    BY <1>9 DEF cleanupArtifact
  <2>5. After(p) = Absent => art[Target(p)] = Absent
    BY <2>4 DEF NameInv, Named, PlanInv, After
  <2>6. CASE run.pc = "normalize"
    BY <1>1, <1>2, <1>3, <2>1, <2>3, <2>4, <2>6 DEF PathFiles
  <2>7. CASE run.pc = "cleanup"
    <3>1. /\ where = "target" => art'[Source(p)] = Absent
          /\ where = "done" => art'[Source(p)] = Absent /\ art'[Target(p)] = Absent
      <4>1. CASE role = "source" /\ where # "failed"
        <5>1. art'[Source(p)] = Absent /\ art'[Target(p)] = art[Target(p)]
          BY <2>1, <4>1 DEF Disk
        <5>2. QED BY <2>1, <2>5, <4>1, <5>1
      <4>2. CASE role = "target" /\ where # "failed"
        <5>1. art'[Target(p)] = Absent /\ art'[Source(p)] = art[Source(p)]
          BY <2>1, <4>2 DEF Disk
        <5>2. art[Source(p)] = Absent BY <1>3, <2>1, <2>7, <4>2 DEF PathFiles
        <5>3. QED BY <2>1, <4>2, <5>1, <5>2
      <4>3. QED BY <4>1, <4>2
    <3>2. QED BY <1>2, <1>3, <2>3, <2>4, <2>7, <3>1 DEF PathFiles
  <2>8. QED BY <2>4, <2>6, <2>7
<1>10. CASE finalizeDurablePack(p)
  <2>1. CASE Sealable(p)
    <3>1. Go(p, "sealed") /\ durable' = durable \cup {p} /\ file' = file /\ run.pc = "finalize"
      BY <1>10, <2>1 DEF finalizeDurablePack, Here
    <3>2. "sealed" \in Stages BY DEF Stages, Idle
    <3>3. run'.at[p] = "sealed" /\ run'.pc = run.pc BY <3>1, <3>2, GoFields
    <3>4. file[p] = After(p) BY <2>1 DEF Sealable
    <3>5. QED BY <1>2, <3>1, <3>3, <3>4 DEF PathFiles
  <2>2. CASE ~Sealable(p)
    <3>1. run'.pc = "locked" BY <1>10, <2>2 DEF finalizeDurablePack, Locked, RunType
    <3>2. QED BY <3>1 DEF PathFiles
  <2>3. QED BY <2>1, <2>2
<1>11. CASE cleanupPackedMutations(p)
  <2>1. PICK where \in {"source", "failed"} : Go(p, where) BY <1>11 DEF cleanupPackedMutations
  <2>2. where \in Stages BY DEF Stages, Idle
  <2>3. run'.at[p] = where /\ run'.pc = run.pc BY <2>1, <2>2, GoFields
  <2>4. run.pc = "cleanup" /\ file' = file /\ durable' = durable
    BY <1>11 DEF cleanupPackedMutations, Here
  <2>5. QED BY <1>2, <1>3, <2>1, <2>3, <2>4 DEF PathFiles
<1>12. QED
  BY <1>4, <1>5, <1>6, <1>7, <1>8, <1>9, <1>10, <1>11 DEF RecoveryStep

\* A recovery or a finalization, path by path.
LEMMA RecoveryFiles ==
  ASSUME Facts, NEW p \in Paths, RecoveryStep(p)
  PROVE  FileInv'
<1>1. run \in RunType /\ PackedInv /\ PlanInv /\ CursorInv /\ FileInv /\ run.plan \in Plans
  BY DEF Facts, PackedInv, Shape, NameInv, RunType
<1>2. run.pc \in {"normalize", "finalize", "cleanup"}
  BY DEF RecoveryStep, normalizeRecord, unlinkOriginal, writeBytesExclusive, materialize,
     linkOwnershipMarker, cleanupArtifact, finalizeDurablePack, cleanupPackedMutations, Here
<1>3. /\ UNCHANGED <<before, after, pack, log, extra, phase, cursor>>
      /\ run'.use = run.use /\ run'.plan = run.plan
      /\ run'.pc = run.pc \/ run'.pc = "locked"
  BY <1>1, PathRun
<1>4. pack' \in Plans BY <1>1, <1>2, <1>3 DEF PlanInv
<1>5. BareFiles' /\ OrdinaryFiles' /\ BackFiles'
  BY <1>2, <1>3, <1>4, PackedBare DEF OrdinaryFiles, BackFiles
<1>6. EndFiles' BY <1>1, <1>2, <1>3, NotEnded
<1>7. ASSUME NEW q \in Paths \ {p} PROVE PathFiles(q)'
  <2>1. PathFiles(q) BY <1>1 DEF FileInv
  <2>2. /\ Source(q)' = Source(q) /\ Target(q)' = Target(q)
        /\ Goal(q)' = Goal(q) /\ After(q)' = After(q)
    BY <1>3, SamePlaces DEF Goal, RollForward, Before, After, From, To
  <2>3. /\ file'[q] = file[q] /\ run'.at[q] = run.at[q] /\ (q \in durable => q \in durable')
        /\ art'[Source(q)] = art[Source(q)] /\ art'[Target(q)] = art[Target(q)]
    BY <1>1, RecoveryLocal
  <2>4. QED BY <1>2, <1>3, <2>1, <2>2, <2>3 DEF PathFiles
<1>8. \A q \in Paths : PathFiles(q)' BY <1>7, RecoveryPath
<1>9. QED BY <1>1, <1>3, <1>5, <1>6, <1>8 DEF FileInv

\* Nobody forgets that a foreign program was there.
LEMMA ForeignStays ==
  ASSUME [Next]_vars, run \in RunType, foreign' = {}
  PROVE  foreign = {} /\ ~Edit
<1>1. ~Edit BY DEF Edit
<1>2. CASE \E p \in Paths : HelperStep(p) \/ RecoveryStep(p) BY <1>1, <1>2, PathRun
<1>3. CASE ~\E p \in Paths : HelperStep(p) \/ RecoveryStep(p)
  <2>1. foreign' = foreign
    BY <1>1, <1>3 DEF Next, Program, StaleRecords, createDurablePack, UnlinkPack,
       publishCachedDurablePack, removeDurablePack, HelperFails, HelperStops,
       HelperSucceeds, CommitCursor, RefuseCursor, ensurePackedIntents, Mismatch,
       advanceNormalized, Conflict, materializePackedMutationJournal, Finalized,
       CleanupDone, Restart, RecoverAgain, recoverMutations, verifyKnownState,
       BeginOrdinary, EndOrdinary, Settle, Crash, vars, world, others
  <2>2. QED BY <1>1, <2>1
<1>4. QED BY <1>2, <1>3

FilesInv ==
  /\ NamesInv /\ CursorInv
  /\ spent["refusal"] = 0 /\ foreign = {} => FileInv

\* The first state of an operation.
LEMMA FilesInitially == Init => FilesInv
<1> SUFFICES ASSUME Init PROVE CursorInv /\ FileInv BY NamesInitially DEF FilesInv
<1>1. CursorInv BY DEF Init, CursorInv, Faults
<1>2. FileInv
  BY DEF Init, FileInv, PathFiles, BackFiles, OrdinaryFiles, BareFiles, EndFiles
<1>3. QED BY <1>1, <1>2

\* Every step keeps what is known of the files.
LEMMA FilesStep ==
  ASSUME FilesInv, [Next]_vars
  PROVE  FilesInv'
<1>1. NamesInv' /\ CursorInv' BY NamesStep, CursorStep DEF FilesInv
<1>2. SUFFICES ASSUME spent'["refusal"] = 0, foreign' = {} PROVE FileInv'
  BY <1>1 DEF FilesInv
<1>3. PackedInv /\ run \in RunType BY DEF FilesInv, NamesInv, PackedInv, Shape
<1>4. Facts /\ ~RefuseCursor /\ ~Edit
  BY <1>2, <1>3, RefusalsStay, ForeignStays DEF FilesInv, NamesInv, Facts
<1>5. ASSUME NEW p \in Paths, HelperStep(p) PROVE FileInv' BY <1>4, <1>5, HelperFiles
<1>6. ASSUME NEW p \in Paths, RecoveryStep(p) PROVE FileInv' BY <1>4, <1>6, RecoveryFiles
<1>7. CASE \/ createDurablePack \/ UnlinkPack \/ publishCachedDurablePack
           \/ removeDurablePack
  BY <1>4, <1>7, PublishFiles
<1>8. CASE \/ StaleRecords \/ verifyKnownState \/ HelperFails \/ HelperStops
           \/ HelperSucceeds \/ CommitCursor \/ ensurePackedIntents \/ Mismatch
           \/ advanceNormalized \/ Conflict
  BY <1>4, <1>8, VerdictFiles
<1>9. CASE \/ materializePackedMutationJournal \/ Finalized \/ CleanupDone
           \/ Restart \/ RecoverAgain \/ BeginOrdinary \/ Settle \/ EndOrdinary
  BY <1>4, <1>9, EndingFiles
<1>10. CASE Crash BY <1>4, <1>10, CrashFiles
<1>11. CASE UNCHANGED vars
  <2>1. /\ FileInv
        /\ UNCHANGED <<before, after, file, art, pack, log, extra, durable, phase, cursor, run>>
    BY <1>4, <1>11 DEF Facts, vars
  <2>2. ASSUME NEW p \in Paths PROVE PathFiles(p)'
    <3>1. PathFiles(p) BY <2>1 DEF FileInv
    <3>2. /\ Source(p)' = Source(p) /\ Target(p)' = Target(p)
          /\ Goal(p)' = Goal(p) /\ After(p)' = After(p)
      BY <2>1, SamePlaces DEF Goal, RollForward, Before, After, From, To
    <3>3. QED BY <2>1, <3>1, <3>2 DEF PathFiles
  <2>3. BackFiles' /\ OrdinaryFiles' /\ BareFiles' /\ EndFiles'
    BY <2>1 DEF FileInv, BackFiles, OrdinaryFiles, BareFiles, EndFiles, ActiveRecords,
                NoArtifact
  <2>4. QED BY <2>1, <2>2, <2>3 DEF FileInv
<1>12. QED
  BY <1>4, <1>5, <1>6, <1>7, <1>8, <1>9, <1>10, <1>11 DEF Next, Program

\* A committed operation that no other program disturbed left every file at its
\* target and on the disk, and nothing beside it, whatever crashes, power losses
\* and recoveries it went through: finalization synced what cleanup then trusted
\* (restore-engine.ts finalizeDurablePack, packed-recovery.ts
\* cleanupPackedMutations).
THEOREM CommittedFilesInstalled == Spec => []CommittedIsTarget
<1>1. FilesInv => CommittedIsTarget
  BY DEF FilesInv, CursorInv, FileInv, EndFiles, CommittedIsTarget
<1>2. FilesInv /\ [Next]_vars => FilesInv' BY FilesStep
<1>3. QED BY <1>1, <1>2, FilesInitially, PTL DEF Spec

\* An aborted operation that no other program disturbed and whose cursor was not
\* refused left every file as it was and nothing beside it (journal.ts
\* isFullyCompensated, packed-recovery.ts recoverPackedMutations).
THEOREM AbortedFilesRestored == Spec => []AbortedIsSource
<1>1. FilesInv => AbortedIsSource
  BY DEF FilesInv, FileInv, EndFiles, AbortedIsSource
<1>2. FilesInv /\ [Next]_vars => FilesInv' BY FilesStep
<1>3. QED BY <1>1, <1>2, FilesInitially, PTL DEF Spec
=============================================================================
