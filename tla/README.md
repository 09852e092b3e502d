# pi-undo in TLA+

pi-undo is an extension of the Pi coding agent that undoes and redoes an agent
run: it moves the session back to the leaf before the run, and the files of the
workspace back to what they were. This directory holds TLA+ models of that
code, the TLC configurations that check them on small instances, and theorems
about them that TLAPS checks. Paths of source files are relative to the
repository (`src/controller.ts` is the TypeScript file of that name).

## 1. Inventory

| part | state it keeps | operations | modelled |
| --- | --- | --- | --- |
| undo/redo transaction (`src/controller.ts`) | current transaction, recovery lock, stacks | undo, redo, compensate, advanceHistory | `UndoTransaction`; the stacks in `SessionHistory` |
| transaction journal (`src/journal.ts`) | `descriptor.json`, `plan.json`, `state.json` per operation | prepare, setPhase(s), markCommitted, settleRecovery, loadPending | `UndoTransaction` |
| crash recovery (`src/recovery.ts`) | none of its own | recover, canIgnoreForeign, settleCompensated | `UndoTransaction` |
| mutation WAL (`src/mutation-journal.ts`) | `mutations.jsonl` per operation | beginMany, advance, advanceMany, markRollbackCleaned | `RestoreApply` |
| quarantine (`src/quarantine.ts`) | source and target artifacts next to a file | replaceFiles, deleteFiles, restoreMutation, rollForwardMutation, cleanupMutation | `RestoreApply`, at the level of contents |
| restore engine (`src/restore-engine.ts`) | plan and pack caches | plan, apply, rollback | `RestoreApply` without the native helper, `PackedRestore` with it; regular files |
| session tree and cursor (`src/session-state.ts`) | `pi-undo` entries in the session file | appendCursor, getLogicalLeafId, getCheckpoints, getCursor | outcomes in `UndoTransaction`, reads in `SessionTree` |
| runtime wiring (`src/pi-runtime.ts`) | per-session runtime | create, recoverPending, navigateSession, rebuildControllerState, resolveTreeTarget, background finalization | wiring in `UndoTransaction`, history in `SessionTree` |
| workspace lock (`src/workspace-lock.ts`) | lock directory with an owner file | acquire, renew, reclaim, release | `WorkspaceLock`; as the variable `holder` in `UndoTransaction` |
| run lifecycle and stacks (`src/controller.ts`) | staged run, checkpoints, undo and redo stacks | beginInput, startAgentRun, settleRun, advanceHistory | `SessionHistory`, one step per handler |
| tree navigation (`src/controller.ts`) | pending tree | beforeTree, afterTree, cancelTree | one step in `SessionHistory` |
| extension shell (`extensions/pi-undo.ts`) | active commands, deferred prompts | commands, session events | commands and session start |
| operation supervision (`src/operation-context.ts`, `src/git-runner.ts`) | deadlines, child processes | checkOperation, run | effect of a cancellation only |
| snapshot capture (`src/snapshot-store.ts`) | metadata cache in memory and in `leaf-cache.json` | capture, captureBaseline | `SnapshotCapture` |
| snapshot object store (`src/snapshot-store.ts`) | Git objects, manifests, pins; caches of trees, members and blobs | capture, pin, unpin, collectGarbage, readBlob, assertComplete | `SnapshotObjects` |
| durable pack and its recovery (`src/durable-pack.ts`, `src/packed-recovery.ts`) | one pack per transaction, packed mutation records | publish, replace, remove, finalize, recover, clean up | `PackedRestore` |
| native restore helper (`src/native-restore.ts`, `native/pi-undo-fs/src/file_batch.rs`) | none of its own | create, capture, install and check all files | `PackedRestore` |
| root discovery, path safety, encoding, atomic files | none | pure checks, one atomic write each | not modelled |
| diff views, status; native scanning in Rust | presentation; batched reads | - | not modelled |

How the parts interact. The controller takes the workspace lock, captures the
workspace, writes a journal (`PREPARED`), asks Pi to move the session leaf in
memory, calls the restore engine for the files, appends a cursor entry to the
session file and marks the journal `COMMITTED`. The restore engine writes a
line to the operation's mutation log around every change of a file. When
something fails the controller calls the engine again for the way back and marks
the journal `ABORTED`, or it locks the session. A new process, and
`/undo-recover`, loads all pending journals of the workspace, those of other
sessions too, and settles them from the journal, the mutation log, the cursor
entry, the leaf and the files. Then it rebuilds both stacks from the entries of
the session file.

What is hard in it: a crash between any two durable steps, in the operation, in
its compensation and in the recovery; state in four places (session memory,
session file, journal, workspace) that must end up on the same side; programs
that write to the workspace without the lock; sessions that meet each other's
journals; a failure of one mutation of a batch; cancellations noticed one step
late; files hashed one by one while programs write them, trusted afterwards by
their timestamps; a native helper that is stopped half-way, and a pack that is
replaced while its artifacts are still there; a session file that is a tree, in which a run after a redo or a navigation
hangs beside the runs before it, as the only source of the stacks. The full list, each at its line, is `hazards` in `PROJECT.json`.

What makes each part correct:

- engine and log: no content is lost while its replacement is not verified; a
  stopped call can be unwound; foreign contents are not taken away;
- transaction: an operation is decided once, by the cursor entry; when it is
  settled the files, the leaf, the log and the phase agree; a session with an
  unsettled operation is locked;
- history: between runs the files are what they were when the session stood
  where it stands; the undo stack leads from the leaf back without a gap and the
  redo stack on from it; a restart keeps both;
- recovery: it settles every operation on the side the cursor entry says, or
  locks;
- capture: a manifest is what the files were at one moment; the metadata cache
  never vouches for a content the file does not have; a baseline is reused only
  while it is current;
- object store: what a capture publishes is there with its whole tree, also in what
  a failed collection left; a pinned manifest stays; a reader is refused only what
  is not there;
- native path: what is settled is all at one snapshot with nothing beside it; a
  foreign file stays; every artifact has a pack that names it;
- lock: one owner at a time; a live owner loses it only by releasing it; a dead
  one's lease gives way; every release ends.

## 2. Modules

| module | what it is |
| --- | --- |
| `RestoreApply` | one restore call and the mutation log under it, as actions |
| `RestoreCalls` | `RestoreApply` on its own: callers, crashes, foreign edits; its properties |
| `UndoTransaction` | the transaction, its compensation and the recovery, on top of `RestoreApply` |
| `AtomicUndo` | the abstract specification: an operation is decided at most once |
| `WorkspaceLock` | the lock directory: acquire, reclaim, heartbeat, release |
| `ExclusiveLease` | the abstract specification of the lock |
| `SessionTree` | what the code reads out of the entries of a session file, as operators |
| `SessionHistory` | runs, checkpoints, both stacks, restart and navigation of one session |
| `SnapshotCapture` | a capture, file by file, against programs that write; the metadata cache and the baseline |
| `SnapshotObjects` | objects, manifests, pins and collection of one store, and the caches its readers use |
| `PackedRestore` | an operation on the native path: pack, helper, finalization, recovery |
| `MCRestoreCalls`, `MCUndoTransaction`, `MCWorkspaceLock`, `MCSessionHistory`, `MCSnapshotCapture`, `MCSnapshotObjects`, `MCPackedRestore` | instances for TLC |
| `RestoreApply_proofs`, `RestoreCalls_proofs`, `UndoTransaction_proofs`, `SessionHistory_proofs`, `WorkspaceLock_proofs`, `SnapshotCapture_proofs`, `SnapshotObjects_proofs`, `PackedRestore_proofs` | theorems and proofs |

### RestoreApply

`files` is the workspace, `wal[op]` the latest record per ordinal of the
operation's log, `job` what the running call keeps in memory and `spent` counts
the faults a behaviour had. A record holds its path, the old and the new
content (the code's fingerprints), its state and the artifacts that exist.
`StartApply` is `applyPinned` up to its preflight; then come a delete batch and a
write batch, each a sequence of stages that end for every record before the
next one starts (`NextStage`): log the intents, create the target artifacts
(`CreateTarget` under their final names, `FillTarget` with their content: until
then the artifact is `"torn"`, several at a time),
hard-link the sources, remove the files, install the targets, append the
verified states, remove the artifacts, append `CLEANED`. `Verify` ends the call.
`MutationFails` is the `catch` block: the log is unwound newest record first
(`RestoreKeep`, `RestoreUnlink`, `RestoreLink`, `RestoreFinish` are the effects
of `restoreMutation`, which refuses a torn target artifact wherever the code
asserts its fingerprint), then the call is rolled back as a whole with the two
batches run the other way (`Unwound`), once. `ForwardDetach`, `ForwardInstall`
and `ForwardClean` are `rollForwardMutation` and `cleanupMutation`.

Abstractions:

- `SOURCE_QUARANTINED`, `SOURCE_VERIFIED` and `TARGET_INSTALLED` are one state,
  `MIDDLE`. The code appends them together with `TARGET_VERIFIED`; only a torn
  append leaves one behind, and all three are then found with the new content in
  place, where roll-forward and rollback treat them alike.
- A check of a file and the unlink that follows are one step. The window between
  them is a known limit (`README.md:335` of the repository) and belongs to a
  model with inodes.
- Directories, symbolic links, topology checks, the split of a batch at 1024
  files and child processes whose exit is unconfirmed are left out; the native
  helper with its durable pack is `PackedRestore`.
- `undone` in a record is history: it is not on the disk and no action reads it.

### UndoTransaction

`phase` and `desc` are `state.json` and `descriptor.json`; `cursors` the
operations whose cursor entry is in the session file; `leaf` the leaf in the
memory of a session's process and `diskLeaf` the one a new process finds;
`status` and `locked` belong to the process; `holder` owns the workspace lock,
and `pc`, `cur` and `queue` say where it is. Only the owner of the lock runs an
operation or a recovery, so one program counter is enough. `SESSION_MOVED` is
never a state of its own on the disk: `setPhases` writes it together with the
phase that follows. An operation whose manifest has no path is the session-only
branch of the controller. A leaf is a number; entries are numbered across
sessions. `dirty` is history: which paths others changed since an operation
captured them, so that a property can speak of the rest.

A cancellation (`Cancel`) is noticed where `OperationProfiler.measure` looks,
before a phase and not during the commit. Any other exception is
`OperationFails`. Recovery takes the pending operations in any order; the code
takes them in the order of a directory listing, which is one of them. An
operation identifier whose journal was never written may be used again.

### AtomicUndo

An operation is none, pending, decided, committed or aborted. The refinement
mapping (`Outcome`) reads that off the phase and the cursor entry: the entry is
the decision. It holds while every cursor append reports what it did
(`Limit["ambiguous"] = 0`).

### WorkspaceLock

`present` and `files` are the lock directory and its entries, an owner file
(`Own(c)`) or the temporary file of a renewal (`Renewal(c)`); `fresh` says whose
lease has not expired; `pc`, `seen` and `renewing` are where the caller and the
heartbeat of a client stand, `compromised` the variable of that name in
`startLease`. Every file system call others can observe is a step, and a
contender reads the owner in two (`readdir`, `readFile`). A client stands for
one nonce: before it acquires again nothing of its old lease is left (`Reopen`),
and a client whose file stays meets it like any other. Clients share a process
through `ProcessOf`, so a death (`Die`) takes several callers at once.

Abstractions:

- A candidate is written and renamed in one step: nobody else looks at it.
- The owner's own readings are one step. Between its two calls only a deletion
  from outside can remove the file, and that ends like one just before.
- Time is `Expire`, at any moment; the age of an empty directory is a free choice.
- `rename` replaces an empty directory (POSIX).
- I/O errors are modelled in a renewal, where the code goes on after them, and as
  a failed candidate. The in-process queue of `withLock` only removes
  interleavings. Process identifiers are not reused.
- `Sweep` is not in the code: it is what `lock_compromised` guards against. The
  lock root is a temporary directory.

`ExclusiveLease` has an owner and the clients inside. A client inside leaves by
returning the lease or by a refusal that keeps it taken; a lease is seized only from
a dead client. The mapping reads the owner off the directory and who is inside off
`pc`, so a holder whose file goes away is a step the lease does not have.

### SessionTree and SessionHistory

`entries` is the session file: each entry has a kind and a parent, and pi-undo's
own entries carry what they record. The operators of `SessionTree` are the
functions of the same purpose in `src/session-state.ts` and
`src/pi-runtime.ts`; `Rebuilt` is `rebuildControllerState` and `TreeTarget` is
`resolveTreeTarget`. `SessionHistory` adds Pi's leaf, the workspace and the
fields of the controller: `undoStack`, `redoStack`, `paused`
(`historyPaused`), `locked` and `staged`. `agent` follows the current run from
the accepted prompt to the reply. A checkpoint holds its two manifests instead
of their identifiers, and is named by its start entry.

Abstractions:

- An undo, a redo and a navigation are one step: they succeed, or they are
  declined and nothing is left of them but possibly another leaf entry with the
  same logical leaf (`Declined`). `UndoTransaction` has the steps.
- A handler of a run is one step. An undo that waits for a settlement is the
  undo after it; one that drops an accepted prompt which has not started does so
  in its own step (`Ready`).
- The agent always replies. Prompts that steer a running agent, branch
  summaries, custom messages that start a run and a second session are left out.
- The safety capture of an operation is the reference manifest when the scope
  still holds its contents, else a new one of the scope only. The code takes the
  reference when it has a durable pack for it and finds the files unchanged; both
  hold the same contents of the scope.
- A manifest of a scope cannot be the target of a navigation (`complete`): the
  plan over the whole workspace refuses it.
- A start entry that cannot be appended leaves no barrier. A navigation to what
  cannot be resolved takes no step.
- `missed` is history: "run" says that a run was not recorded, "gap" that a
  rebuilt or navigated stack skips one.

### SnapshotCapture

`disk` is the workspace and `now` the clock. A file has a content and two
stamps: `ctime`, which every write sets to the current granule of the file
system (`Stamp`), and `mtime`, which stands for everything
`visibleLeafStableFingerprint` compares and which a program can put back. A leaf
(`Leaf`) is what `lstat` shows: the stamps without the content. `cache` and
`persisted` are `visibleLeafCache` of each process and `leaf-cache.json`; `cap`
is the capture that holds the store lock, with a status for every path:

    listed -> checked -> read -> hashed -> verified     (a full capture)
    hashed -> verified                                  (the cache answered)

with `rehash` and `restat` between where only the `ctime` moved
(`assertVisibleLeafContentUnchanged`). `Inspect`, `CheckBefore`, `HashObject`,
`assertVisibleLeafUnchanged`, `Rehash` and `Restat` are one system call of one
path, in any order among paths. `Doubt` is what a failed check leads to: a full
capture fails, a capture from a baseline starts over (`FallBack`). `held`,
`kept` and `instant` are history.

Abstractions: one root; Git index and ignore rules decide together which paths
are listed (`ignored`); objects are contents; a topology check, a Git command or
the budget fails at any time (`captureFails`); batches and concurrency of the
checks are any interleaving. `Span` bounds the time a capture takes.

### SnapshotObjects

A tree is a function from paths to blobs and a manifest is its tree. `capture`,
`pin` and `unpin` run under the store lock and are one step each. A collection
holds the lock for many: `collectGarbage` has looked for pins, `removeEntry` takes
one entry of the directory, in any order as a recursive removal may, and
`sweepDone` or `sweepFails` ends it. `repo` tells a repository from what is left
of one: `"torn"` has its `objects` directory, which is all
`ensurePrivateRepository` looks at, and no Git command works in it. A collection
by this process that ends empties the leaf cache and the manifest locations; one
that fails keeps them, and one by another process keeps them always. The caches of
trees, members and blobs are kept by both. `readBlob` and `assertComplete` take no
lock: a read looks up its tree, waits for the one `git ls-tree` that concurrent
readers share, enters the result into the three bounded caches (`Remembering`,
`Entered`, `LastOf`) and then asks for the object. A power loss takes objects Git
had not flushed. `damaged` and `forgot` are history: the manifests an object was
taken from since they were captured, and whether the membership map ever dropped
a member.

Abstractions: the pin files and `gc.json` of a store go with its last entry (no
manifest has a pin by then); a collection begins whenever no manifest is pinned,
since `GC_RETENTION_MS` may pass between any two steps; one root per manifest.

### PackedRestore

Contents are `old`, `new`, `other` (a foreign file), no file, and a torn one.
`pack` is the plan of the pack in the transaction's directory, `log` its
records, `art` the artifacts beside the files with the name they were made
under, `same` tells whether a target artifact and the file are one inode,
`durable` what has been synced. `run` holds the program counter and for every
path the stage it is at, so the helper's stages, the workers of a recovery and
their failures interleave. The parts are: the checks and the publication of the
pack (`applyNativeFilePlan`), the helper (`HelperStep`), the return to
the source after a failure, the cursor and the commit, the background
finalization (`finalizeDurablePack`, `cleanupPackedMutations`), the
compensation, and a recovery that decides by the cursor.

Abstractions: paths of one root in one batch; the pack's binary layout and its
checksum; retention of the packs prepared in advance (`Cached` says which exist);
the ordinary restore that follows a failed native one is one step here and all
of `RestoreApply` there; an orphan helper ends with its program. Foreign
programs replace or remove files and do not write in place.

## 3. Runs

`Limit` bounds each kind of fault of a behaviour: crash, fail (I/O error,
cancellation, declined navigation), edit, chat, ambiguous cursor append, start.

| run | instance | what it shows |
| --- | --- | --- |
| `restore` | 2 paths, 2 contents, 1 operation, 2 calls, 2 crashes, 1 failure, 1 foreign edit | no content is lost, a rollback nobody else disturbs is stopped by nothing but a torn target artifact, records of a path do not overlap; foreign contents are not taken away |
| `undo_solo` | 1 session, 1 operation that removes one file and writes another, 2 crashes, 2 failures, 1 run of the agent, 1 ambiguous append | phase, cursor, files and leaf agree; the lock is released, pending operations are settled or the session locked |
| `undo_shared` | 2 sessions, 2 operations with a file or without, any two of 2 crashes, 1 failure, 1 foreign edit (`TwoFaults`) | an unlocked session has nothing unsettled, settled logs are clean, an abort gives the files back, operations keep foreign contents; implements `AtomicUndo` |
| `lock` | 3 clients in 3 processes, 2 may die, 1 with failing renewals | mutual exclusion; implements `ExclusiveLease`; a dead process's lease gives way, every release ends |
| `lock_swept` | 3 clients in 2 processes that may die, the directory may be deleted at any time | no step takes or forges a live client's owner file, none is forgotten |
| `history` | 1 session, 2 paths, 2 contents, 11 entries, 2 disturbances of 8 kinds | files, leaf and stacks agree between runs; a restart keeps the top of the undo stack and the redo stack; the stacks can always be rebuilt |
| `capture` | 2 files, 2 contents, 2 processes, 2 captures, 1 write, granule 2, window 2, a capture takes at most 1 | the metadata cache tells the truth; a manifest shows one moment; a reused baseline is current |
| `objects` | 2 paths, 2 blobs, 2 readers, a cache of one tree, 6 members, one blob; 3 edits and 2 reads, or one each of pin, collection, restart and power loss with either an edit and an unsaved leaf cache or a read | what a capture publishes is whole, also in what a collection left; pinned manifests stay readable; a call is refused only what was taken, with listings shared and everything evicted |
| `packed` | 2 paths, 2 crashes that lose unsynced files, 1 edit, 1 stop, 1 refused cursor, 1 failed publication | what is settled is all source or all target with nothing beside it; foreign files stay; artifacts have a pack; every operation ends |

The lock runs have no bound but the sets: the state space is finite, and three
clients are a holder, a reclaimer that is late and a third that published in
between.

Why these bounds: two crashes reach a crash of a recovery; two failures reach a
failed rollback of a failed call, the deepest nesting the code has; two paths
with one delete and one write use both batches and let a batch stop half-way;
two operations of two sessions meet each other's journal, and a third would only
repeat the second. In `capture` one write is enough for every race of one file
with its check, and two captures let the second believe what the first wrote
down; the granule of two lets a write fall into the granule of a hash. In
`objects`, `MCBounds` says what may happen together. In its first part each of the
four trees can be captured and has two members, so the fourth pushes out those of
the first from a map that has the room `Ample` asks for, while two reads of a tree
or of one of its paths share listings, lose them and fill the map again. In its
other two a collection stops at any entry and a pin, a capture, a restart, a power
loss or a read meets what it left; what remains after a second collection is
again some part of a store, and the proofs have no bounds. In
`packed` two crashes reach a crash of a recovery, with one path ahead of the other. Eleven entries hold two runs with two or three operations
between and after them, or one run with up to seven; the file starts empty or
with an entry of Pi's, which tells the logical leaf null from another. Two
disturbances combine, for instance, a compensation with a rebuild. Paths and
contents are symmetric: no definition names one. `undo_shared` is symmetric in the operations (its properties
are safety properties). Deadlock is not checked in the
`RestoreCalls` run, where callers may simply stop, in the lock runs, where every
process may be dead, in the history runs, which stop when the file is full, in the
`capture` and `objects` runs, which stop when their bounds are used up, and in the
`packed` runs, where an operation that has settled or locked the session ends.

Some properties speak of paths nobody else changed (`FilesAt`): what others wrote
has no promised content, and `OperationKeepsForeignContent` and `ForeignFileKept`
are about it. `AbortedIsSource` and `ArtifactsNamed` except a refused cursor,
and `ForeignFileKept` the window between a check and its step (`raced`) and what
a recovery captures; the next section says what happens there.

### Where documents and code differ

Each has a run that ends in a counterexample; the quotes are in `PROJECT.json`.

- `packed_cancel`: a stopped helper is rolled back from the pack, and then the
  controller compensates the same transaction again. The second apply replaces
  the pack, its helper fails on files that are at the source already, the closed
  records do not fit the new pack, and the session locks for good, with every
  file as it was.
- `packed_stuck`: a crash after cleanup removed the artifact of an installed file
  and before the record was closed. Every recovery calls the file foreign.
- `history_restarted`: run 0, run 1, undo, redo, run 2, undo, redo, restart. The
  rebuilt stack holds runs 0 and 2, because run 2 hangs beside the checkpoint of
  run 1; two undos bring the session to before run 0 and leave the files of run 1
  in place. `WorkspaceMatchesLeaf` is what remains true: it excepts a session
  whose stack was rebuilt with a gap.

Also met, without a run of their own. In the restore engine: a crash or a full
disk while a target artifact is written under its final name
(`src/atomic-fs.ts:122`) leaves a torn one. The file itself was not touched, and yet
`cleanupRollbackTarget` refuses the artifact for its fingerprint
(`src/quarantine.ts:739`), at this and at every later recovery, and the session
stays locked without a foreign edit, although the repository's `README.md:270` says that
`restoreMutation` converges from any state. `RollbackBlockedOnlyByTornTarget` is what
remains true, and says that nothing else stops a rollback.

In the transaction: a record that was
rolled back looks like one that was applied to `fingerprintChainsFoldToIdentity`
(`src/journal.ts:447`), so a recovery can abort with a file missing
(`AbortRestoresExceptFolded` is what remains true); a cancellation after an
ambiguous cursor append aborts an operation whose cursor entry is in the file
(`src/controller.ts:1046`, why `AbortedHasNoKnownCursor` says "known"); a file
edited after the crash is overwritten by the recovery without a conflict, since
recovery plans from what it finds (`src/recovery.ts:122`); a process killed
between the two file operations of a renewal leaves a lock directory with two
entries, which is never reclaimed (`src/workspace-lock.ts:276`). Recovery settles a compensated operation
without looking at the session leaf (`src/recovery.ts:84`), although any leaf
mismatch is said to fail closed (`src/recovery.ts:50`); a cancellation noticed
before the journal exists is compensated, fails on the missing journal and locks
the session (`src/controller.ts:988`); a release of the workspace lock that
succeeded throws `lock_compromised` when a waiter published between its `unlink`
and its `rmdir` and is renewing or has already released when the directory is
read again (`src/workspace-lock.ts:302`), and the controller locks the session.
An owner whose process identifier was given to another program is never
reclaimed: `processStartedAt` is recorded and not compared.
`rollForwardMutation` of an INTENT record needs the source artifact
(`src/quarantine.ts:571`), so a recovery that rolls forward and crashes right
after logging an intent locks the next time, although it is said to be
repeatable (`src/recovery.ts:50`).

In the snapshot store: a capture, a check of one path, an edit, a capture and a read
of that path, where the second capture pushes the path's member out of the
membership map. Its listing is still cached, so nobody fills the map again and the
read is refused (`src/snapshot-store.ts:1021`, `1854`). It takes a workspace of
tens of thousands of files: the map keeps 65,536 members
(`TREE_BLOB_MEMBERSHIP_LIMIT`) and the cache 256 listings (`TREE_CACHE_LIMIT`).
`NoFalseRefusal` is what remains true: until the map drops a member, or with the
room of `Ample`. Room for the cached trees and one more is not enough: two listings
whose entries were evicted while they ran push out the members of a third that is
cached. `verifiedAtNs` is read after the last check
(`src/snapshot-store.ts:1457`), so a capture longer than the window less the
granule can leave an entry that is believed although the file changed in the
granule of its hash; the checks assume `Grain + Span <= Window + 1`.
After a power loss `leaf-cache.json`, which is
synced, can name a loose object that was not; captures are refused until the
file changes (`src/snapshot-store.ts:1386`). A collection that fails after it removed `HEAD` and
before the `objects` directory leaves a store in which every capture fails until a
later collection ends, since only that directory is looked for
(`src/snapshot-store.ts:1810`); and a manifest whose objects it took stays until the
same files are captured again, refused to every reader. `collectGarbage` is called
by tests only.

On the native path: after a refused cursor the operation aborts and the
artifacts of both packs stay, or their names collide and the session locks; a
crash between the removal of a pack and the link of its successor during a
compensation leaves an empty log that counts as compensated, with files at the
target; the delete of a record that is CLEANED cannot be rolled back; a file
torn by a kill has no owner; the failed readback of a materialized file removes
whatever is there by then.

In the history: after undo, redo and two more runs a restart
forgets the oldest run; a navigation to a prompt keeps only the runs on its own
physical branch (`src/pi-runtime.ts:539`); a failed settlement empties the
stacks, and a restart brings them back (`src/controller.ts:672`); after an
operation whose compensation moved the leaf to another entry, `/undo-recover`
can rebuild an empty stack, although it is said to be the equivalent of a restart
(`README.md:81`), which is why `RestartKeepsTop` excepts it; a prompt Pi refused
stays staged and cancels the next navigation (`src/controller.ts:738`); an undo
between the acceptance and the start of a prompt leaves that run unrecorded;
a run that is not recorded keeps the redo stack (`src/controller.ts:489`).

## 4. Fairness

`FairSpec` assumes that a process that runs goes on:
weak fairness of its steps that are no fault (`Progress`), since an event loop
always resumes the next `await`. A dead process is started again
(`WF` of `Restart`), and a process that waits for the workspace lock gets it
(`SF` of `StartRecovery`): it retries every `retryMs` and the lock is free again
and again. A waiter that times out is not modelled. Users, the agent, other
programs, crashes and failures get no fairness.

In `WorkspaceLock` a live client finishes the calls it began and retries until it
times out (`AcquireStep`, `RenewalStep`, `ReleaseStep`), leases expire, and a
release gets past its heartbeat (`SF` of `Drain`: `clearInterval` leaves finitely
many ticks to await). Holders are not obliged to release.
`AbandonedLeaseReclaimed` speaks of a contender that never gives up.

In `PackedRestore` the program goes on (`WF` of `Program`, its own steps and the
restart of a dead session); crashes, stops, refusals and edits get no fairness.
`RecoveringSpec` adds a user who asks a locked session to recover again and
again: with it, a lock that stays shows that no recovery can settle the
operation. The snapshot modules have safety properties only.

## 5. Proofs

For every value of the constants that meets the named assumptions
(`LeafAssumption`, `OpsAssumption`, `TargetsAssumption`, `LimitAssumption`,
`SessionsAssumption`, and those named below):

- `RestoreTypeCorrect` and `TypeCorrect`: the type invariants. They need more
  than types: a running call has manifests with the same scope, its ordinals are
  in the log (`RestoreInv`), and the program counters at which `cur` is read have
  an operation in it (`Working`).
- `CommittedHasCursorAlways`, `AbortedHasNoKnownCursorAlways`: from `OutcomeInv`,
  which ties the program counter to the phase and the cursor of `cur` (no entry
  before `commit`, an entry from there on, a queue of pending operations only).
- `UnlockedMeansSettledAlways`: from `LockInv`: what an unlocked session owns is
  what it works on, and a recovery has every operation of its session still in its
  queue.
- `ImplementsAtomicUndo`: every step changes the phases by at most one legal
  transition or adds at most one cursor entry, never both (`DurableStep`), and
  each of these is a step of `AtomicUndo` or a stutter.

- `OneRecordPerPath`, `RecordedContentOnly`: from `EngineInv`, what a call knows
  of the log it writes: a batch starts and ends without unfinished records and
  appends one per path (`BatchOK`), the unfinished record of a path is its newest
  (`LatestActive`), records lead from a captured to an installed content of the
  call's scope (`OwnOK`), and the stages are barriers: no file is taken away
  before every source is linked (`StageOK`).
- `SourceStaysRecoverable`, `RollbackAccountsUnlessTorn`: from `FitInv` on top of it:
  until somebody else writes, every path holds a content at which its unfinished
  record can be rolled back, whatever step was the last one (`FitAt`), and a target
  artifact is torn only while its path is still at the source: no file is linked or
  removed before every target of the batch is filled. Both have
  the hypothesis `[]UnsharedPaths`: unfinished records of different operations
  are about different paths. It is what callers owe the engine:
  `StartApply` looks at no log but its own (a session refuses to start an
  operation while it is locked, `src/controller.ts:936`, and looks at no other
  session's), and with two operations whose callers ignore each other TLC shows
  a record that cannot be rolled back. With one operation, as in the `restore`
  run, the hypothesis always holds.
- `SettledMeansCleanAlways`: from `CallInv`, which says for each place in the
  protocol which call is running with which manifests, and `CleanInv`: logs of
  settled operations and of those that have not applied anything yet have
  nothing unfinished.
- `LeafFollowsOutcomeAlways`: from `LeafInv`, where the leaf of the session that
  holds the lock is at each place.
- `CommitInstallsTargetAlways`: from `FilesInv`: at each place the files nobody
  else changed are at the capture, at the target or at the goal of the recovery,
  and a call that returns without an error has brought them there (`TurnsOver`,
  `EngineKeepsVerified`).
- `AbortRestoresExceptFoldedAlways`: from `HistInv` besides: the oldest record of a
  path starts at the captured content, a newest record that is `CLEANED` and was
  not rolled back ends at the content that is there, and a path without a record
  was not touched; a log whose chains fold to the identity then says the truth.
- `OperationKeepsForeignContentAlways`: from `CallInv` and what the engine may
  take away.

- `MutualExclusionAlways`, `NoForgottenLeaseAlways`, `LiveLeasesUndisturbedAlways`,
  `ImplementsExclusiveLease` (under `LockAssumption`, the first and the last while
  nobody deletes the directory): from `LeaseInv`. The directory has one owner file
  at most; a holder's is in it; a heartbeat runs only while its client holds; a
  reclaimer past its check aims at a dead client, and the dead stay dead, which is
  why the stale reading before its `unlink` is harmless. `StepEffect` lists the
  few steps that change an owner file.

- `CacheIsSound`, `CaptureAtOneInstant`, `ReusedBaselineIsCurrent` (and
  `CaptureTypes`), under `CaptureAssumption` and the hypothesis `WindowCovers`:
  `Grain + Span <= Window + 1`, the racy-clean window is no shorter than a
  granule and a capture together. From `CaptureInv`, whose core is that a leaf
  listed with old stamps either is untouched (`Steady`) or is `Gone`: removed, or
  stamped so late that no check takes it for the leaf any more. `FileStep` is
  where the clock counts: a write stamps the file within a granule of `now`, so
  no entry can be trusted for it and no old leaf equals it. The cache must be
  sound for a capture to be right, and the capture right for what it writes into
  the cache, so the three are one induction.

- `ManifestsAlwaysComplete`: inductive by itself, without any assumption. A
  capture publishes a tree only when `git write-tree` found every blob of it, and
  an entry the collector takes damages the manifests that need it; neither must
  the metadata cache tell the truth for it nor the collector get to its end.
- `PinnedReadableAlways`: from `SweepInv`: no manifest is pinned while a store is
  being removed, because the pins were looked for under the lock that `pin` takes.
- `ObjectsTypedAlways`, `NoFalseRefusalAlways`, under `ObjectsAssumption` (finite
  sets of paths and calls, limits that are numbers): from `CacheInv`. A pending
  entry of the cache of trees belongs to the one call that lists its tree and
  whoever waits asks for that tree (`Listings`); a call that has not been told
  otherwise finds its manifest and objects there (`GoneTold`). While the membership
  map dropped nothing it holds the members of every settled entry (`MembersKept`),
  for any number of paths; and if it has the room, those members are less than
  `Slack` trees from its new end however much it dropped (`MembersHeld`). The slack of an entry counts the entries after it and the
  calls that do not list: a listing that starts adds an entry and takes a call, one
  that ends gives the call back for the members it remembers, and the whole never
  exceeds `TreeLimit` and the number of calls, which is the premise `Ample`.

- `PackedTypes`, `ForeignFilesStay`, `ArtifactsAlwaysNamed`,
  `CommittedFilesInstalled`, `AbortedFilesRestored`, under `PackedAssumption`: all
  safety properties of `PackedRestore`. Three invariants, each on top of the one
  before. `PackedInv`: the stage a path is at tells what may be at the places its
  next step touches, and a foreign content is always durable, so a power loss
  cannot take it. `NameInv`, while no cursor was refused: a pack is replaced only
  when no artifact is left (`FreshInv`), since a first apply has no records before
  its helper fails and a failed rollback leaves an `INTENT` that stops the next
  publication (`UndoInv`). `FileInv`, while besides nobody else wrote: what each
  stage leaves, for example that a sealed path stays at its target and on the disk
  until its artifacts are gone, and that the helper of a compensation never gets
  past its first check, because the files it is to put back are back already. A
  step of one path cannot disturb another (`PathStep`, `PathNames`,
  `RecoveryLocal`), which is why two paths in a run stand for many.

- `HistoryTypedAlways`, `RebuildNeverFailsAlways`: the types of `SessionHistory`,
  and that `rebuildControllerState` throws neither at Pi's leaf nor at the last
  entry, for any number of runs, undos, redos, navigations, restarts and
  disturbances, without a hypothesis. A compensation, a navigation or a restart
  can put the leaf on any entry, so the invariant speaks of the whole file
  (`FileInv`): every checkpoint is trusted where it stands; no run is recorded
  twice (the code drops both records of a run that is, which therefore never
  happens); and every cursor is answered by what is before it, its head and each
  run on its redo stack by a checkpoint, each prefix of that stack by the undo
  that left it, whose rollback manifest covers what the run changed. For the next
  cursor to be answered too, the stacks in memory must be ones the file answers
  for (`StackInv`), and the run that goes on must have its start and its prompt
  on the branch and no checkpoint yet (`RunInv`). An append changes no branch
  there was (`UpAppend`), so everything is shown for a file and the same file
  with one more entry. TLC agrees that `HistInv`, the conjunction, holds in the
  states of the `history` run.

- `WorkspaceMatchesLeafAlways`, `StacksMeetAtLeafAlways`: from `CalmInv`, on top of
  `HistInv` and `FollowInv`. `FollowInv` holds in every session: a recorded run goes
  on at the end of the file with an empty redo stack, every undo that left the redo
  stack recorded the manifest the stack holds, and the leaf is the last entry until
  an operation is declined. `CalmInv` says what an undisturbed session (`Calm`)
  adds. Of the file (`CalmFile`): two runs that ended or began at one logical leaf
  recorded the same files there (`StoodOnce`), and every cursor restored what was at
  the leaf it names, with a redo stack whose runs follow on each other
  (`CursorCalm`). Of the session (`Stands`): the stacks meet at the logical leaf,
  the workspace is what it was there, and the leaf has the logical leaf of the last
  entry, which is why a compensation that leaves the leaf elsewhere does no harm.
  While a run goes on the same is said of the place where it began. The logical
  leaf of a new entry follows from its kind (`LogicalAppend`), so the step cases
  compare the file with the file and one entry more; a rebuild or a navigation is
  in reach because what it reads (`Rebuilt`, `TreeTarget`) is bounded by the file's
  own promises (`TreeStood`).
- `RestartKeepsTopAlways`: from `KeepInv`: between runs, if every run was recorded
  (`Mended`), the last entry is either the cursor of the stacks or the checkpoint of
  the run on top of them (`LastCursor`, `LastRun`), and a stack rebuilt from either
  ends in that run (`ResumeCursor`, `ResumeRun`), also when it hangs beside a cursor
  (`AttachedLast`). It needs no quiet workspace: an edit or a crash does not touch
  the stacks.

Only model-checked: all liveness, which no prover here decides. The refinement
when an append is ambiguous is refuted, not proved. Every invariant of the
`history` run is a theorem.

The recursions of the models (`Without`, `Branch`, `Checkpoints`, `Attached`) are
recursive functions. Induction over one is a search for the least index at which
a claim fails (`LeastNumber`, from the well-foundedness of the order of the
naturals), since the library's induction theorems take an operator the provers
cannot instantiate; that the function exists at all is shown the same way
(`ClimbExists`, `GatherExists`).

## 6. Plan

In this order, each with its runs:

1. `RunLifecycle`: the awaits inside the handlers of a run, which `SessionHistory`
   takes in one step each: a capture under way while an undo starts, the commit
   of an input, a settlement awaited by two callers, dispose; shown to implement
   the steps of `SessionHistory`.
2. `TreeNavigation`: prepare, apply and cancel of a tree move, joined with
   `UndoTransaction`'s journal.
3. `Quarantine` with inodes: foreign writers between a check and the unlink or
   link that follows; implements the content-level stages of `RestoreApply`.
4. `PackedRestore` joined with `RestoreApply` for the ordinary apply of a rollback.

### Not modelled

- Supervision of child processes (`src/operation-context.ts`,
  `src/git-runner.ts`): deadlines and kill signals; the effect of a cancellation
  is in the modules. A child whose exit is never confirmed and a helper that
  outlives its program are left out.
- The index, the binary format and the retention of durable packs.
- Nested Git roots, directories and symbolic links in a capture or a restore, and
  path safety: checks on one file system state, without interleaving of their own.
- The window between an identity check and the unlink that follows in the
  quarantine.
- The steps of a tree navigation and the awaits inside the handlers of a run.
- Encoding, checksums and atomic writes: one durable write is one step.
- Diff views, status, native scanning: presentation, and reads with the results
  of the TypeScript path.

Hazards without a property yet say in `PROJECT.json` why.
