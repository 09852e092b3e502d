-------------------------- MODULE SnapshotCapture --------------------------
(***************************************************************************)
(* How src/snapshot-store.ts turns the visible files of a workspace into a *)
(* manifest while other programs keep writing them: the listing, the       *)
(* per-file metadata cache that spares a file from being hashed again, the *)
(* checks around hashing, and the reuse of a baseline that nothing seems   *)
(* to have changed.                                                        *)
(*                                                                         *)
(* Time is a number of clock units.  A file system stamps changes with a   *)
(* granularity of Grain units; Window is RACY_CLEAN_WINDOW_NS.  A leaf's   *)
(* `mtime` stands for everything visibleLeafStableFingerprint covers (dev, *)
(* ino, mode, size, mtime): a program can keep it across a write.  `ctime` *)
(* is the field only the full fingerprint has: every write stamps it.      *)
(***************************************************************************)
EXTENDS Integers, FiniteSets

CONSTANTS
  Paths,       \* the visible paths of the one root that is modelled
  Contents,    \* file contents, which are also their Git object ids
  Absent,      \* a path with no file
  None,        \* no cache entry, no cache map, no manifest
  Procs,       \* processes that use the store, one capture at a time
  Grain,       \* granularity of file timestamps
  Window,      \* RACY_CLEAN_WINDOW_NS
  Span,        \* longest time from the start of a capture to its verifiedAtNs
  MaxTime,     \* bound: the clock stops here
  MaxWrites,   \* bound: writes by other programs
  MaxCaptures  \* bound: captures begun

LeafType == [mtime : 0..MaxTime, ctime : 0..MaxTime]
FileType == [content : Contents, mtime : 0..MaxTime, ctime : 0..MaxTime]

ASSUME CaptureAssumption ==
  /\ Grain \in Nat \ {0} /\ Window \in Nat /\ Span \in Nat
  /\ MaxTime \in Nat /\ MaxWrites \in Nat /\ MaxCaptures \in Nat
  /\ Absent \notin FileType /\ None \notin LeafType

VARIABLES
  now,         \* Date.now() and the clock of the file system
  disk,        \* the files: Absent or [content, mtime, ctime]
  ignored,     \* paths the ignore rules match
  cache,       \* visibleLeafCache of each process: None or a map
  persisted,   \* leaf-cache.json: None or a map
  loaded,      \* processes with the store in leafCacheDirectoriesLoaded
  manifests,   \* the manifests captures have returned
  cap,         \* the capture that holds the store lock
  held,        \* history: contents each path had since that capture began
  kept,        \* history: paths written since then with their mtime kept
  instant,     \* history: the files when its last check began
  writes, captures   \* counters for the bounds

vars == <<now, disk, ignored, cache, persisted, loaded, manifests, cap,
          held, kept, instant, writes, captures>>

history == <<held, kept, instant>>
store == <<cache, persisted, loaded, manifests>>

Stamp == now - (now % Grain)
Later(s, t) == IF s > t THEN s ELSE t

\* What lstat shows of a file (VisibleLeaf): no content.
Leaf(file) == [mtime |-> file.mtime, ctime |-> file.ctime]
changedAt(leaf) == Later(leaf.mtime, leaf.ctime)

SameFingerprint(p, leaf) == disk[p] # Absent /\ Leaf(disk[p]) = leaf
SameStable(p, leaf) == disk[p] # Absent /\ disk[p].mtime = leaf.mtime

\* Variant: an entry is believed from the first tick after the change.
TrustedAtOnce(entry) == entry.verifiedAt > changedAt(entry.leaf)

\* A cached entry is believed once the racy-clean window had passed.
Trusted(entry) == entry.verifiedAt > changedAt(entry.leaf) + Window
CacheHit(entry, leaf) == entry # None /\ entry.leaf = leaf /\ Trusted(entry)

CachedFor(q, p) == IF cache[q] = None THEN None ELSE cache[q][p]

NoLeaves == [p \in Paths |-> None]
NewCapture(pc, q, base, scope, start) ==
  [pc |-> pc, by |-> q, base |-> base, scope |-> scope, start |-> start,
   todo |-> {}, leaf |-> NoLeaves, id |-> NoLeaves,
   status |-> [p \in Paths |-> "none"], verifiedAt |-> 0]
Idle == NewCapture("idle", None, None, {}, 0)

Listed == {p \in Paths : cap.leaf[p] # None}
AllAt(s) == \A p \in Listed : cap.status[p] = s

Init ==
  /\ now = 0
  /\ disk \in [Paths -> {Absent} \cup [content : Contents, mtime : {0}, ctime : {0}]]
  /\ ignored = {}
  /\ cache = [q \in Procs |-> None] /\ persisted = None /\ loaded = {}
  /\ manifests = {}
  /\ cap = Idle
  /\ held = [p \in Paths |-> {}] /\ kept = {} /\ instant = disk
  /\ writes = 0 /\ captures = 0

-----------------------------------------------------------------------------
\* The world outside: time, programs that write files, the ignore rules.

Tick ==
  /\ now < MaxTime
  /\ cap.pc # "idle" => now < cap.start + Span
  /\ now' = now + 1
  /\ UNCHANGED <<disk, ignored, store, cap, history, writes, captures>>

\* A program writes p; with keep it puts the old mtime back afterwards.
Write(p, c, keep) ==
  /\ writes < MaxWrites /\ writes' = writes + 1
  /\ keep => disk[p] # Absent
  /\ disk' = [disk EXCEPT ![p] =
       [content |-> c, ctime |-> Stamp,
        mtime |-> IF keep THEN disk[p].mtime ELSE Stamp]]
  /\ held' = [held EXCEPT ![p] = @ \cup {c}]
  /\ kept' = IF keep THEN kept \cup {p} ELSE kept
  /\ UNCHANGED <<now, ignored, store, cap, instant, captures>>

Remove(p) ==
  /\ writes < MaxWrites /\ writes' = writes + 1
  /\ disk[p] # Absent
  /\ disk' = [disk EXCEPT ![p] = Absent]
  /\ held' = [held EXCEPT ![p] = @ \cup {Absent}]
  /\ UNCHANGED <<now, ignored, store, cap, kept, instant, captures>>

EditIgnoreRules(p) ==
  /\ writes < MaxWrites /\ writes' = writes + 1
  /\ ignored' = IF p \in ignored THEN ignored \ {p} ELSE ignored \cup {p}
  /\ UNCHANGED <<now, disk, store, cap, history, captures>>

-----------------------------------------------------------------------------
\* capture and captureBaseline

\* loadPersistedLeafCache: once per process, and memory wins over the file.
loadPersistedLeafCache(q) ==
  /\ loaded' = loaded \cup {q}
  /\ cache' = IF q \in loaded \/ cache[q] # None THEN cache
              ELSE [cache EXCEPT ![q] = persisted]

Started(q, base, scope) == NewCapture("list", q, base, scope, now)

Begin(q, base, scope) ==
  /\ cap.pc = "idle" /\ captures < MaxCaptures
  /\ base # None => base.scope = scope
  /\ captures' = captures + 1
  /\ loadPersistedLeafCache(q)
  /\ cap' = Started(q, base, scope)
  /\ held' = [p \in Paths |-> {IF disk[p] = Absent THEN Absent ELSE disk[p].content}]
  /\ kept' = {} /\ instant' = disk
  /\ UNCHANGED <<now, disk, ignored, persisted, manifests, writes>>

\* queryVisibleLeafPaths: git ls-files names the paths to inspect.
ListPaths ==
  /\ cap.pc = "list"
  /\ cap' = [cap EXCEPT !.pc = "inspect",
       !.todo = {p \in cap.scope \ ignored : disk[p] # Absent}]
  /\ UNCHANGED <<now, disk, ignored, store, history, writes, captures>>

\* One lstat; a trusted cache entry with this fingerprint answers for the
\* content, a file that is gone by now is not a leaf.
Inspect(p) ==
  /\ cap.pc = "inspect" /\ p \in cap.todo
  /\ LET leaf == Leaf(disk[p])
         entry == CachedFor(cap.by, p)
     IN cap' = IF disk[p] = Absent THEN [cap EXCEPT !.todo = @ \ {p}]
               ELSE [cap EXCEPT !.todo = @ \ {p},
                       !.leaf[p] = leaf,
                       !.id[p] = IF CacheHit(entry, leaf) THEN entry.id ELSE None,
                       !.status[p] = IF CacheHit(entry, leaf) THEN "hashed" ELSE "listed"]
  /\ UNCHANGED <<now, disk, ignored, store, history, writes, captures>>

FallBack == Started(cap.by, None, cap.scope)
Abandon == Idle

\* captureBaselineLocked falls back to a full capture on any doubt; a full
\* capture fails, which leaves cache and store as they were.
Doubt == IF cap.base = None THEN Abandon ELSE FallBack

\* Variant: a file that is gone since the baseline is not missed.
StillFresh ==
  /\ \A p \in Listed : cap.status[p] = "hashed" /\ cap.id[p] = cap.base.tree[p]
  /\ {p \in cap.scope \cap ignored : disk[p] # Absent} = cap.base.ignoredPresent

\* isBaselineFresh: every leaf is the baseline's leaf, by the cache.
BaselineFresh ==
  /\ \A p \in Paths : (cap.base.tree[p] # Absent) <=> (p \in Listed)
  /\ \A p \in Listed : cap.status[p] = "hashed" /\ cap.id[p] = cap.base.tree[p]
  /\ {p \in cap.scope \cap ignored : disk[p] # Absent} = cap.base.ignoredPresent

EndInspect ==
  /\ cap.pc = "inspect" /\ cap.todo = {}
  /\ IF cap.base = None
       THEN cap' = [cap EXCEPT !.pc = "stage"] /\ UNCHANGED instant
     ELSE IF BaselineFresh
       THEN cap' = [cap EXCEPT !.pc = "final"] /\ instant' = disk
       ELSE cap' = FallBack /\ UNCHANGED instant
  /\ UNCHANGED <<now, disk, ignored, store, held, kept, writes, captures>>

\* The check before hashing: nothing but ctime may have changed.
CheckBefore(p) ==
  /\ cap.pc = "stage" /\ cap.status[p] = "listed"
  /\ cap' = IF SameStable(p, cap.leaf[p]) THEN [cap EXCEPT !.status[p] = "checked"]
            ELSE Abandon
  /\ UNCHANGED <<now, disk, ignored, store, history, writes, captures>>

HashObject(p) ==
  /\ cap.pc = "stage" /\ cap.status[p] = "checked"
  /\ cap' = IF disk[p] = Absent THEN Abandon
            ELSE [cap EXCEPT !.status[p] = "read", !.id[p] = disk[p].content]
  /\ UNCHANGED <<now, disk, ignored, store, history, writes, captures>>

\* assertVisibleLeafUnchanged, after hashing and once more for every leaf at
\* the end: the same fingerprint passes, another ctime alone asks for the
\* content to be hashed again.
passed == IF cap.pc = "stage" THEN "hashed" ELSE "verified"

\* Variant: a leaf that has its object is not looked at again at the end.
checkedOnce(p) ==
  /\ \/ cap.pc = "stage" /\ cap.status[p] = "read"
     \/ cap.pc = "final" /\ cap.status[p] = "hashed"
  /\ cap' = IF cap.pc = "final" \/ SameStable(p, cap.leaf[p])
              THEN [cap EXCEPT !.status[p] = passed] ELSE Doubt
  /\ UNCHANGED <<now, disk, ignored, store, history, writes, captures>>

assertVisibleLeafUnchanged(p) ==
  /\ \/ cap.pc = "stage" /\ cap.status[p] = "read"
     \/ cap.pc = "final" /\ cap.status[p] = "hashed"
  /\ cap' = IF SameFingerprint(p, cap.leaf[p]) THEN [cap EXCEPT !.status[p] = passed]
            ELSE IF SameStable(p, cap.leaf[p]) THEN [cap EXCEPT !.status[p] = "rehash"]
            ELSE Doubt
  /\ UNCHANGED <<now, disk, ignored, store, history, writes, captures>>

\* assertVisibleLeafContentUnchanged: hash, compare, then lstat once more.
Rehash(p) ==
  /\ cap.status[p] = "rehash"
  /\ cap' = IF disk[p] # Absent /\ disk[p].content = cap.id[p]
              THEN [cap EXCEPT !.status[p] = "restat"] ELSE Doubt
  /\ UNCHANGED <<now, disk, ignored, store, history, writes, captures>>

Restat(p) ==
  /\ cap.status[p] = "restat"
  /\ cap' = IF SameStable(p, cap.leaf[p]) THEN [cap EXCEPT !.status[p] = passed] ELSE Doubt
  /\ UNCHANGED <<now, disk, ignored, store, history, writes, captures>>

\* Every leaf has its object: the last check of all leaves begins.
BeginFinalCheck ==
  /\ cap.pc = "stage" /\ AllAt("hashed")
  /\ cap' = [cap EXCEPT !.pc = "final"]
  /\ instant' = disk
  /\ UNCHANGED <<now, disk, ignored, store, held, kept, writes, captures>>

\* stageWorktree returns: the clock is read after the last check.
EndStage ==
  /\ cap.pc = "final" /\ AllAt("verified") /\ cap.base = None
  /\ cap' = [cap EXCEPT !.pc = "staged", !.verifiedAt = now]
  /\ UNCHANGED <<now, disk, ignored, store, history, writes, captures>>

-----------------------------------------------------------------------------
\* Publication

Tree == [p \in Paths |-> IF p \in Listed THEN cap.id[p] ELSE Absent]
Entry(p) == [leaf |-> cap.leaf[p], id |-> cap.id[p], verifiedAt |-> cap.verifiedAt]

\* A complete capture replaces the map; a scoped one only its scope.
rememberVisibleLeaves ==
  [p \in Paths |->
     IF p \in Listed THEN Entry(p)
     ELSE IF p \in cap.scope THEN None ELSE CachedFor(cap.by, p)]

\* Writing leaf-cache.json is best effort: `written` says whether it worked.
Publish(written) ==
  /\ cap.pc = "staged"
  /\ manifests' = manifests \cup
       {[tree |-> Tree, scope |-> cap.scope,
         ignoredPresent |-> {p \in cap.scope \cap ignored : disk[p] # Absent}]}
  /\ cache' = [cache EXCEPT ![cap.by] = rememberVisibleLeaves]
  /\ persisted' = IF written THEN rememberVisibleLeaves ELSE persisted
  /\ cap' = Idle
  /\ UNCHANGED <<now, disk, ignored, loaded, history, writes, captures>>

\* captureBaseline returns the baseline it was given.
ReuseBaseline ==
  /\ cap.pc = "final" /\ AllAt("verified") /\ cap.base # None
  /\ cap' = Idle
  /\ UNCHANGED <<now, disk, ignored, store, history, writes, captures>>

\* A Git command, a topology check or the operation's budget fails.
captureFails ==
  /\ cap.pc # "idle"
  /\ cap' = Idle
  /\ UNCHANGED <<now, disk, ignored, store, history, writes, captures>>

\* A process ends, in a capture or not: its memory is gone.
Restart(q) ==
  /\ q \in loaded
  /\ cache' = [cache EXCEPT ![q] = None] /\ loaded' = loaded \ {q}
  /\ cap' = IF cap.by = q THEN Idle ELSE cap
  /\ UNCHANGED <<now, disk, ignored, persisted, manifests, history, writes, captures>>

LeafStep(p) ==
  \/ Inspect(p) \/ CheckBefore(p) \/ HashObject(p)
  \/ assertVisibleLeafUnchanged(p) \/ Rehash(p) \/ Restat(p)

CaptureStep ==
  \/ ListPaths \/ EndInspect \/ BeginFinalCheck \/ EndStage
  \/ \E p \in Paths : LeafStep(p)
  \/ \E written \in BOOLEAN : Publish(written)
  \/ ReuseBaseline \/ captureFails

World ==
  \/ Tick
  \/ \E p \in Paths, c \in Contents, keep \in BOOLEAN : Write(p, c, keep)
  \/ \E p \in Paths : Remove(p) \/ EditIgnoreRules(p)

Next ==
  \/ World
  \/ \E q \in Procs, base \in manifests \cup {None}, scope \in (SUBSET Paths) \ {{}} :
       Begin(q, base, scope)
  \/ CaptureStep
  \/ \E q \in Procs : Restart(q)

Spec == Init /\ [][Next]_vars

-----------------------------------------------------------------------------
\* Properties

EntryType == [leaf : LeafType, id : Contents, verifiedAt : 0..MaxTime]
MapType == {None} \cup [Paths -> EntryType \cup {None}]
ManifestType == [tree : [Paths -> Contents \cup {Absent}],
                 scope : SUBSET Paths, ignoredPresent : SUBSET Paths]

CaptureType ==
  [pc : {"idle", "list", "inspect", "stage", "final", "staged"},
   by : Procs \cup {None}, base : ManifestType \cup {None},
   scope : SUBSET Paths, start : 0..MaxTime, todo : SUBSET Paths,
   leaf : [Paths -> LeafType \cup {None}], id : [Paths -> Contents \cup {None}],
   status : [Paths -> {"none", "listed", "checked", "read", "rehash", "restat",
                       "hashed", "verified"}],
   verifiedAt : 0..MaxTime]

\* Every variable keeps its shape through captures, restarts and edits.
CaptureTypeOK ==
  /\ now \in 0..MaxTime
  /\ disk \in [Paths -> FileType \cup {Absent}]
  /\ instant \in [Paths -> FileType \cup {Absent}]
  /\ ignored \subseteq Paths /\ kept \subseteq Paths
  /\ held \in [Paths -> SUBSET (Contents \cup {Absent})]
  /\ cache \in [Procs -> MapType]
  /\ persisted \in MapType
  /\ loaded \subseteq Procs
  /\ manifests \subseteq ManifestType
  /\ cap \in CaptureType
  /\ writes \in 0..MaxWrites /\ captures \in 0..MaxCaptures

EntrySound(p, entry) ==
  entry # None /\ SameFingerprint(p, entry.leaf) /\ Trusted(entry)
    => disk[p].content = entry.id

\* The metadata cache never lies: whenever an entry in a process's memory or
\* in leaf-cache.json would be believed for the file as it is now, the object
\* it names is that file's content (stageWorktree skips hashing on its word).
CacheSound ==
  \A p \in Paths :
    /\ \A q \in Procs : EntrySound(p, CachedFor(q, p))
    /\ persisted # None => EntrySound(p, persisted[p])

\* The leaf had last changed before the capture began, clearly by its stamps,
\* and no write since then has put its mtime back.
Settled(p) == changedAt(cap.leaf[p]) + Grain <= cap.start /\ p \notin kept

\* What a full capture is about to publish was there: each leaf's object is a
\* content its file had during the capture, and the leaves that had settled
\* before all had their objects at one and the same moment, although they were
\* listed, hashed and checked one by one while other programs were writing.
CaptureIsOneInstant ==
  cap.pc = "staged" =>
    \A p \in Listed :
      /\ cap.id[p] \in held[p]
      /\ Settled(p) => instant[p] # Absent /\ instant[p].content = cap.id[p]

\* captureBaseline returns the old manifest only if, when its last check
\* began, every file in it had the content it names (except one rewritten in
\* between with its mtime put back, which it may have missed).
BaselineIsCurrent ==
  cap.pc = "final" /\ cap.base # None /\ AllAt("verified") =>
    \A p \in Paths \ kept : cap.base.tree[p] # Absent =>
      instant[p] # Absent /\ instant[p].content = cap.base.tree[p]
=============================================================================
