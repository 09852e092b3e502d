-------------------------- MODULE SnapshotObjects --------------------------
(***************************************************************************)
(* What src/snapshot-store.ts keeps of a captured manifest and how it is   *)
(* read back: the private Git object database, the manifest files, the     *)
(* pins and the garbage collector of one store directory, and the caches   *)
(* one process puts in front of them.                                      *)
(*                                                                         *)
(* A tree is the function from paths to blobs it stores, a manifest is its *)
(* tree.  Capture, pin, unpin and collectGarbage run under the store lock. *)
(* Capture, pin and unpin are one step each; the collector removes a store *)
(* directory entry by entry, may fail or die at any of them, and leaves    *)
(* the rest.  Reads take no lock and are interleaved with all of this and  *)
(* with each other.  SnapshotCapture has the inside of a capture and why   *)
(* its metadata cache tells the truth; here a leaf is cached while the     *)
(* file is what it was when it was hashed.                                 *)
(***************************************************************************)
EXTENDS Integers, FiniteSets, SequencesExt

CONSTANTS
  Paths, Blobs,
  None,
  Readers,      \* concurrent calls of the reading methods
  Reasons,      \* reasons to pin a manifest
  TreeLimit,    \* TREE_CACHE_LIMIT
  MemberLimit,  \* TREE_BLOB_MEMBERSHIP_LIMIT
  BlobLimit,    \* BLOB_CACHE_MAX_BYTES, in blobs
  Bounds        \* bounds: what a behaviour may have together, a count of each kind

Kinds == {"edit", "pin", "sweep", "restart", "loss", "unsaved", "read"}

ASSUME ObjectsAssumption ==
  /\ IsFiniteSet(Paths) /\ IsFiniteSet(Readers)
  /\ None \notin Paths \cup Readers
  /\ TreeLimit \in Nat \ {0} /\ MemberLimit \in Nat /\ BlobLimit \in Nat

ASSUME BoundsAssumption == Bounds \subseteq [Kinds -> Nat]

Trees == [Paths -> Blobs]

VARIABLES
  file,         \* the workspace: the content of each path
  objects,      \* blobs and trees in the object database
  repo,         \* the bare repository: "absent" without its objects directory,
                \* "torn" with it but without HEAD, refs or the like, or "whole"
  manifests,    \* the manifest files
  sweep,        \* who removes the store directory: "none", "mine", "theirs"
  pins,         \* the pin files: manifest -> reasons
  leafDisk,     \* leaf-cache.json: path -> object id, or None
  leafMem,      \* visibleLeafCache: path -> object id, or None
  leafLoaded,   \* leafCacheDirectoriesLoaded
  located,      \* manifestLocations
  trees,        \* treeEntriesCache, oldest first: [tree, paths, by]
  members,      \* treeBlobMembership, oldest first: <<tree, path>>
  blobs,        \* blobCache, oldest first
  forgot,       \* history: treeBlobMembership dropped a member since the process began
  read,         \* the reads in progress and how the last ones ended
  damaged,      \* history: manifests not captured again since a power loss or
                \* the collector took an object of theirs
  spent         \* how often each kind happened, for the bounds

vars == <<file, objects, repo, manifests, sweep, pins, leafDisk, leafMem, leafLoaded, located,
          trees, members, blobs, forgot, read, damaged, spent>>

store == <<objects, repo, manifests, leafDisk, sweep, damaged>>
leafCache == <<leafMem, leafLoaded>>
membership == <<members, forgot>>
readCaches == <<trees, membership, blobs>>
losses == spent["loss"]

NoRead == [pc |-> "idle", kind |-> "blob", tree |-> None, path |-> None,
           on |-> None, result |-> "none", gone |-> FALSE]

ObjectsOf(t) == {t} \cup Range(t)

Spend(kind) ==
  /\ spent' = [spent EXCEPT ![kind] = @ + 1]
  /\ \E bound \in Bounds : \A k \in Kinds : spent'[k] <= bound[k]

Init ==
  /\ file \in Trees
  /\ objects = {} /\ repo = "absent" /\ manifests = {} /\ damaged = {}
  /\ sweep = "none" /\ pins = [t \in Trees |-> {}] /\ leafDisk = None
  /\ leafMem = None /\ leafLoaded = FALSE /\ located = {}
  /\ trees = <<>> /\ members = <<>> /\ blobs = <<>> /\ forgot = FALSE
  /\ read = [r \in Readers |-> NoRead]
  /\ spent = [k \in Kinds |-> 0]

-----------------------------------------------------------------------------
\* The bounded maps: insertion moves to the end, the oldest go first.

LastOf(s, n) == IF Len(s) <= n THEN s ELSE SubSeq(s, Len(s) - n + 1, Len(s))

Without(s, S) ==
  LET rest[i \in 0..Len(s)] ==
        IF i = 0 THEN <<>>
        ELSE IF s[i] \in S THEN rest[i - 1] ELSE Append(rest[i - 1], s[i])
  IN  rest[Len(s)]

MoveToEnd(s, new) == Without(s, Range(new)) \o new

\* readTreeEntries has parsed the entries of t under `paths`: each is deleted from
\* the membership map and set anew, and then the oldest go.
AllMembers(t, paths) ==
  LET order == SetToSeq(paths)
  IN  MoveToEnd(members, [i \in DOMAIN order |-> <<t, order[i]>>])

\* Variant: what was inserted last goes first.
RememberFirst(t, paths) ==
  LET all == AllMembers(t, paths)
  IN  IF Len(all) <= MemberLimit THEN all ELSE SubSeq(all, 1, MemberLimit)

RememberMembers(t, paths) == LastOf(AllMembers(t, paths), MemberLimit)

Remembering(t, paths) ==
  /\ members' = RememberMembers(t, paths)
  /\ forgot' = (forgot \/ Len(AllMembers(t, paths)) > MemberLimit)

\* rememberBlobBytes leaves an entry that is there where it is.
RememberBlobs(bs) == LastOf(blobs \o SetToSeq(bs \ Range(blobs)), BlobLimit)

CachedTree(t, paths) == {e \in Range(trees) : e.tree = t /\ e.paths = paths}

-----------------------------------------------------------------------------
\* Captures, pins and garbage, under the store lock

EditFile(p, b) ==
  /\ Spend("edit")
  /\ file[p] # b /\ file' = [file EXCEPT ![p] = b]
  /\ UNCHANGED <<store, pins, leafCache, located, readCaches, read>>

\* loadPersistedLeafCache, once per process and never over what memory has;
\* then ensurePrivateRepository, which drops it when it creates the repository
\* and takes an objects directory for a repository.
UsableLeaves ==
  IF repo = "absent" THEN None
  ELSE IF leafLoaded \/ leafMem # None THEN leafMem ELSE leafDisk

\* stageWorktree hashes only the leaves the cache does not vouch for.
Hashed == {file[p] : p \in {q \in Paths : UsableLeaves = None \/ UsableLeaves[q] # file[q]}}

\* Variant: what the cache vouches for counts as there (write-tree --missing-ok).
TreeTrusted == \A p \in Paths : \/ file[p] \in objects \cup Hashed
                                \/ UsableLeaves # None /\ UsableLeaves[p] = file[p]

\* git write-tree and assertObjectsComplete refuse a tree with an object missing.
TreeWritten == Range(file) \subseteq objects \cup Hashed

\* The tree of a capture is read back whole, through the cache of trees; a leaf
\* cache that cannot be written is no error.
capture(saved) ==
  /\ sweep = "none" /\ repo # "torn" /\ TreeWritten
  /\ objects' = objects \cup Hashed \cup {file} /\ repo' = "whole"
  /\ manifests' = manifests \cup {file} /\ damaged' = damaged \ {file}
  /\ leafMem' = file /\ leafLoaded' = TRUE
  /\ IF saved THEN leafDisk' = file /\ UNCHANGED spent ELSE UNCHANGED leafDisk /\ Spend("unsaved")
  /\ located' = located \cup {file}
  /\ IF CachedTree(file, Paths) # {} THEN UNCHANGED <<trees, membership>>
     ELSE /\ trees' = LastOf(Append(trees, [tree |-> file, paths |-> Paths, by |-> None]), TreeLimit)
          /\ Remembering(file, Paths)
  /\ UNCHANGED <<file, sweep, pins, blobs, read>>

captureRefused ==
  /\ sweep = "none" /\ repo # "torn" /\ ~TreeWritten
  /\ objects' = objects \cup Hashed /\ repo' = "whole"
  /\ leafMem' = UsableLeaves /\ leafLoaded' = TRUE
  /\ UNCHANGED <<file, manifests, sweep, leafDisk, damaged, pins, located, readCaches, read, spent>>

\* Every git command fails in what is left of a repository.
captureFailed ==
  /\ sweep = "none" /\ repo = "torn"
  /\ leafMem' = UsableLeaves /\ leafLoaded' = TRUE
  /\ UNCHANGED <<file, store, pins, located, readCaches, read, spent>>

\* findManifestPath: a known location is not looked at again.
Found(t) == t \in located \cup manifests

\* Variant: pinLocked without withLock.
pinUnlocked(t, reason) ==
  /\ Spend("pin") /\ Found(t) /\ t \in manifests
  /\ located' = located \cup {t}
  /\ pins' = [pins EXCEPT ![t] = @ \cup {reason}]
  /\ UNCHANGED <<file, store, leafCache, readCaches, read>>

pin(t, reason) ==
  /\ sweep = "none"
  /\ Spend("pin") /\ Found(t) /\ t \in manifests
  /\ located' = located \cup {t}
  /\ pins' = [pins EXCEPT ![t] = @ \cup {reason}]
  /\ UNCHANGED <<file, store, leafCache, readCaches, read>>

unpin(t, reason) ==
  /\ sweep = "none"
  /\ Found(t) /\ reason \in pins[t]
  /\ located' = located \cup {t}
  /\ pins' = [pins EXCEPT ![t] = @ \ {reason}]
  /\ UNCHANGED <<file, store, leafCache, readCaches, read, spent>>

InProgress(r) == read[r].pc # "idle"
AllGone == [r \in Readers |-> IF InProgress(r) THEN [read[r] EXCEPT !.gone = TRUE] ELSE read[r]]

StoreThere == repo # "absent" \/ manifests # {} \/ leafDisk # None

\* By this process or, with mine FALSE, by another one that uses the store;
\* the GC_RETENTION_MS since the last touchStore may pass between any two steps.
collectGarbage(mine) ==
  /\ sweep = "none" /\ Spend("sweep")
  /\ StoreThere /\ \A t \in Trees : pins[t] = {}
  /\ sweep' = IF mine THEN "mine" ELSE "theirs"
  /\ UNCHANGED <<file, objects, repo, manifests, leafDisk, damaged, pins, leafCache, located,
                 readCaches, read>>

NeedOneOf(gone) == {t \in manifests : ObjectsOf(t) \cap gone # {}}

\* rm recursive removes one entry, in whatever order: an object, the files of
\* the repository beside them, its empty objects directory, a manifest, a cache.
removeEntry ==
  /\ sweep # "none"
  /\ \/ \E o \in objects : /\ objects' = objects \ {o} /\ damaged' = damaged \cup NeedOneOf({o})
                           /\ UNCHANGED <<repo, manifests, leafDisk>>
     \/ /\ repo = "whole" /\ repo' = "torn"
        /\ UNCHANGED <<objects, manifests, leafDisk, damaged>>
     \/ /\ repo # "absent" /\ objects = {} /\ repo' = "absent"
        /\ UNCHANGED <<objects, manifests, leafDisk, damaged>>
     \/ \E t \in manifests : /\ manifests' = manifests \ {t}
                             /\ UNCHANGED <<objects, repo, leafDisk, damaged>>
     \/ /\ leafDisk # None /\ leafDisk' = None
        /\ UNCHANGED <<objects, repo, manifests, damaged>>
  /\ read' = AllGone
  /\ UNCHANGED <<file, sweep, pins, leafCache, located, readCaches, spent>>

\* The caches of trees, members and blobs are left alone.
sweepDone ==
  /\ sweep # "none" /\ ~StoreThere /\ sweep' = "none"
  /\ located' = IF sweep = "mine" THEN {} ELSE located
  /\ leafMem' = IF sweep = "mine" THEN None ELSE leafMem
  /\ UNCHANGED <<file, objects, repo, manifests, leafDisk, damaged, pins, leafLoaded, readCaches,
                 read, spent>>

\* The removal fails, which is noted in gc.json at most, or the other process dies.
sweepFails ==
  /\ sweep # "none" /\ sweep' = "none"
  /\ UNCHANGED <<file, objects, repo, manifests, leafDisk, damaged, pins, leafCache, located,
                 readCaches, read, spent>>

\* The process ends, or the machine does: then an object Git had not yet
\* flushed is gone, while pi-undo's own files were synced.
Restart(gone) ==
  /\ IF gone = {} THEN Spend("restart") /\ UNCHANGED <<objects, damaged>>
     ELSE /\ Spend("loss")
          /\ objects' = objects \ gone /\ damaged' = damaged \cup NeedOneOf(gone)
  /\ sweep' = IF gone = {} /\ sweep = "theirs" THEN sweep ELSE "none"
  /\ leafMem' = None /\ leafLoaded' = FALSE /\ located' = {}
  /\ trees' = <<>> /\ members' = <<>> /\ blobs' = <<>> /\ forgot' = FALSE
  /\ read' = [r \in Readers |-> NoRead]
  /\ UNCHANGED <<file, repo, manifests, leafDisk, pins>>

-----------------------------------------------------------------------------
\* Reading: readBlobOperation ("blob") and assertComplete ("complete")

Finish(rd, result) == [NoRead EXCEPT !.gone = rd.gone, !.result = result]
KeyPaths(rd) == IF rd.path = None THEN Paths ELSE {rd.path}
Readable(t) == t \in manifests /\ repo = "whole" /\ ObjectsOf(t) \subseteq objects
Needed(rd) == {rd.tree} \cup {rd.tree[p] : p \in KeyPaths(rd)}

\* Variant: the members of before the entries were parsed are asked.
EnteredBefore(rd, ms) ==
  IF rd.kind = "complete" THEN [rd EXCEPT !.pc = "objects"]
  ELSE IF Contains(members, <<rd.tree, rd.path>>) THEN [rd EXCEPT !.pc = "bytes"]
  ELSE Finish(rd, "object_missing")

\* What follows once the tree's entries are known, given the members then.
Entered(rd, ms) ==
  IF rd.kind = "complete" THEN [rd EXCEPT !.pc = "objects"]
  ELSE IF Contains(ms, <<rd.tree, rd.path>>) THEN [rd EXCEPT !.pc = "bytes"]
  ELSE Finish(rd, "object_missing")

ReadStep(r, rd) ==
  /\ read' = [read EXCEPT ![r] = rd]
  /\ UNCHANGED <<file, store, pins, leafCache, spent>>

BeginRead(r, kind, t, p) ==
  /\ ~InProgress(r) /\ Spend("read")
  /\ Found(t)
  /\ kind = "blob" => p # None
  /\ located' = located \cup {t}
  /\ read' = [read EXCEPT ![r] =
       [NoRead EXCEPT !.pc = "load", !.kind = kind, !.tree = t, !.path = p,
          !.gone = ~Readable(t)]]
  /\ UNCHANGED <<file, store, pins, leafCache, readCaches>>

loadManifest(r) ==
  /\ read[r].pc = "load"
  /\ ReadStep(r, IF read[r].tree \notin manifests THEN Finish(read[r], "manifest_invalid")
                 ELSE IF read[r].kind = "blob" /\ Contains(members, <<read[r].tree, read[r].path>>)
                   THEN [read[r] EXCEPT !.pc = "bytes"]
                 ELSE [read[r] EXCEPT !.pc = "tree"])
  /\ UNCHANGED <<located, readCaches>>

\* readTreeEntries: a settled promise answers at once, a pending one is
\* awaited, and otherwise git ls-tree is started and its promise cached.
readTreeEntries(r) ==
  /\ read[r].pc = "tree"
  /\ LET cached == CachedTree(read[r].tree, KeyPaths(read[r]))
     IN IF cached = {}
          THEN /\ trees' = LastOf(Append(trees,
                     [tree |-> read[r].tree, paths |-> KeyPaths(read[r]), by |-> r]), TreeLimit)
               /\ ReadStep(r, [read[r] EXCEPT !.pc = "ls", !.on = r])
          ELSE /\ \E e \in cached :
                    ReadStep(r, IF e.by = None THEN Entered(read[r], members)
                                ELSE [read[r] EXCEPT !.pc = "wait", !.on = e.by])
               /\ UNCHANGED trees
  /\ UNCHANGED <<located, membership, blobs>>

Awaiting(r) == {w \in Readers : read[w].pc \in {"ls", "wait"} /\ read[w].on = r}

lsTree(r) ==
  /\ read[r].pc = "ls"
  /\ LET mine == {e \in Range(trees) : e.by = r}
         ok == repo = "whole" /\ read[r].tree \in objects
     IN /\ trees' = IF ok THEN [i \in DOMAIN trees |->
                                  IF trees[i] \in mine THEN [trees[i] EXCEPT !.by = None] ELSE trees[i]]
                    ELSE Without(trees, mine)
        /\ IF ok THEN Remembering(read[r].tree, KeyPaths(read[r])) ELSE UNCHANGED membership
        /\ read' = [w \in Readers |->
             IF w \notin Awaiting(r) THEN read[w]
             ELSE IF ok THEN Entered(read[w], members') ELSE Finish(read[w], "object_missing")]
  /\ UNCHANGED <<file, store, pins, leafCache, located, blobs, spent>>

\* cat-file --batch, unless the bytes are cached.
catBlob(r) ==
  /\ read[r].pc = "bytes"
  /\ LET b == read[r].tree[read[r].path]
     IN IF b \in Range(blobs) \/ (repo = "whole" /\ b \in objects)
          THEN /\ blobs' = RememberBlobs({b})
               /\ ReadStep(r, [read[r] EXCEPT !.pc = "revalidate"])
          ELSE /\ ReadStep(r, Finish(read[r], "object_missing"))
               /\ UNCHANGED blobs
  /\ UNCHANGED <<located, trees, membership>>

\* readBlobsValidated loads the manifest once more before it answers.
revalidateManifest(r) ==
  /\ read[r].pc = "revalidate"
  /\ ReadStep(r, Finish(read[r],
       IF read[r].tree \in manifests THEN "ok" ELSE "manifest_invalid"))
  /\ UNCHANGED <<located, readCaches>>

\* cat-file --batch-check also asks for what is cached; cold blobs are read.
assertObjectsComplete(r) ==
  /\ read[r].pc = "objects"
  /\ IF repo = "whole" /\ Needed(read[r]) \subseteq objects
       THEN /\ ReadStep(r, Finish(read[r], "ok"))
            /\ blobs' = IF read[r].path = None THEN blobs
                        ELSE RememberBlobs({read[r].tree[read[r].path]})
       ELSE ReadStep(r, Finish(read[r], "object_missing")) /\ UNCHANGED blobs
  /\ UNCHANGED <<located, trees, membership>>

ReaderNext(r) ==
  \/ \E kind \in {"blob", "complete"}, t \in Trees, p \in Paths \cup {None} :
       BeginRead(r, kind, t, p)
  \/ loadManifest(r) \/ readTreeEntries(r) \/ lsTree(r)
  \/ catBlob(r) \/ revalidateManifest(r) \/ assertObjectsComplete(r)

StoreNext ==
  \/ \E saved \in BOOLEAN : capture(saved)
  \/ captureRefused \/ captureFailed
  \/ \E t \in Trees, reason \in Reasons : pin(t, reason) \/ unpin(t, reason)
  \/ \E mine \in BOOLEAN : collectGarbage(mine)
  \/ removeEntry \/ sweepDone \/ sweepFails
  \/ \E gone \in SUBSET objects : Cardinality(gone) <= 1 /\ Restart(gone)

Next ==
  \/ \E p \in Paths, b \in Blobs : EditFile(p, b)
  \/ StoreNext
  \/ \E r \in Readers : ReaderNext(r)

Spec == Init /\ [][Next]_vars

-----------------------------------------------------------------------------
\* Properties

\* The bounded caches keep to their limits and name only trees of the store's
\* kind; a pending promise belongs to the read that runs git ls-tree for it.
ObjectsTypeOK ==
  /\ file \in Trees /\ objects \subseteq Trees \cup Blobs
  /\ manifests \subseteq Trees /\ damaged \subseteq Trees
  /\ pins \in [Trees -> SUBSET Reasons]
  /\ forgot \in BOOLEAN /\ repo \in {"absent", "torn", "whole"} /\ sweep \in {"none", "mine", "theirs"}
  /\ leafDisk \in Trees \cup {None} /\ leafMem \in Trees \cup {None}
  /\ located \subseteq Trees
  /\ Len(trees) <= TreeLimit /\ Len(members) <= MemberLimit /\ Len(blobs) <= BlobLimit
  /\ Range(members) \subseteq Trees \X Paths
  /\ \A e \in Range(trees) : e.by # None => read[e.by].pc = "ls"

\* A manifest whose objects neither a power loss nor the collector touched since
\* it was last captured has them all: what a capture publishes without hashing, on
\* the word of its metadata cache, is in the object database, also when an earlier
\* collection failed halfway and kept that cache, or removed the store under it.
ManifestsComplete ==
  \A t \in manifests \ damaged : ObjectsOf(t) \subseteq objects

\* A pinned manifest that can be read stays so, whatever collectors, captures and
\* crashes do, but for a power loss: the collector looks for pins once, before
\* it removes the first entry, and no pin is added while it removes.
PinnedStaysReadable ==
  [][losses' = losses =>
       \A t \in Trees : pins[t] # {} /\ Readable(t) => Readable(t)']_vars

\* A reader is told that a blob is missing or is not in the tree only if its
\* store was collected or damaged before or while it read: no order of captures,
\* other readers and evictions makes readBlobOperation or assertComplete refuse
\* an object that is there.
NeverFalselyRefused ==
  \A r \in Readers : read[r].result = "object_missing" => read[r].gone

\* The membership map alone answers for a tree whose entries are still cached, so
\* it must not have forgotten them: either it never dropped a member, which holds
\* for any number of paths until TREE_BLOB_MEMBERSHIP_LIMIT of them were listed,
\* or it has room for what the cache of trees names and what is being listed.  (The
\* two are filled in different orders: a listing whose entry was evicted meanwhile
\* pushes out the members of one that is cached.)
Ample == (TreeLimit + Cardinality(Readers)) * Cardinality(Paths) <= MemberLimit

NoFalseRefusal == Ample \/ ~forgot => NeverFalselyRefused
=============================================================================
