---------------------- MODULE SnapshotCapture_proofs ----------------------
(***************************************************************************)
(* What SnapshotCapture promises, for any set of files, contents and       *)
(* processes, any number of edits and captures, and any clock: provided a  *)
(* capture ends soon enough for the racy-clean window (WindowCovers), the  *)
(* metadata cache never vouches for a content a file does not have, what a *)
(* full capture publishes was on disk at one moment, and a reused baseline *)
(* still described the files.                                              *)
(*                                                                         *)
(* CaptureInv is the inductive invariant.  Its core is Steady: a leaf that *)
(* was listed with an old stamp either is untouched, or carries a stamp    *)
(* too new to pass any later check.                                        *)
(***************************************************************************)
EXTENDS SnapshotCapture, TLAPS

\* RACY_CLEAN_WINDOW_NS covers the file system's granularity and the time a
\* capture takes from its start to its verifiedAtNs.
WindowCovers == Grain + Span <= Window + 1

Busy == cap.pc # "idle"
Counted == {"read", "rehash", "restat", "hashed", "verified"}
ContentOf(file) == IF file = Absent THEN Absent ELSE file.content
Old(p) == changedAt(cap.leaf[p]) + Grain <= cap.start
Gone(p) == disk[p] = Absent \/ disk[p].mtime + Grain > cap.start

ClockOrder ==
  /\ Busy => cap.by \in Procs /\ cap.start <= now /\ now <= cap.start + Span
  /\ cap.pc = "staged" => cap.verifiedAt <= now

VerifiedBy == IF Busy THEN cap.start ELSE now
EntriesOld ==
  \A p \in Paths :
    /\ \A q \in Procs : CachedFor(q, p) # None => CachedFor(q, p).verifiedAt <= VerifiedBy
    /\ persisted # None /\ persisted[p] # None => persisted[p].verifiedAt <= VerifiedBy

Phases ==
  /\ cap.base # None => cap.pc \in {"list", "inspect", "final"}
  /\ \A p \in Paths :
       /\ cap.status[p] = "none" <=> cap.leaf[p] = None
       /\ cap.pc = "idle" => cap.status[p] = "none"
       /\ cap.pc \in {"list", "inspect"} => cap.status[p] \in {"none", "listed", "hashed"}
       /\ cap.status[p] = "verified" => cap.pc \in {"final", "staged"}
       /\ cap.pc = "staged" => cap.status[p] \in {"none", "verified"}
       /\ cap.base # None /\ cap.pc = "final" =>
            /\ cap.base.tree[p] # Absent <=> cap.leaf[p] # None
            /\ cap.leaf[p] # None => cap.id[p] = cap.base.tree[p]

Steady(p) ==
  /\ disk[p] # Absent /\ Leaf(disk[p]) = cap.leaf[p]
  /\ cap.status[p] \in Counted => disk[p].content = cap.id[p]
  /\ cap.pc \in {"final", "staged"} => disk[p] = instant[p]

LeafInv(p) ==
  /\ Busy => ContentOf(disk[p]) \in held[p]
  /\ cap.status[p] \in Counted =>
       /\ cap.id[p] \in Contents /\ cap.id[p] \in held[p]
       /\ cap.base # None => Old(p)
       /\ Old(p) /\ SameFingerprint(p, cap.leaf[p]) => disk[p].content = cap.id[p]
  /\ cap.leaf[p] # None /\ Old(p) /\ p \notin kept =>
       /\ Gone(p) \/ Steady(p)
       /\ cap.status[p] = "verified" =>
            instant[p] # Absent /\ instant[p].content = cap.id[p]

CaptureInv ==
  /\ CaptureTypeOK /\ ClockOrder /\ EntriesOld /\ CacheSound /\ Phases
  /\ \A p \in Paths : LeafInv(p)

-----------------------------------------------------------------------------

\* The stamp of a change (src/snapshot-store.ts compares stamps with
\* verifiedAtNs) is at most one granule behind the clock.
LEMMA StampBounds ==
  ASSUME now \in Nat
  PROVE  Stamp \in Nat /\ Stamp <= now /\ now < Stamp + Grain
<1>1. Grain \in Nat /\ Grain > 0 BY CaptureAssumption
<1>2. now % Grain \in 0..(Grain - 1) BY <1>1
<1>3. now = Grain * (now \div Grain) + (now % Grain) BY <1>1
<1>4. now \div Grain \in Nat BY <1>1
<1>5. Grain * (now \div Grain) \in Nat BY <1>1, <1>4
<1>6. QED BY <1>1, <1>2, <1>3, <1>5 DEF Stamp

\* changedAt of a leaf is a time, and no earlier than either of its stamps.
LEMMA ChangedAtBounds ==
  ASSUME NEW leaf \in LeafType
  PROVE  /\ changedAt(leaf) \in 0..MaxTime
         /\ leaf.mtime <= changedAt(leaf) /\ leaf.ctime <= changedAt(leaf)
BY CaptureAssumption DEF LeafType, changedAt, Later

\* A change made now cannot be mistaken for one stamped before start: the new
\* leaf is Gone from the capture's view, and no entry is trusted for it.
LEMMA NewStampIsLate ==
  ASSUME WindowCovers, CaptureTypeOK, NEW leaf \in LeafType, leaf.ctime = Stamp,
         NEW t \in 0..MaxTime, t <= now
  PROVE  /\ ~(changedAt(leaf) + Grain <= t)
         /\ ~(t > changedAt(leaf) + Window)
         /\ Stamp + Grain > t
<1>1. now \in Nat BY CaptureAssumption DEF CaptureTypeOK
<1>2. /\ Stamp \in Nat /\ now < Stamp + Grain BY <1>1, StampBounds
<1>3. /\ Grain \in Nat /\ Window \in Nat /\ Span \in Nat /\ MaxTime \in Nat BY CaptureAssumption
<1>4. /\ changedAt(leaf) \in 0..MaxTime /\ leaf.ctime <= changedAt(leaf)
  BY ChangedAtBounds
<1>5. QED BY <1>1, <1>2, <1>3, <1>4 DEF WindowCovers

\* A capture starts at the present moment with no leaf inspected.
LEMMA StartedFresh ==
  ASSUME NEW q \in Procs, NEW base \in ManifestType \cup {None},
         NEW scope \in SUBSET Paths, now \in 0..MaxTime
  PROVE  /\ Started(q, base, scope) \in CaptureType
         /\ Started(q, base, scope).pc = "list"
         /\ Started(q, base, scope).by = q
         /\ Started(q, base, scope).base = base
         /\ Started(q, base, scope).start = now
         /\ Started(q, base, scope).leaf = [p \in Paths |-> None]
         /\ Started(q, base, scope).status = [p \in Paths |-> "none"]
BY CaptureAssumption DEF Started, NewCapture, NoLeaves, CaptureType

\* Before the first capture nothing is cached and no capture runs.
LEMMA InitInv == Init => CaptureInv
<1> SUFFICES ASSUME Init PROVE CaptureInv OBVIOUS
<1> USE DEF Init
<1>1. CaptureTypeOK
  <2>1. Idle \in CaptureType
    BY CaptureAssumption DEF Idle, NewCapture, NoLeaves, CaptureType
  <2>2. disk \in [Paths -> FileType \cup {Absent}]
    BY CaptureAssumption DEF FileType
  <2>3. QED BY <2>1, <2>2, CaptureAssumption DEF CaptureTypeOK, MapType
<1>2. ClockOrder /\ EntriesOld /\ CacheSound
  BY DEF ClockOrder, EntriesOld, CacheSound, Busy, Idle, NewCapture, CachedFor, EntrySound
<1>3. Phases BY DEF Phases, Idle, NewCapture, NoLeaves
<1>4. \A p \in Paths : LeafInv(p)
  BY DEF LeafInv, Busy, Idle, NewCapture, NoLeaves, Counted
<1>5. QED BY <1>1, <1>2, <1>3, <1>4 DEF CaptureInv

-----------------------------------------------------------------------------
\* Steps of a capture that touch neither the files nor the clock

Outside == <<now, disk, ignored, persisted, loaded, writes, captures, held, kept>>

\* A capture that gives up, or starts over as a full capture, believes
\* nothing any more (captureBaselineLocked's catch, an error in captureLocked).
LEMMA ResetStep ==
  ASSUME CaptureInv, UNCHANGED <<Outside, cache, manifests, instant>>,
         cap' = Idle \/ (Busy /\ cap' = FallBack)
  PROVE  CaptureInv'
<1> USE DEF Outside
<1>0. /\ CaptureTypeOK /\ ClockOrder /\ EntriesOld /\ CacheSound
      /\ \A p \in Paths : LeafInv(p)
  BY DEF CaptureInv
<1>1. /\ cap' \in CaptureType /\ cap'.base = None /\ cap'.pc \in {"idle", "list"}
      /\ cap'.pc = "idle" \/ (Busy /\ cap'.start = now /\ cap'.by = cap.by)
      /\ cap'.leaf = [p \in Paths |-> None]
      /\ cap'.status = [p \in Paths |-> "none"]
  <2>1. CASE cap' = Idle
    BY <2>1, CaptureAssumption DEF Idle, NewCapture, NoLeaves, CaptureType
  <2>2. CASE Busy /\ cap' = FallBack
    <3>1. cap.by \in Procs /\ cap.scope \in SUBSET Paths /\ now \in 0..MaxTime
      BY <1>0, <2>2 DEF ClockOrder, CaptureTypeOK, CaptureType
    <3>2. cap' = Started(cap.by, None, cap.scope) BY <2>2 DEF FallBack
    <3>3. QED BY <2>2, <3>1, <3>2, StartedFresh
  <2>3. QED BY <2>1, <2>2
<1>2. CaptureTypeOK' BY <1>0, <1>1 DEF CaptureTypeOK
<1>3. ClockOrder'
  BY <1>0, <1>1, CaptureAssumption DEF ClockOrder, Busy, CaptureTypeOK
<1>4. EntriesOld'
  <2>1. /\ now \in Nat /\ cap.start \in Nat /\ VerifiedBy <= now /\ VerifiedBy' = now
        /\ VerifiedBy \in Nat
    BY <1>0, <1>1, CaptureAssumption
    DEF VerifiedBy, Busy, ClockOrder, CaptureTypeOK, CaptureType
  <2>2. \A p \in Paths, q \in Procs :
          /\ CachedFor(q, p)' = CachedFor(q, p)
          /\ CachedFor(q, p) \in EntryType \cup {None}
    BY <1>0 DEF CachedFor, CaptureTypeOK, MapType
  <2>3. \A p \in Paths : persisted # None => persisted[p] \in EntryType \cup {None}
    BY <1>0 DEF CaptureTypeOK, MapType
  <2>4. QED BY <1>0, <2>1, <2>2, <2>3, CaptureAssumption DEF EntriesOld, EntryType
<1>5. CacheSound'
  BY <1>0 DEF CacheSound, EntrySound, CachedFor, SameFingerprint
<1>6. Phases' BY <1>1 DEF Phases
<1>7. ASSUME NEW p \in Paths PROVE LeafInv(p)'
  <2>1. Busy' => Busy BY <1>1 DEF Busy
  <2>2. LeafInv(p) BY <1>0
  <2>3. QED BY <1>1, <2>1, <2>2 DEF LeafInv, Counted
<1>8. QED BY <1>2, <1>3, <1>4, <1>5, <1>6, <1>7 DEF CaptureInv

\* Whatever a check of one leaf concludes, the rest of the capture keeps its
\* clock and its entries.
LEMMA SameClock ==
  ASSUME CaptureInv, UNCHANGED <<Outside, cache>>,
         cap'.start = cap.start, cap'.by = cap.by, cap'.pc # "idle", Busy,
         cap'.pc = "staged" => cap'.verifiedAt \in 0..now
  PROVE  ClockOrder' /\ EntriesOld' /\ CacheSound'
<1> USE DEF Outside
<1>1. ClockOrder' BY CaptureAssumption DEF CaptureInv, CaptureTypeOK, ClockOrder, Busy
<1>2. EntriesOld' BY DEF CaptureInv, EntriesOld, VerifiedBy, Busy, CachedFor
<1>3. CacheSound' BY DEF CaptureInv, CacheSound, EntrySound, CachedFor, SameFingerprint
<1>4. QED BY <1>1, <1>2, <1>3

\* A check of one leaf moves its status, and only a leaf that is still there
\* with its old stamp becomes verified (assertVisibleLeafUnchanged).
LEMMA StatusStep ==
  ASSUME CaptureInv, NEW p \in Paths, UNCHANGED <<Outside, cache, manifests, instant>>,
         NEW s \in {"checked", "read", "rehash", "restat", "hashed", "verified"},
         cap' = [cap EXCEPT !.status[p] = s],
         cap.status[p] # "none", cap.pc \in {"stage", "final"},
         s = "verified" => cap.pc = "final",
         s \in Counted => cap.status[p] \in Counted,
         s = "verified" /\ Old(p) => ~Gone(p)
  PROVE  CaptureInv'
<1>0. /\ CaptureTypeOK /\ Phases /\ LeafInv(p)
      /\ \A r \in Paths : LeafInv(r)
  BY DEF CaptureInv
<1>1. /\ cap \in CaptureType
      /\ cap' \in CaptureType
      /\ \A r \in Paths \ {p} : cap'.status[r] = cap.status[r]
      /\ cap'.status[p] = s
      /\ cap'.pc = cap.pc /\ cap'.by = cap.by /\ cap'.base = cap.base
      /\ cap'.start = cap.start /\ cap'.leaf = cap.leaf /\ cap'.id = cap.id
      /\ cap'.verifiedAt = cap.verifiedAt
  BY <1>0, SMTT(60) DEF CaptureTypeOK, CaptureType
<1>2. CaptureTypeOK' BY <1>0, <1>1 DEF CaptureTypeOK, Outside
<1>3. ClockOrder' /\ EntriesOld' /\ CacheSound' BY <1>1, SameClock DEF Busy
<1>4. Phases' BY <1>0, <1>1 DEF Phases
<1>5. ASSUME NEW r \in Paths PROVE LeafInv(r)'
  <2>1. LeafInv(r) BY <1>0
  <2>2. /\ Old(r)' <=> Old(r)
        /\ Gone(r)' <=> Gone(r)
        /\ Busy' <=> Busy
        /\ SameFingerprint(r, cap.leaf[r])' <=> SameFingerprint(r, cap.leaf[r])
    BY <1>1 DEF Outside, Old, Gone, Busy, SameFingerprint, changedAt
  <2>3. /\ cap'.status[r] \in Counted => cap.status[r] \in Counted
        /\ cap'.status[r] = "verified" => cap.status[r] \in Counted
    BY <1>1, "verified" \in Counted DEF Counted
  <2>4. Steady(r) => Steady(r)' BY <1>1, <2>3 DEF Steady, Outside
  <2>5. cap.status[r] = "verified" \/ cap'.status[r] # "verified"
          \/ (r = p /\ s = "verified" /\ cap.pc = "final")
    BY <1>1
  <2>6. r = p /\ s = "verified" /\ cap.pc = "final" /\ cap.leaf[r] # None /\ Old(r) /\ r \notin kept =>
          instant[r] # Absent /\ instant[r].content = cap.id[r]
    BY <2>1, <2>3, <1>1 DEF LeafInv, Steady, Gone
  <2>7. QED BY <1>1, <2>1, <2>2, <2>3, <2>4, <2>5, <2>6 DEF LeafInv, Outside
<1>6. QED BY <1>2, <1>3, <1>4, <1>5 DEF CaptureInv

\* The checks of one leaf (assertVisibleLeafUnchanged and
\* assertVisibleLeafContentUnchanged, before hashing, after it and at the end).
LEMMA CheckSteps ==
  ASSUME CaptureInv, NEW p \in Paths,
         CheckBefore(p) \/ assertVisibleLeafUnchanged(p) \/ Rehash(p) \/ Restat(p)
  PROVE  CaptureInv'
<1>0. /\ CaptureTypeOK /\ Phases /\ UNCHANGED <<Outside, cache, manifests, instant>>
  BY DEF CaptureInv, CheckBefore, assertVisibleLeafUnchanged, Rehash, Restat,
         Outside, store, history
<1>1. CASE cap' = Idle BY <1>0, <1>1, ResetStep
<1>2. CASE Busy /\ cap' = FallBack BY <1>0, <1>2, ResetStep
<1>3. CASE ~(cap' = Idle) /\ ~(Busy /\ cap' = FallBack)
  <2>1. cap.status[p] \in {"listed", "read", "hashed", "rehash", "restat"}
    BY DEF CheckBefore, assertVisibleLeafUnchanged, Rehash, Restat
  <2>2. cap.pc \in {"stage", "final"}
    BY <1>0 DEF Phases, CheckBefore, assertVisibleLeafUnchanged, Rehash, Restat,
                CaptureTypeOK, CaptureType
  <2>3. ~(cap' = Doubt) BY <1>3, <2>2 DEF Doubt, Abandon, Busy
  <2>4. PICK s \in {"checked", "rehash", "restat", "hashed", "verified"} :
          /\ cap' = [cap EXCEPT !.status[p] = s]
          /\ s # "rehash" /\ s # "restat" => SameStable(p, cap.leaf[p])
          /\ s = "verified" => cap.pc = "final"
          /\ s # "checked" => cap.status[p] # "listed"
    BY <1>3, <2>2, <2>3
    DEF CheckBefore, assertVisibleLeafUnchanged, Rehash, Restat, passed, Abandon,
        SameFingerprint, SameStable, Leaf
  <2>5. SameStable(p, cap.leaf[p]) /\ Old(p) => ~Gone(p)
    <3>1. cap.leaf[p] \in LeafType BY <1>0, <2>1 DEF Phases, CaptureTypeOK, CaptureType
    <3>2. cap.leaf[p].mtime <= changedAt(cap.leaf[p]) /\ changedAt(cap.leaf[p]) \in Nat
      BY <3>1, ChangedAtBounds, CaptureAssumption
    <3>3. cap.leaf[p].mtime \in Nat /\ cap.start \in Nat
      BY <1>0, <3>1, CaptureAssumption DEF LeafType, CaptureTypeOK, CaptureType
    <3>4. QED BY <3>2, <3>3, CaptureAssumption DEF SameStable, Old, Gone
  <2>6. s \in Counted => cap.status[p] \in Counted BY <2>1, <2>4 DEF Counted
  <2>7. s \in {"checked", "read", "rehash", "restat", "hashed", "verified"}
        /\ cap.status[p] # "none"
    BY <2>1
  <2>8. s = "verified" /\ Old(p) => ~Gone(p) BY <2>4, <2>5
  <2>9. QED BY <1>0, <2>2, <2>4, <2>6, <2>7, <2>8, StatusStep
<1>4. QED BY <1>1, <1>2, <1>3

\* Whatever a leaf shows now is what it is known by: a stamp of the files
\* on disk, and a content seen since the capture began.
LEMMA OnDisk ==
  ASSUME CaptureTypeOK, NEW p \in Paths, disk[p] # Absent
  PROVE  /\ disk[p] \in FileType /\ Leaf(disk[p]) \in LeafType
         /\ disk[p].content \in Contents
BY DEF CaptureTypeOK, FileType, LeafType, Leaf

\* git hash-object reads the file as it is at that moment, which need not be
\* the file the leaf was listed for.
LEMMA HashStep ==
  ASSUME CaptureInv, NEW p \in Paths, HashObject(p)
  PROVE  CaptureInv'
<1> USE DEF HashObject
<1>0. /\ CaptureTypeOK /\ Phases /\ \A r \in Paths : LeafInv(r)
      /\ UNCHANGED <<Outside, cache, manifests, instant>>
  BY DEF CaptureInv, Outside, store, history
<1>1. CASE disk[p] = Absent BY <1>0, <1>1, ResetStep DEF Abandon
<1>2. CASE disk[p] # Absent
  <2>1. /\ cap \in CaptureType
        /\ cap' = [cap EXCEPT !.status[p] = "read", !.id[p] = disk[p].content]
        /\ disk[p].content \in Contents
    BY <1>0, <1>2, OnDisk DEF CaptureTypeOK
  <2>2. /\ cap' \in CaptureType
        /\ \A r \in Paths \ {p} : cap'.status[r] = cap.status[r] /\ cap'.id[r] = cap.id[r]
        /\ cap'.status[p] = "read" /\ cap'.id[p] = disk[p].content
        /\ cap'.pc = "stage" /\ cap.pc = "stage" /\ cap'.by = cap.by
        /\ cap'.base = cap.base /\ cap'.start = cap.start /\ cap'.leaf = cap.leaf
    <3> DEFINE hashed == [cap EXCEPT !.status[p] = "read"]
    <3>1. /\ hashed \in CaptureType
          /\ \A r \in Paths \ {p} : hashed.status[r] = cap.status[r]
          /\ hashed.status[p] = "read"
          /\ hashed.pc = cap.pc /\ hashed.by = cap.by /\ hashed.base = cap.base
          /\ hashed.start = cap.start /\ hashed.leaf = cap.leaf /\ hashed.id = cap.id
      BY <2>1 DEF CaptureType
    <3>2. cap' = [hashed EXCEPT !.id = [hashed.id EXCEPT ![p] = disk[p].content]]
      BY <2>1
    <3> HIDE DEF hashed
    <3>3. /\ cap' \in CaptureType
          /\ \A r \in Paths \ {p} : cap'.id[r] = hashed.id[r]
          /\ cap'.id[p] = disk[p].content /\ cap'.status = hashed.status
          /\ cap'.pc = hashed.pc /\ cap'.by = hashed.by /\ cap'.base = hashed.base
          /\ cap'.start = hashed.start /\ cap'.leaf = hashed.leaf
      <4>1. [hashed.id EXCEPT ![p] = disk[p].content] \in [Paths -> Contents \cup {None}]
        BY <2>1, <3>1 DEF CaptureType
      <4>2. QED BY <2>1, <3>1, <3>2, <4>1, ZenonT(60) DEF CaptureType
    <3>4. QED BY <3>1, <3>3, ZenonT(60)
  <2>3. CaptureTypeOK' BY <1>0, <2>2 DEF CaptureTypeOK, Outside
  <2>4. ClockOrder' /\ EntriesOld' /\ CacheSound' BY <1>0, <2>2, SameClock DEF Busy
  <2>5. Phases' BY <1>0, <2>2 DEF Phases
  <2>6. ASSUME NEW r \in Paths PROVE LeafInv(r)'
    <3>1. LeafInv(r) /\ cap.base = None BY <1>0, <2>2 DEF Phases
    <3>2. /\ Old(r)' <=> Old(r)
          /\ Gone(r)' <=> Gone(r)
          /\ Busy' /\ Busy
          /\ SameFingerprint(r, cap.leaf[r])' <=> SameFingerprint(r, cap.leaf[r])
      BY <1>0, <2>2 DEF Outside, Old, Gone, Busy, SameFingerprint, changedAt
    <3>3. CASE r # p
      <4>1. Steady(r) => Steady(r)' BY <1>0, <2>2, <3>3 DEF Steady, Outside
      <4>2. QED BY <1>0, <2>2, <3>1, <3>2, <3>3, <4>1 DEF LeafInv, Outside
    <3>4. CASE r = p
      <4>1. Steady(r) => Steady(r)' BY <1>0, <2>2, <3>4 DEF Steady, Outside
      <4>2. ContentOf(disk[p]) = disk[p].content BY <1>2 DEF ContentOf
      <4>3. QED BY <1>0, <2>1, <2>2, <3>1, <3>2, <3>4, <4>1, <4>2 DEF LeafInv, Outside
    <3>5. QED BY <3>3, <3>4
  <2>7. QED BY <2>3, <2>4, <2>5, <2>6 DEF CaptureInv
<1>3. QED BY <1>1, <1>2

\* Steps that leave every leaf as it is keep what is known of the leaves.
LEMMA PhaseStep ==
  ASSUME CaptureInv, Busy, UNCHANGED <<Outside, cache, manifests>>,
         cap' \in CaptureType, instant' \in [Paths -> FileType \cup {Absent}],
         cap'.pc # "idle", cap'.by = cap.by, cap'.base = cap.base,
         cap'.start = cap.start, cap'.leaf = cap.leaf, cap'.id = cap.id,
         cap'.status = cap.status,
         cap'.pc = "staged" => cap'.verifiedAt \in 0..now,
         \/ instant' = disk /\ \A p \in Paths : cap.status[p] # "verified"
         \/ instant' = instant /\ (cap'.pc \in {"final", "staged"} => cap.pc \in {"final", "staged"}),
         Phases'
  PROVE  CaptureInv'
<1>0. /\ CaptureTypeOK /\ \A p \in Paths : LeafInv(p)
  BY DEF CaptureInv
<1>1. CaptureTypeOK' BY <1>0 DEF CaptureTypeOK, Outside
<1>2. ClockOrder' /\ EntriesOld' /\ CacheSound' BY SameClock
<1>3. ASSUME NEW p \in Paths PROVE LeafInv(p)'
  <2>1. LeafInv(p) BY <1>0
  <2>2. /\ Old(p)' <=> Old(p)
        /\ Gone(p)' <=> Gone(p)
        /\ Busy' /\ Busy
        /\ SameFingerprint(p, cap.leaf[p])' <=> SameFingerprint(p, cap.leaf[p])
    BY DEF Outside, Old, Gone, Busy, SameFingerprint, changedAt
  <2>3. Steady(p) => Steady(p)' BY DEF Steady, Outside
  <2>4. QED BY <2>1, <2>2, <2>3 DEF LeafInv, Outside
<1>4. QED BY <1>1, <1>2, <1>3 DEF CaptureInv

\* git ls-files names the paths to inspect (queryVisibleLeafPaths).
LEMMA ListStep ==
  ASSUME CaptureInv, ListPaths
  PROVE  CaptureInv'
<1>1. /\ CaptureTypeOK /\ Phases /\ Busy BY DEF CaptureInv, ListPaths, Busy
<1>2. \A p \in Paths : cap.status[p] # "verified" BY <1>1, SMTT(60) DEF Phases, ListPaths
<1>3. /\ cap' \in CaptureType /\ cap'.pc = "inspect" /\ cap'.by = cap.by
      /\ cap'.base = cap.base /\ cap'.start = cap.start /\ cap'.leaf = cap.leaf
      /\ cap'.id = cap.id /\ cap'.status = cap.status
  BY <1>1 DEF ListPaths, CaptureTypeOK, CaptureType
<1>4. Phases' BY <1>1, <1>3 DEF Phases, ListPaths
<1>5. QED
  BY <1>1, <1>2, <1>3, <1>4, PhaseStep
  DEF ListPaths, Outside, store, history, CaptureTypeOK

\* Every path is inspected: a full capture goes on to hash, a baseline that
\* looks fresh is checked once more, any other starts over (isBaselineFresh).
LEMMA EndInspectStep ==
  ASSUME CaptureInv, EndInspect
  PROVE  CaptureInv'
<1>1. /\ CaptureTypeOK /\ Phases /\ Busy BY DEF CaptureInv, EndInspect, Busy
<1>2. UNCHANGED <<Outside, cache, manifests>> BY DEF EndInspect, Outside, store
<1>3. \A p \in Paths : cap.status[p] # "verified" BY <1>1 DEF Phases, EndInspect
<1>4. CASE cap.base = None
  <2>1. /\ cap' \in CaptureType /\ cap'.pc = "stage" /\ cap'.by = cap.by
        /\ cap'.base = cap.base /\ cap'.start = cap.start /\ cap'.leaf = cap.leaf
        /\ cap'.id = cap.id /\ cap'.status = cap.status /\ instant' = instant
    BY <1>1, <1>4 DEF EndInspect, CaptureTypeOK, CaptureType
  <2>2. Phases' BY <1>1, <1>4, <2>1 DEF Phases, EndInspect
  <2>3. QED BY <1>1, <1>2, <2>1, <2>2, PhaseStep DEF CaptureTypeOK
<1>5. CASE cap.base # None /\ BaselineFresh
  <2>1. /\ cap' \in CaptureType /\ cap'.pc = "final" /\ cap'.by = cap.by
        /\ cap'.base = cap.base /\ cap'.start = cap.start /\ cap'.leaf = cap.leaf
        /\ cap'.id = cap.id /\ cap'.status = cap.status /\ instant' = disk
    BY <1>1, <1>5 DEF EndInspect, CaptureTypeOK, CaptureType
  <2>2. Phases' BY <1>1, <1>5, <2>1 DEF Phases, EndInspect, BaselineFresh, Listed
  <2>3. QED BY <1>1, <1>2, <1>3, <2>1, <2>2, PhaseStep DEF CaptureTypeOK
<1>6. CASE cap.base # None /\ ~BaselineFresh
  BY <1>1, <1>2, <1>6, ResetStep DEF EndInspect
<1>7. QED BY <1>4, <1>5, <1>6

\* Every leaf has its object, and the last check of all leaves begins.
LEMMA BeginFinalStep ==
  ASSUME CaptureInv, BeginFinalCheck
  PROVE  CaptureInv'
<1>1. /\ CaptureTypeOK /\ Phases /\ Busy BY DEF CaptureInv, BeginFinalCheck, Busy
<1>2. UNCHANGED <<Outside, cache, manifests>> BY DEF BeginFinalCheck, Outside, store
<1>3. \A p \in Paths : cap.status[p] # "verified" BY <1>1 DEF Phases, BeginFinalCheck
<1>4. /\ cap' \in CaptureType /\ cap'.pc = "final" /\ cap'.by = cap.by
      /\ cap'.base = cap.base /\ cap'.start = cap.start /\ cap'.leaf = cap.leaf
      /\ cap'.id = cap.id /\ cap'.status = cap.status /\ instant' = disk
  BY <1>1 DEF BeginFinalCheck, CaptureTypeOK, CaptureType
<1>5. Phases' BY <1>1, <1>4 DEF Phases, BeginFinalCheck
<1>6. QED BY <1>1, <1>2, <1>3, <1>4, <1>5, PhaseStep DEF CaptureTypeOK

\* stageWorktree returns with verifiedAtNs, read after the last check.
LEMMA EndStageStep ==
  ASSUME CaptureInv, EndStage
  PROVE  CaptureInv'
<1>1. /\ CaptureTypeOK /\ Phases /\ Busy BY DEF CaptureInv, EndStage, Busy
<1>2. UNCHANGED <<Outside, cache, manifests>> BY DEF EndStage, Outside, store, history
<1>3. /\ cap' \in CaptureType /\ cap'.pc = "staged" /\ cap'.by = cap.by
      /\ cap'.base = cap.base /\ cap'.start = cap.start /\ cap'.leaf = cap.leaf
      /\ cap'.id = cap.id /\ cap'.status = cap.status /\ instant' = instant
      /\ cap'.verifiedAt = now /\ now \in 0..now
  <2>1. /\ now \in 0..MaxTime /\ now \in 0..now /\ instant' = instant /\ cap \in CaptureType
        /\ cap' = [cap EXCEPT !.pc = "staged", !.verifiedAt = now]
    BY <1>1, CaptureAssumption DEF EndStage, CaptureTypeOK, history
  <2>2. QED BY <2>1 DEF CaptureType
<1>4. Phases' BY <1>1, <1>3 DEF Phases, EndStage, AllAt, Listed
<1>5. QED BY <1>1, <1>2, <1>3, <1>4, PhaseStep DEF CaptureTypeOK, EndStage

\* A cached entry that is believed names the file's content, and was verified
\* so long after the leaf's stamps that the leaf is old for this capture too.
LEMMA BelievedEntry ==
  ASSUME WindowCovers, CaptureInv, Busy, NEW p \in Paths, disk[p] # Absent,
         CacheHit(CachedFor(cap.by, p), Leaf(disk[p]))
  PROVE  /\ CachedFor(cap.by, p).id \in Contents
         /\ CachedFor(cap.by, p).id = disk[p].content
         /\ changedAt(Leaf(disk[p])) + Grain <= cap.start
<1> DEFINE entry == CachedFor(cap.by, p)
<1>1. /\ CaptureTypeOK /\ cap.by \in Procs BY DEF CaptureInv, ClockOrder
<1>2. /\ entry # None /\ entry.leaf = Leaf(disk[p])
      /\ entry.verifiedAt > changedAt(Leaf(disk[p])) + Window
      /\ Trusted(entry)
  BY DEF CacheHit, Trusted
<1>3. entry \in EntryType BY <1>1, <1>2 DEF CachedFor, CaptureTypeOK, MapType
<1>4. entry.id = disk[p].content
  <2>1. EntrySound(p, entry) BY <1>1 DEF CaptureInv, CacheSound
  <2>2. SameFingerprint(p, entry.leaf) BY <1>2 DEF SameFingerprint
  <2>3. QED BY <1>2, <2>1, <2>2 DEF EntrySound
<1>5. entry.verifiedAt <= cap.start
  BY <1>1, <1>2 DEF CaptureInv, EntriesOld, VerifiedBy
<1>6. /\ changedAt(Leaf(disk[p])) \in 0..MaxTime
      /\ entry.verifiedAt \in Nat /\ cap.start \in Nat
  BY <1>1, <1>3, OnDisk, ChangedAtBounds, CaptureAssumption
  DEF EntryType, CaptureTypeOK, CaptureType
<1>7. changedAt(Leaf(disk[p])) + Grain <= cap.start
  <2>1. /\ Grain \in Nat /\ Span \in Nat /\ Window \in Nat /\ MaxTime \in Nat
    BY CaptureAssumption
  <2>2. QED BY <1>2, <1>5, <1>6, <2>1 DEF WindowCovers
<1>8. QED BY <1>3, <1>4, <1>7 DEF EntryType

\* One lstat (inspectVisibleLeaf): the cache answers for the content, or the
\* leaf waits to be hashed; a file that is gone is not a leaf.
LEMMA InspectStep ==
  ASSUME WindowCovers, CaptureInv, NEW p \in Paths, Inspect(p)
  PROVE  CaptureInv'
<1> DEFINE leaf == Leaf(disk[p])
           entry == CachedFor(cap.by, p)
           hit == CacheHit(entry, leaf)
           rest == [cap EXCEPT !.todo = @ \ {p}]
           newId == IF hit THEN entry.id ELSE None
           newStatus == IF hit THEN "hashed" ELSE "listed"
<1>0. /\ CaptureTypeOK /\ Phases /\ Busy /\ \A r \in Paths : LeafInv(r)
      /\ UNCHANGED <<Outside, cache, manifests, instant>> /\ cap.pc = "inspect"
  BY DEF CaptureInv, Inspect, Busy, Outside, store, history
<1>1. /\ rest \in CaptureType /\ rest.pc = cap.pc /\ rest.by = cap.by
      /\ rest.base = cap.base /\ rest.start = cap.start /\ rest.leaf = cap.leaf
      /\ rest.id = cap.id /\ rest.status = cap.status
  BY <1>0 DEF CaptureTypeOK, CaptureType
<1>2. CASE disk[p] = Absent
  <2>1. cap' = rest BY <1>2 DEF Inspect
  <2>2. /\ cap'.pc = "inspect" /\ instant' = instant
        /\ instant' \in [Paths -> FileType \cup {Absent}]
    BY <1>0, <1>1, <2>1 DEF CaptureTypeOK
  <2>3. Phases' BY <1>0, <1>1, <2>1 DEF Phases
  <2> HIDE DEF rest
  <2>4. QED BY <1>0, <1>1, <2>1, <2>2, <2>3, PhaseStep
<1>3. CASE disk[p] # Absent
  <2>1. leaf \in LeafType /\ leaf # None BY <1>0, <1>3, OnDisk, CaptureAssumption
  <2>2. hit => /\ entry.id \in Contents /\ entry.id = disk[p].content
               /\ changedAt(leaf) + Grain <= cap.start
    BY <1>0, <1>3, BelievedEntry
  <2>3. newId \in Contents \cup {None} /\ newStatus \in {"listed", "hashed"}
    BY <2>2
  <2>4. cap' = [rest EXCEPT !.leaf = [cap.leaf EXCEPT ![p] = leaf],
                            !.id = [cap.id EXCEPT ![p] = newId],
                            !.status = [cap.status EXCEPT ![p] = newStatus]]
    BY <1>3 DEF Inspect
  <2> HIDE DEF leaf, newId, newStatus, rest
  <2>5. /\ [cap.leaf EXCEPT ![p] = leaf] \in [Paths -> LeafType \cup {None}]
        /\ [cap.id EXCEPT ![p] = newId] \in [Paths -> Contents \cup {None}]
        /\ [cap.status EXCEPT ![p] = newStatus]
             \in [Paths -> {"none", "listed", "checked", "read", "rehash", "restat",
                            "hashed", "verified"}]
    BY <1>0, <2>1, <2>3 DEF CaptureTypeOK, CaptureType
  <2>6. /\ cap' \in CaptureType
        /\ \A r \in Paths \ {p} : /\ cap'.leaf[r] = cap.leaf[r] /\ cap'.id[r] = cap.id[r]
                                  /\ cap'.status[r] = cap.status[r]
        /\ cap'.leaf[p] = leaf /\ cap'.id[p] = newId /\ cap'.status[p] = newStatus
        /\ cap'.pc = "inspect" /\ cap'.by = cap.by
        /\ cap'.base = cap.base /\ cap'.start = cap.start
    <3>1. cap \in CaptureType BY <1>0 DEF CaptureTypeOK
    <3>2. /\ cap'.leaf = [cap.leaf EXCEPT ![p] = leaf]
          /\ cap'.id = [cap.id EXCEPT ![p] = newId]
          /\ cap'.status = [cap.status EXCEPT ![p] = newStatus]
          /\ cap'.pc = rest.pc /\ cap'.by = rest.by
          /\ cap'.base = rest.base /\ cap'.start = rest.start
          /\ cap' \in CaptureType
      BY <1>1, <2>4, <2>5 DEF CaptureType
    <3>3. QED BY <1>0, <1>1, <3>1, <3>2 DEF CaptureType
  <2>7. CaptureTypeOK' BY <1>0, <2>6 DEF CaptureTypeOK, Outside
  <2>8. ClockOrder' /\ EntriesOld' /\ CacheSound' BY <1>0, <2>6, SameClock DEF Busy
  <2>9. Phases' BY <1>0, <2>1, <2>3, <2>6 DEF Phases
  <2>10. ASSUME NEW r \in Paths PROVE LeafInv(r)'
    <3>1. LeafInv(r) BY <1>0
    <3>2. CASE r # p
      <4>1. /\ Old(r)' <=> Old(r)
            /\ Gone(r)' <=> Gone(r)
            /\ Busy' /\ Busy
            /\ SameFingerprint(r, cap.leaf[r])' <=> SameFingerprint(r, cap.leaf[r])
        BY <1>0, <2>6, <3>2 DEF Outside, Old, Gone, Busy, SameFingerprint, changedAt
      <4>2. Steady(r) => Steady(r)' BY <1>0, <2>6, <3>2 DEF Steady, Outside
      <4>3. QED BY <1>0, <2>6, <3>1, <3>2, <4>1, <4>2 DEF LeafInv, Outside
    <3>3. CASE r = p
      <4>1. ContentOf(disk[p]) = disk[p].content /\ ContentOf(disk[p]) \in held[p]
        BY <1>0, <1>3, <3>1, <3>3 DEF ContentOf, LeafInv
      <4>2. newStatus \in Counted => hit /\ newId = entry.id
        BY DEF newStatus, newId, Counted
      <4>3. Old(p)' <=> changedAt(leaf) + Grain <= cap.start
        BY <2>6 DEF Old, changedAt
      <4>4. Steady(p)' BY <1>0, <1>3, <2>2, <2>6, <4>2 DEF Steady, Outside, leaf
      <4>5. newStatus # "verified" BY <2>3
      <4>6. QED
        BY <1>0, <2>2, <2>6, <3>3, <4>1, <4>2, <4>3, <4>4, <4>5 DEF LeafInv, Outside
    <3>4. QED BY <3>2, <3>3
  <2>11. QED BY <2>7, <2>8, <2>9, <2>10 DEF CaptureInv
<1>4. QED BY <1>2, <1>3

-----------------------------------------------------------------------------
\* Steps that begin or end a capture, or a process

\* With no leaf inspected, the leaf invariant only speaks of held.
LEMMA NoLeafYet ==
  ASSUME cap'.leaf = [p \in Paths |-> None], cap'.status = [p \in Paths |-> "none"],
         cap'.pc = "idle" \/ \A p \in Paths : ContentOf(disk[p])' \in held'[p]
  PROVE  \A p \in Paths : LeafInv(p)'
<1>1. ASSUME NEW p \in Paths PROVE LeafInv(p)'
  <2>1. cap'.leaf[p] = None /\ cap'.status[p] = "none" /\ ~("none" \in Counted)
    BY DEF Counted
  <2>2. Busy' => ContentOf(disk[p])' \in held'[p] BY DEF Busy
  <2>3. QED BY <2>1, <2>2 DEF LeafInv
<1>2. QED BY <1>1

\* No entry in memory or in leaf-cache.json is verified in the future.
LEMMA EntriesByNow ==
  ASSUME CaptureInv, NEW p \in Paths
  PROVE  /\ \A q \in Procs : CachedFor(q, p) # None => CachedFor(q, p).verifiedAt <= now
         /\ persisted # None /\ persisted[p] # None => persisted[p].verifiedAt <= now
<1>1. /\ CaptureTypeOK /\ EntriesOld BY DEF CaptureInv
<1>2. VerifiedBy \in Nat /\ now \in Nat /\ VerifiedBy <= now
  BY CaptureAssumption DEF CaptureInv, CaptureTypeOK, CaptureType, VerifiedBy, ClockOrder
<1>3. ASSUME NEW q \in Procs, CachedFor(q, p) # None
      PROVE  CachedFor(q, p).verifiedAt <= now
  <2>1. CachedFor(q, p) \in EntryType
    BY <1>1, <1>3 DEF CachedFor, CaptureTypeOK, MapType
  <2>2. QED BY <1>1, <1>2, <1>3, <2>1, CaptureAssumption DEF EntriesOld, EntryType
<1>4. ASSUME persisted # None, persisted[p] # None
      PROVE  persisted[p].verifiedAt <= now
  <2>1. persisted[p] \in EntryType BY <1>1, <1>4 DEF CaptureTypeOK, MapType
  <2>2. QED BY <1>1, <1>2, <1>4, <2>1, CaptureAssumption DEF EntriesOld, EntryType
<1>5. QED BY <1>3, <1>4

\* Publish stores the manifest and the entries of a finished capture
\* (rememberVisibleLeaves): each entry is worth believing if it ever is.
LEMMA PublishStep ==
  ASSUME WindowCovers, CaptureInv, NEW written \in BOOLEAN, Publish(written)
  PROVE  CaptureInv'
<1> DEFINE map == rememberVisibleLeaves
<1>0. /\ CaptureTypeOK /\ Phases /\ ClockOrder /\ EntriesOld /\ CacheSound
      /\ \A p \in Paths : LeafInv(p)
      /\ Busy /\ cap.pc = "staged" /\ cap.by \in Procs
      /\ now \in Nat /\ cap.start \in Nat /\ cap.verifiedAt \in Nat
      /\ Span \in Nat /\ Window \in Nat /\ Grain \in Nat /\ MaxTime \in Nat
  BY CaptureAssumption
  DEF CaptureInv, Publish, Busy, ClockOrder, CaptureTypeOK, CaptureType
<1>1. /\ UNCHANGED <<now, disk, ignored, loaded, held, kept, instant, writes, captures>>
      /\ cap' = Idle /\ cache' = [cache EXCEPT ![cap.by] = map]
      /\ persisted' = persisted \/ persisted' = map
  BY DEF Publish, history
<1>2. ASSUME NEW p \in Listed
      PROVE  /\ p \in Paths /\ Entry(p) \in EntryType
             /\ Entry(p).verifiedAt <= now
             /\ EntrySound(p, Entry(p)) /\ cap.id[p] \in Contents
  <2>1. p \in Paths /\ cap.leaf[p] # None BY DEF Listed
  <2>2. cap.status[p] = "verified" /\ cap.status[p] \in Counted
    BY <1>0, <2>1 DEF Phases, Counted
  <2>3. /\ cap.id[p] \in Contents /\ cap.leaf[p] \in LeafType
        /\ Old(p) /\ SameFingerprint(p, cap.leaf[p]) => disk[p].content = cap.id[p]
    BY <1>0, <2>1, <2>2 DEF LeafInv, CaptureTypeOK, CaptureType
  <2>4. Entry(p) \in EntryType
    BY <1>0, <2>3 DEF Entry, EntryType, CaptureTypeOK, CaptureType
  <2>5. /\ Entry(p).verifiedAt = cap.verifiedAt /\ Entry(p).leaf = cap.leaf[p]
        /\ Entry(p).id = cap.id[p]
    BY DEF Entry
  <2>6. changedAt(cap.leaf[p]) \in Nat BY <1>0, <2>3, ChangedAtBounds
  <2>7. cap.verifiedAt <= now /\ now <= cap.start + Span BY <1>0 DEF ClockOrder
  <2>8. Trusted(Entry(p)) => Old(p)
    BY <1>0, <2>5, <2>6, <2>7 DEF Trusted, Old, WindowCovers
  <2>9. EntrySound(p, Entry(p)) BY <2>3, <2>5, <2>8 DEF EntrySound
  <2>10. Entry(p).verifiedAt <= now BY <2>5, <2>7
  <2>11. QED BY <2>1, <2>3, <2>4, <2>9, <2>10
<1>3. ASSUME NEW p \in Paths
      PROVE  /\ map[p] \in EntryType \cup {None}
             /\ map[p] # None => map[p].verifiedAt <= now
             /\ EntrySound(p, map[p])
  <2>1. CASE p \in Listed
    <3>1. map[p] = Entry(p) BY <2>1 DEF rememberVisibleLeaves
    <3>2. QED BY <1>2, <2>1, <3>1
  <2>2. CASE p \notin Listed /\ p \in cap.scope
    <3>1. map[p] = None BY <2>2 DEF rememberVisibleLeaves
    <3>2. QED BY <3>1 DEF EntrySound
  <2>3. CASE p \notin Listed /\ p \notin cap.scope
    <3>1. map[p] = CachedFor(cap.by, p) BY <2>3 DEF rememberVisibleLeaves
    <3>2. CachedFor(cap.by, p) \in EntryType \cup {None}
      BY <1>0 DEF CachedFor, CaptureTypeOK, MapType
    <3>3. CachedFor(cap.by, p) # None => CachedFor(cap.by, p).verifiedAt <= cap.start
      BY <1>0 DEF EntriesOld, VerifiedBy
    <3>4. cap.start <= now BY <1>0 DEF ClockOrder
    <3>5. CachedFor(cap.by, p) # None => CachedFor(cap.by, p).verifiedAt <= now
      BY <1>0, <3>2, <3>3, <3>4 DEF EntryType
    <3>6. EntrySound(p, CachedFor(cap.by, p)) BY <1>0 DEF CacheSound
    <3>7. QED BY <3>1, <3>2, <3>5, <3>6
  <2>4. QED BY <2>1, <2>2, <2>3
<1>4. map \in MapType
  <2>1. map = [p \in Paths |-> map[p]] BY DEF rememberVisibleLeaves
  <2>2. QED BY <1>3, <2>1 DEF MapType
<1> HIDE DEF map
<1>5. /\ Idle \in CaptureType /\ Idle.base = None /\ Idle.pc = "idle"
      /\ Idle.leaf = [p \in Paths |-> None] /\ Idle.status = [p \in Paths |-> "none"]
  BY CaptureAssumption DEF Idle, NewCapture, NoLeaves, CaptureType
<1>6. CaptureTypeOK'
  <2>1. Tree \in [Paths -> Contents \cup {Absent}] BY <1>2 DEF Tree
  <2>2. manifests' \subseteq ManifestType
    BY <1>0, <2>1 DEF Publish, ManifestType, CaptureTypeOK, CaptureType
  <2>3. cache' \in [Procs -> MapType] /\ persisted' \in MapType
    BY <1>0, <1>1, <1>4 DEF CaptureTypeOK
  <2>4. QED BY <1>0, <1>1, <1>5, <2>2, <2>3 DEF CaptureTypeOK
<1>7. ClockOrder' BY <1>1, <1>5 DEF ClockOrder, Busy
<1>8. ASSUME NEW p \in Paths, NEW q \in Procs
      PROVE  CachedFor(q, p)' = CachedFor(q, p) \/ CachedFor(q, p)' = map[p]
                                 \/ CachedFor(q, p)' = None
  BY <1>0, <1>1 DEF CachedFor, CaptureTypeOK
<1>9. EntriesOld'
  <2>1. VerifiedBy' = now BY <1>1, <1>5 DEF VerifiedBy, Busy
  <2>2. QED BY <1>1, <1>3, <1>8, <2>1, EntriesByNow DEF EntriesOld
<1>10. CacheSound'
  <2>1. ASSUME NEW p \in Paths, NEW q \in Procs PROVE EntrySound(p, CachedFor(q, p))'
    <3>1. EntrySound(p, CachedFor(q, p)) BY <1>0 DEF CacheSound
    <3>2. QED BY <1>1, <1>3, <1>8, <3>1 DEF EntrySound, SameFingerprint, Trusted
  <2>2. ASSUME NEW p \in Paths, persisted' # None PROVE EntrySound(p, persisted[p])'
    <3>1. persisted # None => EntrySound(p, persisted[p]) BY <1>0 DEF CacheSound
    <3>2. QED BY <1>1, <1>3, <2>2, <3>1 DEF EntrySound, SameFingerprint, Trusted
  <2>3. QED BY <2>1, <2>2 DEF CacheSound
<1>11. Phases' BY <1>1, <1>5 DEF Phases
<1>12. \A p \in Paths : LeafInv(p)' BY <1>1, <1>5, NoLeafYet
<1>13. QED BY <1>6, <1>7, <1>9, <1>10, <1>11, <1>12 DEF CaptureInv

\* A process that starts a capture first loads leaf-cache.json, once, and a
\* process that ends forgets its memory: entries only move between the two.
LEMMA CacheMoves ==
  ASSUME CaptureInv, UNCHANGED <<now, disk, persisted>>, NEW q \in Procs,
         \/ cache' = cache
         \/ cache' = [cache EXCEPT ![q] = persisted]
         \/ cache' = [cache EXCEPT ![q] = None]
  PROVE  /\ cache' \in [Procs -> MapType] /\ CacheSound'
         /\ VerifiedBy' \in {VerifiedBy, now} => EntriesOld'
<1>1. /\ CaptureTypeOK /\ EntriesOld /\ CacheSound BY DEF CaptureInv
<1>2. cache' \in [Procs -> MapType] BY <1>1 DEF CaptureTypeOK, MapType
<1>3. ASSUME NEW r \in Procs, NEW p \in Paths
      PROVE  \/ CachedFor(r, p)' = CachedFor(r, p)
             \/ persisted # None /\ CachedFor(r, p)' = persisted[p]
             \/ CachedFor(r, p)' = None
  BY <1>1 DEF CachedFor, CaptureTypeOK
<1>4. CacheSound'
  <2>1. ASSUME NEW r \in Procs, NEW p \in Paths PROVE EntrySound(p, CachedFor(r, p))'
    <3>1. /\ EntrySound(p, CachedFor(r, p))
          /\ persisted # None => EntrySound(p, persisted[p])
      BY <1>1 DEF CacheSound
    <3>2. QED BY <1>3, <3>1 DEF EntrySound, SameFingerprint, Trusted
  <2>2. ASSUME NEW p \in Paths, persisted # None PROVE EntrySound(p, persisted[p])'
    <3>1. EntrySound(p, persisted[p]) BY <1>1, <2>2 DEF CacheSound
    <3>2. QED BY <3>1 DEF EntrySound, SameFingerprint, Trusted
  <2>3. QED BY <2>1, <2>2 DEF CacheSound
<1>5. ASSUME VerifiedBy' \in {VerifiedBy, now} PROVE EntriesOld'
  <2>1. CASE VerifiedBy' = VerifiedBy BY <1>1, <1>3, <2>1 DEF EntriesOld
  <2>2. CASE VerifiedBy' = now BY <1>3, <2>2, EntriesByNow DEF EntriesOld
  <2>3. QED BY <1>5, <2>1, <2>2
<1>6. QED BY <1>2, <1>4, <1>5

\* capture and captureBaseline begin at the present moment, so every entry
\* they may believe was verified before.
LEMMA BeginStep ==
  ASSUME CaptureInv, NEW q \in Procs, NEW base \in manifests \cup {None},
         NEW scope \in SUBSET Paths, Begin(q, base, scope)
  PROVE  CaptureInv'
<1>0. /\ CaptureTypeOK /\ now \in 0..MaxTime /\ now \in Nat /\ Span \in Nat
      /\ base \in ManifestType \cup {None}
  BY CaptureAssumption DEF CaptureInv, CaptureTypeOK
<1>1. /\ UNCHANGED <<now, disk, ignored, persisted, manifests, writes>>
      /\ cap' = Started(q, base, scope) /\ kept' = {} /\ instant' = disk
      /\ held' = [p \in Paths |-> {ContentOf(disk[p])}]
      /\ cache' = cache \/ cache' = [cache EXCEPT ![q] = persisted]
      /\ loaded' = loaded \cup {q} /\ captures' = captures + 1 /\ captures < MaxCaptures
  BY DEF Begin, loadPersistedLeafCache, ContentOf
<1>2. /\ cap' \in CaptureType /\ cap'.pc = "list" /\ cap'.by = q
      /\ cap'.base = base /\ cap'.start = now
      /\ cap'.leaf = [p \in Paths |-> None] /\ cap'.status = [p \in Paths |-> "none"]
  BY <1>0, <1>1, StartedFresh
<1>3. cache' \in [Procs -> MapType] /\ CacheSound' /\ EntriesOld'
  BY <1>1, <1>2, CacheMoves DEF VerifiedBy, Busy
<1>4. CaptureTypeOK'
  <2>1. \A p \in Paths : ContentOf(disk[p]) \in Contents \cup {Absent}
    BY <1>0, OnDisk DEF ContentOf
  <2>2. held' \in [Paths -> SUBSET (Contents \cup {Absent})] BY <1>1, <2>1
  <2>3. captures' \in 0..MaxCaptures BY <1>0, <1>1, CaptureAssumption DEF CaptureTypeOK
  <2>4. QED BY <1>0, <1>1, <1>2, <1>3, <2>2, <2>3 DEF CaptureTypeOK
<1>5. ClockOrder' BY <1>0, <1>1, <1>2 DEF ClockOrder, Busy
<1>6. Phases' BY <1>2 DEF Phases
<1>7. \A p \in Paths : LeafInv(p)' BY <1>1, <1>2, NoLeafYet DEF ContentOf
<1>8. QED BY <1>3, <1>4, <1>5, <1>6, <1>7 DEF CaptureInv

\* A process ends: its memory is gone, and with it a capture it was running.
LEMMA RestartStep ==
  ASSUME CaptureInv, NEW q \in Procs, Restart(q)
  PROVE  CaptureInv'
<1> DEFINE forgotten == [cache EXCEPT ![q] = None]
<1>0. /\ CaptureTypeOK /\ Phases /\ ClockOrder /\ \A p \in Paths : LeafInv(p)
  BY DEF CaptureInv
<1>1. /\ UNCHANGED <<now, disk, ignored, persisted, manifests, history, writes, captures>>
      /\ cache' = forgotten /\ loaded' = loaded \ {q}
      /\ cap' = Idle \/ cap' = cap
  BY DEF Restart
<1>2. /\ Idle \in CaptureType /\ Idle.base = None /\ Idle.pc = "idle"
      /\ Idle.leaf = [p \in Paths |-> None] /\ Idle.status = [p \in Paths |-> "none"]
  BY CaptureAssumption DEF Idle, NewCapture, NoLeaves, CaptureType
<1>3. VerifiedBy' \in {VerifiedBy, now} BY <1>1, <1>2 DEF VerifiedBy, Busy
<1>4. cache' \in [Procs -> MapType] /\ CacheSound' /\ EntriesOld'
  BY <1>1, <1>3, CacheMoves
<1>5. CaptureTypeOK' BY <1>0, <1>1, <1>2, <1>4 DEF CaptureTypeOK, history
<1>6. ClockOrder' BY <1>0, <1>1, <1>2 DEF ClockOrder, Busy
<1>7. Phases' BY <1>0, <1>1, <1>2 DEF Phases
<1>8. \A p \in Paths : LeafInv(p)'
  <2>1. CASE cap' = Idle BY <1>1, <1>2, <2>1, NoLeafYet
  <2>2. CASE cap' = cap
    BY <1>0, <1>1, <2>2
    DEF LeafInv, history, Busy, Old, Gone, Steady, SameFingerprint, changedAt
  <2>3. QED BY <1>1, <2>1, <2>2
<1>9. QED BY <1>4, <1>5, <1>6, <1>7, <1>8 DEF CaptureInv

-----------------------------------------------------------------------------
\* The world outside

\* Time passes, within Span of the start while a capture runs.
LEMMA TickStep ==
  ASSUME CaptureInv, Tick
  PROVE  CaptureInv'
<1>0. /\ CaptureTypeOK /\ ClockOrder /\ EntriesOld /\ CacheSound /\ Phases
      /\ \A p \in Paths : LeafInv(p)
      /\ now \in Nat /\ MaxTime \in Nat /\ Span \in Nat /\ cap.start \in Nat
      /\ cap.verifiedAt \in Nat
  BY CaptureAssumption DEF CaptureInv, CaptureTypeOK, CaptureType
<1>1. /\ now < MaxTime /\ now' = now + 1 /\ (Busy => now < cap.start + Span)
      /\ UNCHANGED <<disk, ignored, cache, persisted, loaded, manifests, cap, held,
                     kept, instant, writes, captures>>
  BY DEF Tick, store, history, Busy
<1>2. CaptureTypeOK' BY <1>0, <1>1 DEF CaptureTypeOK
<1>3. ClockOrder' BY <1>0, <1>1 DEF ClockOrder, Busy
<1>4. EntriesOld'
  <2>1. CASE Busy
    BY <1>0, <1>1, <2>1 DEF EntriesOld, VerifiedBy, Busy, CachedFor
  <2>2. CASE ~Busy
    <3>1. VerifiedBy' = now + 1 BY <1>1, <2>2 DEF VerifiedBy, Busy
    <3>2. ASSUME NEW p \in Paths, NEW q \in Procs, CachedFor(q, p) # None
          PROVE  CachedFor(q, p).verifiedAt <= now + 1
      <4>1. CachedFor(q, p) \in EntryType
        BY <1>0, <3>2 DEF CachedFor, CaptureTypeOK, MapType
      <4>2. CachedFor(q, p).verifiedAt <= now BY <3>2, EntriesByNow
      <4>3. QED BY <1>0, <4>1, <4>2 DEF EntryType
    <3>3. ASSUME NEW p \in Paths, persisted # None, persisted[p] # None
          PROVE  persisted[p].verifiedAt <= now + 1
      <4>1. persisted[p] \in EntryType BY <1>0, <3>3 DEF CaptureTypeOK, MapType
      <4>2. persisted[p].verifiedAt <= now BY <3>3, EntriesByNow
      <4>3. QED BY <1>0, <4>1, <4>2 DEF EntryType
    <3>4. QED BY <1>1, <3>1, <3>2, <3>3 DEF EntriesOld, CachedFor
  <2>3. QED BY <2>1, <2>2
<1>5. CacheSound'
  BY <1>0, <1>1 DEF CacheSound, EntrySound, CachedFor, SameFingerprint, Trusted
<1>6. Phases' BY <1>0, <1>1 DEF Phases
<1>7. \A p \in Paths : LeafInv(p)'
  BY <1>0, <1>1
  DEF LeafInv, Busy, Old, Gone, Steady, SameFingerprint, changedAt
<1>8. QED BY <1>2, <1>3, <1>4, <1>5, <1>6, <1>7 DEF CaptureInv

\* The ignore rules change: no file and no entry does.
LEMMA EditStep ==
  ASSUME CaptureInv, NEW p \in Paths, EditIgnoreRules(p)
  PROVE  CaptureInv'
<1>1. /\ UNCHANGED <<now, disk, cache, persisted, loaded, manifests, cap, held, kept,
                     instant, captures>>
      /\ ignored' \subseteq Paths /\ writes' = writes + 1 /\ writes < MaxWrites
  BY DEF CaptureInv, CaptureTypeOK, EditIgnoreRules, store, history
<1>2. CaptureTypeOK'
  BY <1>1, CaptureAssumption DEF CaptureInv, CaptureTypeOK
<1>3. ClockOrder' /\ EntriesOld' /\ CacheSound'
  BY <1>1 DEF CaptureInv, ClockOrder, EntriesOld, VerifiedBy, Busy, CacheSound, EntrySound,
              CachedFor, SameFingerprint, Trusted
<1>4. Phases' BY <1>1 DEF CaptureInv, Phases
<1>5. \A r \in Paths : LeafInv(r)'
  BY <1>1
  DEF CaptureInv, LeafInv, Busy, Old, Gone, Steady, SameFingerprint, changedAt
<1>6. QED BY <1>2, <1>3, <1>4, <1>5 DEF CaptureInv

\* A file that another program writes or removes looks too new to the
\* capture and to every entry: nothing is believed of it any more.
LEMMA FileStep ==
  ASSUME WindowCovers, CaptureInv, NEW p \in Paths, NEW file \in FileType \cup {Absent},
         disk' = [disk EXCEPT ![p] = file],
         held' = [held EXCEPT ![p] = @ \cup {ContentOf(file)}],
         kept' = kept \/ kept' = kept \cup {p},
         file # Absent => file.ctime = Stamp,
         file # Absent /\ p \notin kept' => file.mtime = Stamp,
         UNCHANGED <<now, ignored, cache, persisted, loaded, manifests, cap, instant, captures>>,
         writes < MaxWrites, writes' = writes + 1
  PROVE  CaptureInv'
<1>0. /\ CaptureTypeOK /\ ClockOrder /\ EntriesOld /\ CacheSound /\ Phases
      /\ \A r \in Paths : LeafInv(r)
  BY DEF CaptureInv
<1>1. /\ \A r \in Paths \ {p} : disk'[r] = disk[r] /\ held'[r] = held[r]
      /\ disk'[p] = file /\ held'[p] = held[p] \cup {ContentOf(file)}
      /\ disk' \in [Paths -> FileType \cup {Absent}]
  BY <1>0 DEF CaptureTypeOK
<1>2. CaptureTypeOK'
  <2>1. ContentOf(file) \in Contents \cup {Absent} BY DEF ContentOf, FileType
  <2>2. held' \in [Paths -> SUBSET (Contents \cup {Absent})] BY <1>0, <2>1 DEF CaptureTypeOK
  <2>3. writes' \in 0..MaxWrites BY <1>0, CaptureAssumption DEF CaptureTypeOK
  <2>4. QED BY <1>0, <1>1, <2>2, <2>3 DEF CaptureTypeOK
<1>3. ClockOrder' /\ EntriesOld' /\ Phases'
  BY <1>0 DEF ClockOrder, EntriesOld, VerifiedBy, Busy, CachedFor, Phases
<1>4. file # Absent => /\ file \in FileType /\ Leaf(file) \in LeafType
                       /\ Leaf(file).ctime = Stamp
  BY DEF FileType, LeafType, Leaf
<1>5. ASSUME NEW entry \in EntryType, entry.verifiedAt <= now,
             file # Absent, Leaf(file) = entry.leaf
      PROVE  ~Trusted(entry)
  <2>1. entry.verifiedAt \in 0..MaxTime BY DEF EntryType
  <2>2. ~(entry.verifiedAt > changedAt(Leaf(file)) + Window)
    BY <1>0, <1>4, <1>5, <2>1, NewStampIsLate
  <2>3. QED BY <1>5, <2>2 DEF Trusted
<1>6. CacheSound'
  <2>1. ASSUME NEW r \in Paths, NEW q \in Procs PROVE EntrySound(r, CachedFor(q, r))'
    <3>1. /\ EntrySound(r, CachedFor(q, r)) /\ CachedFor(q, r)' = CachedFor(q, r)
          /\ CachedFor(q, r) \in EntryType \cup {None}
      BY <1>0 DEF CacheSound, CachedFor, CaptureTypeOK, MapType
    <3>2. CASE r # p BY <1>1, <3>1, <3>2 DEF EntrySound, SameFingerprint, Trusted
    <3>3. CASE r = p
      <4>1. CachedFor(q, p) # None => CachedFor(q, p).verifiedAt <= now BY EntriesByNow
      <4>2. CachedFor(q, p) # None /\ file # Absent /\ Leaf(file) = CachedFor(q, p).leaf
              => ~Trusted(CachedFor(q, p))
        BY <1>5, <3>1, <3>3, <4>1
      <4>3. QED BY <1>1, <3>1, <3>3, <4>2 DEF EntrySound, SameFingerprint, Trusted
    <3>4. QED BY <3>2, <3>3
  <2>2. ASSUME NEW r \in Paths, persisted # None PROVE EntrySound(r, persisted[r])'
    <3>1. EntrySound(r, persisted[r]) /\ persisted[r] \in EntryType \cup {None}
      BY <1>0, <2>2 DEF CacheSound, CaptureTypeOK, MapType
    <3>2. CASE r # p BY <1>1, <3>1, <3>2 DEF EntrySound, SameFingerprint, Trusted
    <3>3. CASE r = p
      <4>1. persisted[p] # None => persisted[p].verifiedAt <= now BY <2>2, EntriesByNow
      <4>2. persisted[p] # None /\ file # Absent /\ Leaf(file) = persisted[p].leaf
              => ~Trusted(persisted[p])
        BY <1>5, <3>1, <3>3, <4>1
      <4>3. QED BY <1>1, <3>1, <3>3, <4>2 DEF EntrySound, SameFingerprint, Trusted
    <3>4. QED BY <3>2, <3>3
  <2>3. QED BY <2>1, <2>2 DEF CacheSound
<1>7. ASSUME NEW r \in Paths PROVE LeafInv(r)'
  <2>1. LeafInv(r) BY <1>0
  <2>2. CASE r # p
    BY <1>1, <2>1, <2>2
    DEF LeafInv, Busy, Old, Gone, Steady, SameFingerprint, changedAt, ContentOf
  <2>3. CASE r = p
    <3>1. CASE ~Busy
      <4>1. cap.leaf[p] = None /\ cap.status[p] = "none" BY <1>0, <3>1 DEF Phases, Busy
      <4>2. QED BY <2>3, <3>1, <4>1 DEF LeafInv, Busy, Counted
    <3>2. CASE Busy
      <4>1. /\ cap.start \in 0..MaxTime /\ cap.start <= now
            /\ cap.leaf[p] \in LeafType \cup {None}
        BY <1>0, <3>2 DEF ClockOrder, CaptureTypeOK, CaptureType
      <4>2. file # Absent =>
              /\ ~(changedAt(Leaf(file)) + Grain <= cap.start)
              /\ Stamp + Grain > cap.start
        BY <1>0, <1>4, <4>1, NewStampIsLate
      <4>3. Old(p) => ~SameFingerprint(p, cap.leaf[p])'
        BY <1>1, <4>2 DEF Old, SameFingerprint, changedAt
      <4>4. p \notin kept' => Gone(p)' BY <1>1, <4>2 DEF Gone
      <4>5. Old(p)' <=> Old(p) BY DEF Old, changedAt
      <4>6. QED
        BY <1>1, <2>1, <2>3, <4>3, <4>4, <4>5, <3>2
        DEF LeafInv, Busy, ContentOf
    <3>3. QED BY <3>1, <3>2
  <2>4. QED BY <2>2, <2>3
<1>8. QED BY <1>2, <1>3, <1>6, <1>7 DEF CaptureInv

\* Other programs write and remove files, edit the ignore rules, and time
\* passes, at any point of a capture.
LEMMA WorldStep ==
  ASSUME WindowCovers, CaptureInv, World
  PROVE  CaptureInv'
<1>1. CASE Tick BY <1>1, TickStep
<1>2. ASSUME NEW p \in Paths, NEW c \in Contents, NEW keep \in BOOLEAN, Write(p, c, keep)
      PROVE  CaptureInv'
  <2> DEFINE file == [content |-> c, ctime |-> Stamp,
                      mtime |-> IF keep THEN disk[p].mtime ELSE Stamp]
  <2>1. /\ CaptureTypeOK /\ now \in Nat /\ MaxTime \in Nat /\ now <= MaxTime
    BY CaptureAssumption DEF CaptureInv, CaptureTypeOK
  <2>2. Stamp \in 0..MaxTime BY <2>1, StampBounds, CaptureAssumption
  <2>3. keep => disk[p] \in FileType BY <1>2, <2>1, OnDisk DEF Write
  <2>4. file \in FileType BY <2>2, <2>3 DEF FileType
  <2>5. file # Absent BY <2>4, CaptureAssumption
  <2>6. ContentOf(file) = c BY <2>5 DEF ContentOf
  <2>7. p \notin kept' => ~keep BY <1>2, <2>1 DEF Write, CaptureTypeOK
  <2>8. /\ disk' = [disk EXCEPT ![p] = file]
        /\ held' = [held EXCEPT ![p] = @ \cup {c}]
        /\ kept' = kept \/ kept' = kept \cup {p}
        /\ file.ctime = Stamp /\ (p \notin kept' => file.mtime = Stamp)
        /\ UNCHANGED <<now, ignored, cache, persisted, loaded, manifests, cap, instant, captures>>
        /\ writes < MaxWrites /\ writes' = writes + 1
    BY <1>2, <2>7 DEF Write, store
  <2> HIDE DEF file
  <2>9. QED BY <2>4, <2>6, <2>8, FileStep
<1>3. ASSUME NEW p \in Paths, Remove(p) PROVE CaptureInv'
  <2>1. ContentOf(Absent) = Absent BY DEF ContentOf
  <2>2. QED BY <1>3, <2>1, FileStep DEF Remove, store
<1>4. ASSUME NEW p \in Paths, EditIgnoreRules(p) PROVE CaptureInv'
  BY <1>4, EditStep
<1>5. QED BY <1>1, <1>2, <1>3, <1>4 DEF World

-----------------------------------------------------------------------------

\* Every step of a capture keeps the invariant (stageWorktree, captureLocked,
\* captureBaselineLocked).
LEMMA CaptureStepInv ==
  ASSUME WindowCovers, CaptureInv, CaptureStep
  PROVE  CaptureInv'
<1>1. CASE ListPaths BY <1>1, ListStep
<1>2. CASE EndInspect BY <1>2, EndInspectStep
<1>3. CASE BeginFinalCheck BY <1>3, BeginFinalStep
<1>4. CASE EndStage BY <1>4, EndStageStep
<1>5. ASSUME NEW p \in Paths, LeafStep(p) PROVE CaptureInv'
  BY <1>5, InspectStep, HashStep, CheckSteps DEF LeafStep
<1>6. ASSUME NEW written \in BOOLEAN, Publish(written) PROVE CaptureInv'
  BY <1>6, PublishStep
<1>7. CASE ReuseBaseline
  BY <1>7, ResetStep DEF ReuseBaseline, Outside, store, history
<1>8. CASE captureFails
  BY <1>8, ResetStep DEF captureFails, Outside, store, history
<1>9. QED BY <1>1, <1>2, <1>3, <1>4, <1>5, <1>6, <1>7, <1>8 DEF CaptureStep

\* The invariant holds of the first state and every step keeps it.
LEMMA CaptureInvariant ==
  ASSUME WindowCovers
  PROVE  Spec => []CaptureInv
<1>1. Init => CaptureInv BY InitInv
<1>2. ASSUME CaptureInv, [Next]_vars PROVE CaptureInv'
  <2>1. CASE World BY <1>2, <2>1, WorldStep
  <2>2. CASE CaptureStep BY <1>2, <2>2, CaptureStepInv
  <2>3. ASSUME NEW q \in Procs, NEW base \in manifests \cup {None},
               NEW scope \in (SUBSET Paths) \ {{}}, Begin(q, base, scope)
        PROVE  CaptureInv'
    BY <1>2, <2>3, BeginStep
  <2>4. ASSUME NEW q \in Procs, Restart(q) PROVE CaptureInv'
    BY <1>2, <2>4, RestartStep
  <2>5. CASE UNCHANGED vars
    <3>1. UNCHANGED <<now, disk, ignored, store, cap, history, writes, captures>>
      BY <2>5 DEF vars, store, history
    <3>2. ClockOrder' /\ EntriesOld' /\ CacheSound'
      BY <1>2, <3>1
      DEF CaptureInv, ClockOrder, EntriesOld, VerifiedBy, Busy, CacheSound, EntrySound,
          CachedFor, SameFingerprint, Trusted, store
    <3>3. CaptureTypeOK' /\ Phases'
      BY <1>2, <3>1 DEF CaptureInv, CaptureTypeOK, Phases, store, history
    <3>4. \A p \in Paths : LeafInv(p)'
      BY <1>2, <3>1
      DEF CaptureInv, LeafInv, Busy, Old, Gone, Steady, SameFingerprint, changedAt, history
    <3>5. QED BY <3>2, <3>3, <3>4 DEF CaptureInv
  <2>6. QED BY <1>2, <2>1, <2>2, <2>3, <2>4, <2>5 DEF Next
<1>3. QED BY <1>1, <1>2, PTL DEF Spec

\* Every variable keeps its shape (the records of src/snapshot-store.ts).
THEOREM CaptureTypes ==
  ASSUME WindowCovers
  PROVE  Spec => []CaptureTypeOK
<1>1. CaptureInv => CaptureTypeOK BY DEF CaptureInv
<1>2. QED BY <1>1, CaptureInvariant, PTL

\* The metadata cache never lies, in memory or on disk: stageWorktree may skip
\* hashing a file on its word.
THEOREM CacheIsSound ==
  ASSUME WindowCovers
  PROVE  Spec => []CacheSound
<1>1. CaptureInv => CacheSound BY DEF CaptureInv
<1>2. QED BY <1>1, CaptureInvariant, PTL

\* What captureLocked publishes was on disk at one moment, for every file that
\* had settled, and each object is a content its file had meanwhile.
THEOREM CaptureAtOneInstant ==
  ASSUME WindowCovers
  PROVE  Spec => []CaptureIsOneInstant
<1>1. ASSUME CaptureInv, cap.pc = "staged", NEW p \in Listed
      PROVE  /\ cap.id[p] \in held[p]
             /\ Settled(p) => instant[p] # Absent /\ instant[p].content = cap.id[p]
  <2>1. p \in Paths /\ cap.leaf[p] # None BY DEF Listed
  <2>2. cap.status[p] = "verified" BY <1>1, <2>1 DEF CaptureInv, Phases
  <2>3. LeafInv(p) /\ cap.status[p] \in Counted
    BY <1>1, <2>1, <2>2 DEF CaptureInv, Counted
  <2>4. QED BY <2>1, <2>2, <2>3 DEF LeafInv, Settled, Old
<1>2. CaptureInv => CaptureIsOneInstant BY <1>1 DEF CaptureIsOneInstant
<1>3. QED BY <1>2, CaptureInvariant, PTL

\* captureBaselineLocked returns the baseline only if every file in it still
\* had its content when the last check began.
THEOREM ReusedBaselineIsCurrent ==
  ASSUME WindowCovers
  PROVE  Spec => []BaselineIsCurrent
<1>1. ASSUME CaptureInv, cap.pc = "final", cap.base # None, AllAt("verified"),
             NEW p \in Paths \ kept, cap.base.tree[p] # Absent
      PROVE  instant[p] # Absent /\ instant[p].content = cap.base.tree[p]
  <2>1. cap.leaf[p] # None /\ cap.id[p] = cap.base.tree[p]
    BY <1>1 DEF CaptureInv, Phases
  <2>2. cap.status[p] = "verified" BY <1>1, <2>1 DEF AllAt, Listed
  <2>3. LeafInv(p) /\ cap.status[p] \in Counted
    BY <1>1, <2>2 DEF CaptureInv, Counted
  <2>4. Old(p) BY <1>1, <2>3 DEF LeafInv
  <2>5. QED BY <1>1, <2>1, <2>2, <2>3, <2>4 DEF LeafInv
<1>2. CaptureInv => BaselineIsCurrent BY <1>1 DEF BaselineIsCurrent
<1>3. QED BY <1>2, CaptureInvariant, PTL
=============================================================================
