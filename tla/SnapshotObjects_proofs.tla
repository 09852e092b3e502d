----------------------- MODULE SnapshotObjects_proofs -----------------------
(***************************************************************************)
(* Four results for any paths, contents, calls and limits of the caches.   *)
(*                                                                         *)
(* ManifestsComplete is inductive by itself: a capture publishes a tree    *)
(* only when git write-tree found every blob of it, and what the collector *)
(* or a power loss takes damages the manifests that need it.  It does not  *)
(* rest on the metadata cache telling the truth, nor on the collector      *)
(* getting to its end.                                                     *)
(*                                                                         *)
(* PinnedStaysReadable follows from SweepInv: while the collector removes  *)
(* a store no manifest is pinned.                                          *)
(*                                                                         *)
(* ObjectsTypeOK and NoFalseRefusal follow from CacheInv.  While the       *)
(* membership map forgot nothing, MembersKept says it holds the members of *)
(* every settled entry of the cache of trees.  Once it drops members, the  *)
(* heart is MembersHeld: the members of a settled entry are in the map,    *)
(* less than Slack(i) trees away from its new end.                         *)
(* The slack of an entry counts the entries listed after it and the calls  *)
(* that could list now but do not: a listing that starts takes one of the  *)
(* calls and adds an entry (the slack stays), and one that ends gives the  *)
(* call back (the slack grows by the tree just remembered).  The slack is  *)
(* never more than TreeLimit plus the number of calls, hence Ample.        *)
(***************************************************************************)
EXTENDS SnapshotObjects, FiniteSetTheorems, SequenceTheorems, WellFoundedInduction, TLAPS

\* A step that leaves the objects, the manifest files and what was damaged alone.
LEMMA StoreUntouched ==
  ASSUME ManifestsComplete, UNCHANGED <<objects, manifests, damaged>>
  PROVE  ManifestsComplete'
BY SMTT(60) DEF ManifestsComplete

\* The steps of the reading methods and edits of the workspace write nothing to
\* the store (readBlobOperation, assertComplete).
LEMMA ReadersWriteNothing ==
  ASSUME NEW r \in Readers, ReaderNext(r)
  PROVE  UNCHANGED <<objects, repo, manifests, damaged, sweep, pins>> /\ spent' \in {spent, [spent EXCEPT !["read"] = @ + 1]}
BY DEF ReaderNext, BeginRead, loadManifest, readTreeEntries, lsTree, catBlob,
       revalidateManifest, assertObjectsComplete, ReadStep, store, Spend

\* Each operation under the store lock keeps every manifest complete.
LEMMA StoreStep ==
  ASSUME ManifestsComplete, StoreNext
  PROVE  ManifestsComplete'
<1>1. ASSUME NEW saved \in BOOLEAN, capture(saved) PROVE ManifestsComplete'
  <2>1. ObjectsOf(file) \subseteq objects'
    BY <1>1 DEF capture, TreeWritten, ObjectsOf
  <2>2. /\ objects \subseteq objects' /\ manifests' = manifests \cup {file}
        /\ damaged' = damaged \ {file}
    BY <1>1 DEF capture
  <2>3. QED BY <2>1, <2>2 DEF ManifestsComplete
<1>2. CASE captureRefused
  <2>1. objects \subseteq objects' /\ manifests' = manifests /\ damaged' = damaged
    BY <1>2 DEF captureRefused
  <2>2. QED BY <2>1 DEF ManifestsComplete
<1>3. ASSUME NEW t \in Trees, NEW reason \in Reasons, pin(t, reason) \/ unpin(t, reason)
      PROVE  ManifestsComplete'
  BY <1>3, StoreUntouched DEF pin, unpin, store
<1>4. ASSUME NEW mine \in BOOLEAN, collectGarbage(mine) PROVE ManifestsComplete'
  BY <1>4, StoreUntouched DEF collectGarbage
<1>5. CASE captureFailed \/ sweepDone \/ sweepFails
  BY <1>5, StoreUntouched DEF captureFailed, sweepDone, sweepFails, store
\* What takes an object damages the manifests that need it.
<1>6. ASSUME NEW gone, objects' = objects \ gone, manifests' \subseteq manifests,
             damaged' = damaged \cup NeedOneOf(gone)
      PROVE  ManifestsComplete'
  <2> SUFFICES ASSUME NEW t \in manifests', t \notin damaged' PROVE ObjectsOf(t) \subseteq objects'
    BY DEF ManifestsComplete, ObjectsOf
  <2>1. ObjectsOf(t) \subseteq objects
    BY <1>6 DEF ManifestsComplete
  <2>2. ObjectsOf(t) \cap gone = {}
    BY <1>6 DEF NeedOneOf
  <2> QED BY <1>6, <2>1, <2>2
<1>7. CASE removeEntry
  <2>1. CASE \E o \in objects : /\ objects' = objects \ {o} /\ damaged' = damaged \cup NeedOneOf({o})
                                /\ UNCHANGED <<repo, manifests, leafDisk>>
    BY <1>6, <2>1
  <2>2. CASE UNCHANGED <<objects, damaged>> /\ manifests' \subseteq manifests
    BY <2>2 DEF ManifestsComplete
  <2> QED BY <1>7, <2>1, <2>2 DEF removeEntry
<1>8. ASSUME NEW gone \in SUBSET objects, Restart(gone) PROVE ManifestsComplete'
  <2>1. CASE gone = {}
    BY <1>8, <2>1, StoreUntouched DEF Restart
  <2>2. CASE gone # {}
    BY <1>6, <1>8, <2>2 DEF Restart
  <2> QED BY <2>1, <2>2
<1> QED BY <1>1, <1>2, <1>3, <1>4, <1>5, <1>7, <1>8 DEF StoreNext

\* A manifest has its whole tree unless an object of it was taken since it was last
\* captured, whatever order of captures, collections that end, fail or are cut
\* short, restarts, power losses and reads led to it (snapshot-store.ts capture,
\* assertObjectsComplete and collectGarbageLocked).
THEOREM ManifestsAlwaysComplete == Spec => []ManifestsComplete
<1>1. Init => ManifestsComplete BY DEF Init, ManifestsComplete
<1>2. ManifestsComplete /\ [Next]_vars => ManifestsComplete'
  <2> SUFFICES ASSUME ManifestsComplete, [Next]_vars PROVE ManifestsComplete' OBVIOUS
  <2>1. ASSUME NEW p \in Paths, NEW b \in Blobs, EditFile(p, b) PROVE ManifestsComplete'
    BY <2>1, StoreUntouched DEF EditFile, store
  <2>2. CASE StoreNext BY <2>2, StoreStep
  <2>3. ASSUME NEW r \in Readers, ReaderNext(r) PROVE ManifestsComplete'
    BY <2>3, ReadersWriteNothing, StoreUntouched
  <2>4. CASE UNCHANGED vars BY <2>4, StoreUntouched DEF vars
  <2>5. QED BY <2>1, <2>2, <2>3, <2>4 DEF Next
<1>3. QED BY <1>1, <1>2, PTL DEF Spec

\* What is there stays there.
StoreGrows ==
  /\ objects \subseteq objects' /\ manifests \subseteq manifests'
  /\ repo = "whole" => repo' = "whole"

\* The collector found no pin, and none is added while it removes the store.
SweepInv ==
  /\ spent \in [Kinds -> Nat]
  /\ sweep # "none" => \A t \in Trees : pins[t] = {}

\* What a step spends of the bounds is counted.
LEMMA Spending ==
  ASSUME spent \in [Kinds -> Nat], NEW kind \in Kinds, Spend(kind)
  PROVE  spent' \in [Kinds -> Nat] /\ (kind = "loss" => losses' # losses)
BY DEF Spend, losses

\* What a step does to the pins, the collector and what can be read.
LEMMA PinStep ==
  ASSUME SweepInv, [Next]_vars
  PROVE  /\ SweepInv'
         /\ losses' = losses =>
              \A t \in Trees : pins[t] # {} /\ Readable(t) => Readable(t)'
<1>1. ASSUME StoreGrows, SweepInv'
      PROVE  SweepInv' /\ \A t \in Trees : Readable(t) => Readable(t)'
  BY <1>1 DEF StoreGrows, Readable, ObjectsOf
<1>2. ASSUME UNCHANGED <<objects, repo, manifests, sweep, pins>>, spent' \in [Kinds -> Nat]
      PROVE  SweepInv' /\ \A t \in Trees : Readable(t) => Readable(t)'
  BY <1>1, <1>2 DEF StoreGrows, SweepInv
<1>3. ASSUME NEW saved \in BOOLEAN, capture(saved)
      PROVE  SweepInv' /\ \A t \in Trees : Readable(t) => Readable(t)'
  BY <1>1, <1>3, Spending DEF StoreGrows, capture, SweepInv, Kinds
<1>4. CASE captureRefused \/ captureFailed
  BY <1>1, <1>4 DEF StoreGrows, captureRefused, captureFailed, SweepInv, store
<1>5. ASSUME NEW t \in Trees, NEW reason \in Reasons, pin(t, reason) \/ unpin(t, reason)
      PROVE  SweepInv' /\ \A u \in Trees : Readable(u) => Readable(u)'
  <2>1. sweep' = "none" /\ UNCHANGED <<objects, repo, manifests>> /\ spent' \in [Kinds -> Nat]
    BY <1>5, Spending DEF pin, unpin, store, SweepInv, Kinds
  <2> QED BY <1>1, <2>1 DEF StoreGrows, SweepInv
<1>6. ASSUME NEW mine \in BOOLEAN, collectGarbage(mine)
      PROVE  SweepInv' /\ \A t \in Trees : Readable(t) => Readable(t)'
  BY <1>1, <1>6, Spending DEF StoreGrows, collectGarbage, SweepInv, Kinds
<1>7. CASE removeEntry
  <2>1. sweep # "none" /\ UNCHANGED <<sweep, pins, spent>>
    BY <1>7 DEF removeEntry
  <2> QED BY <2>1 DEF SweepInv
<1>8. CASE sweepDone \/ sweepFails
  BY <1>1, <1>8 DEF StoreGrows, sweepDone, sweepFails, SweepInv
<1>9. ASSUME NEW gone \in SUBSET objects, Restart(gone)
      PROVE  SweepInv' /\ (losses' = losses => \A t \in Trees : Readable(t) => Readable(t)')
  <2>1. /\ sweep' \in {sweep, "none"} /\ UNCHANGED <<repo, manifests, pins>>
        /\ spent' \in [Kinds -> Nat]
        /\ UNCHANGED objects \/ losses' # losses
    BY <1>9, Spending DEF Restart, SweepInv, Kinds
  <2>2. SweepInv'
    BY <2>1 DEF SweepInv
  <2>3. losses' = losses => UNCHANGED objects
    BY <2>1 DEF SweepInv
  <2> QED BY <1>1, <2>1, <2>2, <2>3 DEF StoreGrows
<1>10. ASSUME NEW p \in Paths, NEW b \in Blobs, EditFile(p, b)
       PROVE  SweepInv' /\ \A t \in Trees : Readable(t) => Readable(t)'
  BY <1>2, <1>10, Spending DEF EditFile, store, SweepInv, Kinds
<1>11. ASSUME NEW r \in Readers, ReaderNext(r)
       PROVE  SweepInv' /\ \A t \in Trees : Readable(t) => Readable(t)'
  BY <1>2, <1>11, ReadersWriteNothing DEF SweepInv, Kinds
<1>12. CASE UNCHANGED vars
  BY <1>2, <1>12 DEF vars, SweepInv
<1> QED
  BY <1>3, <1>4, <1>5, <1>6, <1>7, <1>8, <1>9, <1>10, <1>11, <1>12 DEF Next, StoreNext

\* A pinned manifest that can be read stays so through every collection, also one
\* that fails or is cut short, and every crash that takes no object: pins are
\* looked for once and the store lock keeps new ones out until the removal is over
\* (snapshot-store.ts collectGarbageLocked, pin and unpin).
THEOREM PinnedReadableAlways == Spec => PinnedStaysReadable
<1>1. Init => SweepInv
  BY DEF Init, SweepInv
<1>2. SweepInv /\ [Next]_vars =>
        /\ SweepInv'
        /\ losses' = losses =>
             \A t \in Trees : pins[t] # {} /\ Readable(t) => Readable(t)'
  BY PinStep
<1> QED BY <1>1, <1>2, PTL DEF Spec, PinnedStaysReadable

-----------------------------------------------------------------------------
\* The bounded maps

\* A set of naturals that is not empty has a least element: what the proofs about
\* Without use for induction over a sequence (the least index where they fail).
LEMMA LeastNumber ==
  ASSUME NEW S \in SUBSET Nat, S /= {}
  PROVE  \E x \in S : \A y \in S : x <= y
<1>1. \E x \in S : \A y \in S : ~(<<y, x>> \in OpToRel(<, Nat))
  BY NatLessThanWellFounded, WFMin
<1>2. PICK x \in S : \A y \in S : ~(<<y, x>> \in OpToRel(<, Nat))
  BY <1>1
<1>3. \A y \in S : x <= y
  <2> SUFFICES ASSUME NEW y \in S, ~(x <= y) PROVE FALSE
    OBVIOUS
  <2>1. x \in Nat /\ y \in Nat /\ y < x
    OBVIOUS
  <2>2. <<y, x>> \in {ss \in Nat \X Nat : ss[1] < ss[2]}
    BY <2>1
  <2>3. <<y, x>> \in OpToRel(<, Nat)
    BY <2>2 DEF OpToRel
  <2> QED BY <1>2, <2>3
<1> QED BY <1>3

\* The recursive function inside Without is defined: each of its values follows
\* from the one before.
LEMMA WithoutSteps ==
  ASSUME NEW E, NEW s \in Seq(E), NEW S
  PROVE  \E f : /\ f[0] = <<>>
                /\ \A i \in 1..Len(s) :
                     f[i] = IF s[i] \in S THEN f[i - 1] ELSE Append(f[i - 1], s[i])
                /\ Without(s, S) = f[Len(s)]
<1> DEFINE Next1(g, i) == IF i = 0 THEN <<>>
                        ELSE IF s[i] \in S THEN g[i - 1] ELSE Append(g[i - 1], s[i])
           Good(n) == \E f : f = [i \in 0..n |-> Next1(f, i)]
           Bad == {n \in Nat : ~Good(n)}
<1>1. Bad = {}
  <2> SUFFICES ASSUME Bad /= {} PROVE FALSE
    OBVIOUS
  <2>1. PICK n \in Bad : \A m \in Bad : n <= m
    <3>1. Bad \in SUBSET Nat
      OBVIOUS
    <3> HIDE DEF Bad
    <3> QED BY <3>1, LeastNumber
  <2>2. n /= 0
    <3> DEFINE f == [i \in 0..0 |-> <<>>]
    <3>1. f = [i \in 0..0 |-> Next1(f, i)]
      OBVIOUS
    <3>2. Good(0)
      BY <3>1
    <3> QED BY <2>1, <3>2
  <2>3. n \in Nat /\ n - 1 \in Nat /\ ~(n <= n - 1)
    BY <2>1, <2>2
  <2>4. n - 1 \notin Bad
    BY <2>1, <2>3
  <2>5. PICK g : g = [i \in 0..(n - 1) |-> Next1(g, i)]
    BY <2>3, <2>4
  <2> DEFINE h == [i \in 0..n |-> IF i = n THEN Next1(g, n) ELSE g[i]]
  <2>6. \A i \in 0..n : h[i] = Next1(h, i)
    <3> SUFFICES ASSUME NEW i \in 0..n PROVE h[i] = Next1(h, i)
      OBVIOUS
    <3>1. i /= 0 => h[i - 1] = g[i - 1]
      BY <2>3
    <3>2. CASE i = n
      BY <2>2, <3>1, <3>2
    <3>3. CASE i /= n
      <4>1. h[i] = g[i] /\ i \in 0..(n - 1)
        BY <2>3, <3>3
      <4>2. g[i] = Next1(g, i)
        BY <2>5, <4>1
      <4> QED BY <3>1, <4>1, <4>2
    <3> QED BY <3>2, <3>3
  <2>7. h = [i \in 0..n |-> Next1(h, i)]
    <3> HIDE DEF Next1
    <3> QED BY <2>6
  <2>8. Good(n)
    BY <2>7, Zenon
  <2> QED BY <2>1, <2>8
<1> DEFINE f == CHOOSE f : f = [i \in 0..Len(s) |-> Next1(f, i)]
<1>2. Len(s) \in Nat
  OBVIOUS
<1>3. f = [i \in 0..Len(s) |-> Next1(f, i)]
  <2>1. Good(Len(s))
    BY <1>1, <1>2
  <2> QED BY <2>1, Zenon
<1>4. Without(s, S) = f[Len(s)]
  BY DEF Without
<1> HIDE DEF f
<1>5. \A i \in 0..Len(s) : f[i] = Next1(f, i)
  <2> HIDE DEF Next1
  <2> QED BY <1>3
<1>6. f[0] = <<>>
  BY <1>2, <1>5
<1>7. \A i \in 1..Len(s) : f[i] = IF s[i] \in S THEN f[i - 1] ELSE Append(f[i - 1], s[i])
  BY <1>2, <1>5
<1> QED
  BY <1>4, <1>6, <1>7

\* Without keeps every element it was not asked to drop, and no further from the
\* end than it was.
LEMMA WithoutKeeps ==
  ASSUME NEW E, NEW s \in Seq(E), NEW S
  PROVE  /\ Without(s, S) \in Seq(E) /\ Len(Without(s, S)) <= Len(s)
         /\ \A m \in 1..Len(s) : s[m] \notin S =>
              \E k \in 1..Len(Without(s, S)) :
                /\ Without(s, S)[k] = s[m]
                /\ Len(Without(s, S)) - k <= Len(s) - m
<1>1. PICK f : /\ f[0] = <<>>
               /\ \A i \in 1..Len(s) :
                    f[i] = IF s[i] \in S THEN f[i - 1] ELSE Append(f[i - 1], s[i])
               /\ Without(s, S) = f[Len(s)]
  BY WithoutSteps
<1> DEFINE P(i) == /\ f[i] \in Seq(E) /\ Len(f[i]) <= i
                   /\ \A m \in 1..i : s[m] \notin S =>
                        \E k \in 1..Len(f[i]) : f[i][k] = s[m] /\ Len(f[i]) - k <= i - m
           Bad == {i \in 0..Len(s) : ~P(i)}
<1>2. Len(s) \in Nat
  OBVIOUS
<1>3. Bad = {}
  <2> SUFFICES ASSUME Bad /= {} PROVE FALSE
    OBVIOUS
  <2>1. PICK n \in Bad : \A m \in Bad : n <= m
    <3>1. Bad \in SUBSET Nat
      BY <1>2
    <3> HIDE DEF Bad
    <3> QED BY <3>1, LeastNumber
  <2>2. n \in 0..Len(s) /\ ~P(n)
    BY <2>1
  <2>3. n /= 0
    <3>1. P(0)
      BY <1>1
    <3> QED BY <2>2, <3>1
  <2>4. n \in 1..Len(s) /\ n - 1 \in 0..Len(s) /\ ~(n <= n - 1)
    BY <1>2, <2>2, <2>3
  <2>5. P(n - 1)
    BY <2>1, <2>4
  <2> DEFINE t == f[n - 1]
  <2>6. /\ t \in Seq(E) /\ Len(t) <= n - 1
        /\ \A m \in 1..(n - 1) : s[m] \notin S =>
             \E k \in 1..Len(t) : t[k] = s[m] /\ Len(t) - k <= n - 1 - m
    BY <2>5
  <2> HIDE DEF t
  <2>7. CASE s[n] \in S
    <3>1. f[n] = t
      BY <1>1, <2>4, <2>7 DEF t
    <3>2. \A m \in 1..n : s[m] \notin S => m \in 1..(n - 1)
      BY <2>4, <2>7
    <3>3. \A m \in 1..n : s[m] \notin S =>
             \E k \in 1..Len(t) : t[k] = s[m] /\ Len(t) - k <= n - m
      <4> SUFFICES ASSUME NEW m \in 1..n, s[m] \notin S
                   PROVE  \E k \in 1..Len(t) : t[k] = s[m] /\ Len(t) - k <= n - m
        OBVIOUS
      <4>1. PICK k \in 1..Len(t) : t[k] = s[m] /\ Len(t) - k <= n - 1 - m
        BY <2>6, <3>2
      <4>2. Len(t) - k <= n - m
        BY <2>4, <2>6, <4>1
      <4> QED BY <4>1, <4>2
    <3>4. P(n)
      BY <2>4, <2>6, <3>1, <3>3
    <3> QED BY <2>2, <3>4
  <2>8. CASE s[n] \notin S
    <3> DEFINE u == Append(t, s[n])
    <3>1. f[n] = u
      BY <1>1, <2>4, <2>8 DEF t
    <3>2. u \in Seq(E) /\ Len(u) = Len(t) + 1 /\ u[Len(t) + 1] = s[n]
            /\ \A k \in 1..Len(t) : u[k] = t[k]
      BY <2>4, <2>6
    <3> HIDE DEF u
    <3>3. \A m \in 1..n : s[m] \notin S =>
             \E k \in 1..Len(u) : u[k] = s[m] /\ Len(u) - k <= n - m
      <4> SUFFICES ASSUME NEW m \in 1..n, s[m] \notin S
                   PROVE  \E k \in 1..Len(u) : u[k] = s[m] /\ Len(u) - k <= n - m
        OBVIOUS
      <4>0. Len(t) \in Nat
        BY <2>6
      <4>1. CASE m = n
        <5>1. Len(t) + 1 \in 1..Len(u) /\ Len(u) - (Len(t) + 1) <= n - m
          BY <2>4, <3>2, <4>0, <4>1
        <5> QED BY <3>2, <4>1, <5>1
      <4>2. CASE m /= n
        <5>1. m \in 1..(n - 1)
          BY <2>4, <4>2
        <5>2. PICK k \in 1..Len(t) : t[k] = s[m] /\ Len(t) - k <= n - 1 - m
          BY <2>6, <5>1
        <5>3. k \in 1..Len(u) /\ u[k] = s[m] /\ Len(u) - k <= n - m
          BY <2>4, <3>2, <4>0, <5>1, <5>2
        <5> QED BY <5>3
      <4> QED BY <4>1, <4>2
    <3>4. P(n)
      BY <2>4, <2>6, <3>1, <3>2, <3>3
    <3> QED BY <2>2, <3>4
  <2> QED BY <2>7, <2>8
<1>4. P(Len(s))
  BY <1>2, <1>3
<1> QED BY <1>1, <1>4

\* u is the sequence s without its element at x, when it has one there: those
\* behind it move up by one.
LeftOut(E, s, x, u) ==
  /\ u \in Seq(E)
  /\ Len(u) = IF x \in 1..Len(s) THEN Len(s) - 1 ELSE Len(s)
  /\ \A k \in 1..Len(u) : u[k] = IF k < x THEN s[k] ELSE s[k + 1]

\* Without drops one element.
LEMMA WithoutOne ==
  ASSUME NEW E, NEW s \in Seq(E), NEW S, NEW x \in 1..(Len(s) + 1),
         \A i \in 1..Len(s) : s[i] \in S <=> i = x
  PROVE  LeftOut(E, s, x, Without(s, S))
<1>1. PICK f : /\ f[0] = <<>>
               /\ \A i \in 1..Len(s) :
                    f[i] = IF s[i] \in S THEN f[i - 1] ELSE Append(f[i - 1], s[i])
               /\ Without(s, S) = f[Len(s)]
  BY WithoutSteps
<1> DEFINE P(i) == /\ f[i] \in Seq(E) /\ Len(f[i]) = IF i < x THEN i ELSE i - 1
                   /\ \A k \in 1..Len(f[i]) : f[i][k] = IF k < x THEN s[k] ELSE s[k + 1]
           Bad == {i \in 0..Len(s) : ~P(i)}
<1>2. Len(s) \in Nat
  OBVIOUS
<1>3. Bad = {}
  <2> SUFFICES ASSUME Bad /= {} PROVE FALSE
    OBVIOUS
  <2>1. PICK n \in Bad : \A m \in Bad : n <= m
    <3>1. Bad \in SUBSET Nat
      BY <1>2
    <3> HIDE DEF Bad
    <3> QED BY <3>1, LeastNumber
  <2>2. n \in 0..Len(s) /\ ~P(n)
    BY <2>1
  <2>3. n /= 0
    <3>1. P(0)
      BY <1>1, <1>2
    <3> QED BY <2>2, <3>1
  <2>4. n \in 1..Len(s) /\ n - 1 \in 0..Len(s) /\ ~(n <= n - 1)
    BY <1>2, <2>2, <2>3
  <2>5. P(n - 1)
    BY <2>1, <2>4
  <2> DEFINE t == f[n - 1]
  <2>6. /\ t \in Seq(E) /\ Len(t) = IF n - 1 < x THEN n - 1 ELSE n - 2
        /\ \A k \in 1..Len(t) : t[k] = IF k < x THEN s[k] ELSE s[k + 1]
    BY <2>4, <2>5
  <2> HIDE DEF t
  <2>7. CASE n = x
    <3>1. f[n] = t
      BY <1>1, <2>4, <2>7 DEF t
    <3>2. P(n)
      BY <2>4, <2>6, <2>7, <3>1
    <3> QED BY <2>2, <3>2
  <2>8. CASE n /= x
    <3> DEFINE u == Append(t, s[n])
    <3>1. f[n] = u
      BY <1>1, <2>4, <2>8 DEF t
    <3>2. u \in Seq(E) /\ Len(u) = Len(t) + 1 /\ u[Len(t) + 1] = s[n]
            /\ \A k \in 1..Len(t) : u[k] = t[k]
      BY <2>4, <2>6, SMTT(60)
    <3> HIDE DEF u
    <3>3. Len(u) = IF n < x THEN n ELSE n - 1
      BY <1>2, <2>4, <2>6, <2>8, <3>2
    <3>4. ASSUME NEW k \in 1..Len(u) PROVE u[k] = IF k < x THEN s[k] ELSE s[k + 1]
      <4>1. CASE k \in 1..Len(t)
        BY <2>6, <3>2, <4>1
      <4>2. CASE k = Len(t) + 1
        <5>1. IF k < x THEN n = k ELSE n = k + 1
          BY <1>2, <2>4, <2>6, <2>8, <4>2
        <5> QED BY <3>2, <4>2, <5>1
      <4> QED BY <2>6, <3>2, <4>1, <4>2
    <3>5. P(n)
      BY <3>1, <3>2, <3>3, <3>4
    <3> QED BY <2>2, <3>5
  <2> QED BY <2>7, <2>8
<1>4. P(Len(s))
  BY <1>2, <1>3
<1>5. LeftOut(E, s, x, f[Len(s)])
  <2> DEFINE u == f[Len(s)]
  <2>1. /\ u \in Seq(E) /\ Len(u) = IF Len(s) < x THEN Len(s) ELSE Len(s) - 1
        /\ \A k \in 1..Len(u) : u[k] = IF k < x THEN s[k] ELSE s[k + 1]
    BY <1>4
  <2> HIDE DEF u, P
  <2>2. x \in 1..Len(s) <=> ~(Len(s) < x)
    BY <1>2
  <2>3. LeftOut(E, s, x, u)
    BY <2>1, <2>2 DEF LeftOut
  <2> QED BY <2>3 DEF u
<1> QED BY <1>1, <1>5

\* SetToSeq lists each element of a finite set, once.
LEMMA SetToSeqFacts ==
  ASSUME NEW S, IsFiniteSet(S)
  PROVE  /\ SetToSeq(S) \in Seq(S) /\ Len(SetToSeq(S)) = Cardinality(S)
         /\ \A x \in S : \E k \in 1..Cardinality(S) : SetToSeq(S)[k] = x
<1> DEFINE n == Cardinality(S)
<1>1. n \in Nat /\ IsFiniteSet(1..n) /\ Cardinality(1..n) = n
  BY FS_CardinalityType, FS_Interval
<1>2. PICK g : g \in [1..n -> S] /\ IsInjective(g)
  <2>1. ExistsBijection(1..n, S)
    BY FS_CardinalityType
  <2> QED BY <2>1 DEF ExistsBijection, Bijection, Injection, IsInjective
<1> DEFINE f == SetToSeq(S)
<1>3. f \in [1..n -> S] /\ IsInjective(f)
  BY <1>2 DEF SetToSeq
<1>4. f \in Injection(1..n, S)
  BY <1>3 DEF Injection
<1>5. f \in Surjection(1..n, S)
  BY <1>1, <1>4, FS_Injection
<1> HIDE DEF f
<1>6. f \in Seq(S) /\ Len(f) = n
  BY <1>1, <1>3
<1>7. \A x \in S : \E k \in 1..n : f[k] = x
  BY <1>5 DEF Surjection
<1> QED BY <1>6, <1>7 DEF f

\* u is the end of the sequence s, n long at most: when elements are gone from
\* the front of s, n are left.
Newest(E, s, n, u) ==
  /\ u \in Seq(E) /\ Len(u) <= n
  /\ \E d \in Nat : /\ Len(u) = Len(s) - d
                    /\ d /= 0 => Len(u) = n
                    /\ \A k \in 1..Len(u) : u[k] = s[k + d]

\* LastOf keeps the end of the sequence.
LEMMA LastOfKeeps ==
  ASSUME NEW E, NEW s \in Seq(E), NEW n \in Nat
  PROVE  Newest(E, s, n, LastOf(s, n))
<1>0. Len(s) \in Nat
  OBVIOUS
<1>1. CASE Len(s) <= n
  <2>1. LastOf(s, n) = s
    BY <1>1 DEF LastOf
  <2>2. Len(s) = Len(s) - 0 /\ \A k \in 1..Len(s) : s[k] = s[k + 0]
    BY <1>0, SMTT(60)
  <2>3. Newest(E, s, n, s)
    BY <1>1, <2>2, Zenon DEF Newest
  <2> QED BY <2>1, <2>3, Zenon
<1>2. CASE ~(Len(s) <= n)
  <2> DEFINE d == Len(s) - n
             t == SubSeq(s, d + 1, Len(s))
  <2>1. d \in Nat /\ \A i \in (d + 1)..Len(s) : s[i] \in E
    BY <1>0, <1>2
  <2>2. t \in Seq(E) /\ Len(t) = n /\ \A k \in 1..n : t[k] = s[k + d]
    <3>1. \A i \in (d + 1)..Len(s) : s[i] \in E
      BY <2>1
    <3>2. d + 1 \in Int /\ Len(s) \in Int
      BY <1>0, <2>1
    <3>3. /\ t \in Seq(E)
          /\ Len(t) = IF d + 1 <= Len(s) THEN Len(s) - (d + 1) + 1 ELSE 0
          /\ \A i \in 1..(Len(s) - (d + 1) + 1) : t[i] = s[d + 1 + i - 1]
      BY <3>1, <3>2, SubSeqProperties
    <3> HIDE DEF t
    <3>4. Len(t) = n /\ Len(s) - (d + 1) + 1 = n
      BY <1>0, <1>2, <3>3
    <3>5. \A k \in 1..n : d + 1 + k - 1 = k + d
      BY <2>1
    <3> QED BY <3>3, <3>4, <3>5
  <2>3. LastOf(s, n) = t
    BY <1>2 DEF LastOf
  <2>4. Len(t) = Len(s) - d
    BY <1>0, <2>2
  <2>5. Len(t) <= n
    BY <2>2
  <2> HIDE DEF t, d
  <2>6. \E e \in Nat : /\ Len(t) = Len(s) - e
                       /\ e /= 0 => Len(t) = n
                       /\ \A k \in 1..Len(t) : t[k] = s[k + e]
    BY <2>1, <2>2, <2>4
  <2>7. Newest(E, s, n, t)
    BY <2>2, <2>5, <2>6 DEF Newest
  <2> QED BY <2>3, <2>7
<1> QED BY <1>1, <1>2

\* What the membership map holds once the paths S of t were remembered: those
\* paths at its new end, and what was not too far from the end before
\* (readTreeEntries of snapshot-store.ts, once it has parsed the entries).
Remembered(t, S, new) ==
  /\ new \in Seq(Trees \X Paths) /\ Len(new) <= MemberLimit
  /\ \A p \in S : Cardinality(S) <= MemberLimit =>
       \E k \in 1..Len(new) : new[k] = <<t, p>> /\ Len(new) - k < Cardinality(S)
  /\ \A m \in 1..Len(members) : Len(members) - m + Cardinality(S) < MemberLimit =>
       \E k \in 1..Len(new) : /\ new[k] = members[m]
                              /\ Len(new) - k <= Len(members) - m + Cardinality(S)
  /\ Len(AllMembers(t, S)) <= MemberLimit =>
       /\ \A p \in S : \E k \in 1..Len(new) : new[k] = <<t, p>>
       /\ \A m \in 1..Len(members) : \E k \in 1..Len(new) : new[k] = members[m]

\* The map is cut at its limit from the front.
LEMMA RememberedMembers ==
  ASSUME ObjectsAssumption, members \in Seq(Trees \X Paths), NEW t \in Trees, NEW S \in SUBSET Paths
  PROVE  Remembered(t, S, RememberMembers(t, S))
<1> DEFINE order == SetToSeq(S)
           n == Cardinality(S)
           batch == [i \in DOMAIN order |-> <<t, order[i]>>]
           kept == Without(members, Range(batch))
           whole == kept \o batch
           new == LastOf(whole, MemberLimit)
<1>1. n \in Nat /\ MemberLimit \in Nat /\ Len(members) \in Nat /\ IsFiniteSet(S)
  <2>1. IsFiniteSet(S)
    BY FS_Subset DEF ObjectsAssumption
  <2> QED BY <2>1, FS_CardinalityType DEF ObjectsAssumption
<1>2. /\ order \in Seq(S) /\ Len(order) = n
      /\ \A x \in S : \E k \in 1..n : order[k] = x
  BY <1>1, SetToSeqFacts
<1> HIDE DEF order
<1>3. DOMAIN order = 1..n /\ \A k \in 1..n : order[k] \in S
  BY <1>2
<1>4. /\ batch \in Seq(Trees \X Paths) /\ Len(batch) = n
      /\ \A k \in 1..n : batch[k] = <<t, order[k]>>
  BY <1>1, <1>3
<1>5. \A p \in S : \E k \in 1..n : batch[k] = <<t, p>>
  BY <1>2, <1>4
<1>6. DOMAIN batch = 1..n
  BY <1>1, <1>4
<1> HIDE DEF batch
<1>7. /\ kept \in Seq(Trees \X Paths) /\ Len(kept) <= Len(members)
      /\ \A m \in 1..Len(members) : members[m] \notin Range(batch) =>
           \E k \in 1..Len(kept) : kept[k] = members[m] /\ Len(kept) - k <= Len(members) - m
  BY WithoutKeeps
<1> HIDE DEF kept
<1>8. /\ whole \in Seq(Trees \X Paths) /\ Len(whole) = Len(kept) + n
      /\ \A k \in 1..Len(kept) : whole[k] = kept[k]
      /\ \A k \in 1..n : whole[Len(kept) + k] = batch[k]
  <2>1. Len(kept) \in Nat
    BY <1>7
  <2>2. whole \in Seq(Trees \X Paths) /\ Len(whole) = Len(kept) + Len(batch)
    BY <1>4, <1>7, ConcatProperties, ZenonT(60)
  <2>3. \A i \in 1..Len(whole) : whole[i] = IF i <= Len(kept) THEN kept[i] ELSE batch[i - Len(kept)]
    BY <1>4, <1>7, ConcatProperties
  <2>4. \A k \in 1..n : /\ Len(kept) + k \in 1..Len(whole) /\ ~(Len(kept) + k <= Len(kept))
                         /\ Len(kept) + k - Len(kept) = k
    BY <1>1, <1>4, <2>1, <2>2
  <2>5. \A k \in 1..Len(kept) : k \in 1..Len(whole) /\ k <= Len(kept)
    BY <1>1, <1>4, <2>1, <2>2
  <2> HIDE DEF whole
  <2>6. \A k \in 1..n : whole[Len(kept) + k] = batch[k]
    BY <2>3, <2>4
  <2> QED BY <1>4, <2>2, <2>3, <2>5, <2>6
<1>9. Len(kept) \in Nat
  BY <1>7
<1> HIDE DEF whole
<1>10. /\ new \in Seq(Trees \X Paths) /\ Len(new) <= MemberLimit
       /\ \E d \in Nat : /\ Len(new) = Len(whole) - d
                         /\ d /= 0 => Len(new) = MemberLimit
                         /\ \A k \in 1..Len(new) : new[k] = whole[k + d]
  <2>1. MemberLimit \in Nat /\ whole \in Seq(Trees \X Paths)
    BY <1>1, <1>8
  <2>2. Newest(Trees \X Paths, whole, MemberLimit, new)
    BY <2>1, LastOfKeeps
  <2> HIDE DEF new
  <2> QED BY <2>2 DEF Newest
<1>11. RememberMembers(t, S) = new /\ AllMembers(t, S) = whole
  BY DEF RememberMembers, AllMembers, MoveToEnd, new, whole, kept, batch, order
<1> HIDE DEF new
<1>12. PICK d \in Nat : /\ Len(new) = Len(whole) - d
                        /\ d /= 0 => Len(new) = MemberLimit
                        /\ \A k \in 1..Len(new) : new[k] = whole[k + d]
  BY <1>10
<1>13. ASSUME NEW k \in 1..Len(whole), Len(whole) - k < MemberLimit
       PROVE  \E j \in 1..Len(new) : new[j] = whole[k] /\ Len(new) - j = Len(whole) - k
  <2>1. k - d \in 1..Len(new) /\ k - d + d = k /\ Len(new) - (k - d) = Len(whole) - k
    BY <1>1, <1>8, <1>9, <1>12, <1>13, SMTT(60)
  <2>2. new[k - d] = whole[k - d + d]
    BY <1>12, <2>1
  <2> QED BY <2>1, <2>2
<1>14. ASSUME NEW k \in 1..n, n <= MemberLimit
       PROVE  \E j \in 1..Len(new) : new[j] = batch[k] /\ Len(new) - j < n
  <2>1. /\ Len(kept) + k \in 1..Len(whole) /\ Len(whole) - (Len(kept) + k) < MemberLimit
        /\ Len(whole) - (Len(kept) + k) < n
    BY <1>1, <1>8, <1>9, <1>14
  <2>2. PICK j \in 1..Len(new) :
          new[j] = whole[Len(kept) + k] /\ Len(new) - j = Len(whole) - (Len(kept) + k)
    BY <1>13, <2>1
  <2> QED BY <1>8, <2>1, <2>2
<1>15. ASSUME NEW p \in S, n <= MemberLimit
       PROVE  \E k \in 1..Len(new) : new[k] = <<t, p>> /\ Len(new) - k < n
  <2>1. PICK k \in 1..n : batch[k] = <<t, p>>
    BY <1>5
  <2> QED BY <1>14, <1>15, <2>1
<1>16. ASSUME NEW m \in 1..Len(members), Len(members) - m + n < MemberLimit
       PROVE  \E k \in 1..Len(new) : /\ new[k] = members[m]
                                     /\ Len(new) - k <= Len(members) - m + n
  <2>0. n <= MemberLimit
    BY <1>1, <1>16
  <2>1. CASE members[m] \in Range(batch)
    <3>1. PICK k \in 1..n : batch[k] = members[m]
      BY <1>6, <2>1 DEF Range
    <3>2. PICK j \in 1..Len(new) : new[j] = batch[k] /\ Len(new) - j < n
      BY <1>14, <2>0
    <3>3. Len(new) - j <= Len(members) - m + n
      BY <1>1, <1>10, <3>2, SMTT(60)
    <3> QED BY <3>1, <3>2, <3>3
  <2>2. CASE members[m] \notin Range(batch)
    <3>1. PICK k \in 1..Len(kept) : kept[k] = members[m] /\ Len(kept) - k <= Len(members) - m
      BY <1>7, <2>2
    <3>2. k \in 1..Len(whole) /\ Len(whole) - k < MemberLimit
            /\ Len(whole) - k <= Len(members) - m + n
      BY <1>1, <1>8, <1>9, <1>16, <3>1, SMTT(60)
    <3>3. PICK j \in 1..Len(new) : new[j] = whole[k] /\ Len(new) - j = Len(whole) - k
      BY <1>13, <3>2
    <3> QED BY <1>8, <3>1, <3>2, <3>3
  <2> QED BY <2>1, <2>2
<1>17. ASSUME Len(whole) <= MemberLimit
       PROVE  /\ \A p \in S : \E k \in 1..Len(new) : new[k] = <<t, p>>
              /\ \A m \in 1..Len(members) : \E k \in 1..Len(new) : new[k] = members[m]
  <2>1. \A k \in 1..Len(whole) : \E j \in 1..Len(new) : new[j] = whole[k]
    <3>1. \A k \in 1..Len(whole) : Len(whole) - k < MemberLimit
      BY <1>1, <1>8, <1>9, <1>17
    <3> QED BY <1>13, <3>1
  <2>2. \A k \in 1..n : \E j \in 1..Len(new) : new[j] = batch[k]
    <3>1. \A k \in 1..n : Len(kept) + k \in 1..Len(whole)
      BY <1>1, <1>8, <1>9
    <3> QED BY <1>8, <2>1, <3>1, ZenonT(60)
  <2>3. \A k \in 1..Len(kept) : \E j \in 1..Len(new) : new[j] = kept[k]
    <3>1. \A k \in 1..Len(kept) : k \in 1..Len(whole)
      BY <1>1, <1>8, <1>9
    <3> QED BY <1>8, <2>1, <3>1
  <2>4. \A p \in S : \E k \in 1..Len(new) : new[k] = <<t, p>>
    BY <1>5, <2>2
  <2>5. ASSUME NEW m \in 1..Len(members)
        PROVE  \E k \in 1..Len(new) : new[k] = members[m]
    <3>1. CASE members[m] \in Range(batch)
      BY <1>6, <2>2, <3>1 DEF Range
    <3>2. CASE members[m] \notin Range(batch)
      BY <1>7, <2>3, <3>2
    <3> QED BY <3>1, <3>2
  <2> QED BY <2>4, <2>5
<1>18. Remembered(t, S, new)
  <2> HIDE DEF n
  <2> QED BY <1>10, <1>11, <1>15, <1>16, <1>17 DEF Remembered, n
<1> QED BY <1>11, <1>18

\* The map before it is cut.
LEMMA MembersTyped ==
  ASSUME ObjectsAssumption, members \in Seq(Trees \X Paths), NEW t \in Trees, NEW S \in SUBSET Paths
  PROVE  AllMembers(t, S) \in Seq(Trees \X Paths)
<1> DEFINE order == SetToSeq(S)
           batch == [i \in DOMAIN order |-> <<t, order[i]>>]
<1>1. order \in Seq(S) /\ Len(order) \in Nat
  <2>1. IsFiniteSet(S)
    BY FS_Subset DEF ObjectsAssumption
  <2> QED BY <2>1, SetToSeqFacts
<1> HIDE DEF order
<1>2. DOMAIN order = 1..Len(order) /\ \A k \in 1..Len(order) : order[k] \in S
  BY <1>1
<1>3. batch \in Seq(Trees \X Paths)
  BY <1>1, <1>2
<1> HIDE DEF batch
<1>4. Without(members, Range(batch)) \in Seq(Trees \X Paths)
  BY WithoutKeeps
<1>5. Without(members, Range(batch)) \o batch \in Seq(Trees \X Paths)
  BY <1>3, <1>4, ConcatProperties
<1> QED BY <1>5 DEF AllMembers, MoveToEnd, batch, order

-----------------------------------------------------------------------------
\* The reads and the caches.  A reading call: what it asks for, what it waits for.
Calls == [pc : {"idle", "load", "tree", "ls", "wait", "bytes", "revalidate", "objects"},
          kind : {"blob", "complete"}, tree : Trees \cup {None}, path : Paths \cup {None},
          on : Readers \cup {None},
          result : {"none", "ok", "object_missing", "manifest_invalid"}, gone : BOOLEAN]
CacheEntries == [tree : Trees, paths : SUBSET Paths, by : Readers \cup {None}]

StoreTyped ==
  /\ file \in Trees /\ objects \subseteq Trees \cup Blobs
  /\ manifests \subseteq Trees /\ pins \in [Trees -> SUBSET Reasons]
  /\ leafDisk \in Trees \cup {None} /\ leafMem \in Trees \cup {None}
  /\ located \subseteq Trees /\ damaged \subseteq Trees
  /\ repo \in {"absent", "torn", "whole"} /\ sweep \in {"none", "mine", "theirs"}

CachesTyped ==
  /\ trees \in Seq(CacheEntries) /\ Len(trees) <= TreeLimit
  /\ members \in Seq(Trees \X Paths) /\ Len(members) <= MemberLimit
  /\ blobs \in Seq(Blobs) /\ Len(blobs) <= BlobLimit
  /\ forgot \in BOOLEAN

ReadsTyped ==
  /\ read \in [Readers -> Calls]
  /\ \A r \in Readers : InProgress(r) =>
       read[r].tree \in Trees /\ (read[r].kind = "blob" => read[r].path \in Paths)
  /\ \A r \in Readers : read[r].pc \in {"bytes", "revalidate"} => read[r].kind = "blob"

\* A pending entry belongs to the one call that lists its tree; who waits,
\* waits for a listing of the same tree and paths.
Listings ==
  /\ \A i \in 1..Len(trees) : trees[i].by # None =>
       /\ read[trees[i].by].pc = "ls"
       /\ read[trees[i].by].tree = trees[i].tree
       /\ KeyPaths(read[trees[i].by]) = trees[i].paths
       /\ \A j \in 1..Len(trees) : trees[j].by = trees[i].by => j = i
  /\ \A r \in Readers :
       /\ read[r].pc = "ls" => read[r].on = r
       /\ read[r].pc = "wait" =>
            /\ read[r].on \in Readers /\ read[read[r].on].pc = "ls"
            /\ read[read[r].on].tree = read[r].tree
            /\ KeyPaths(read[read[r].on]) = KeyPaths(read[r])

\* What a call reads is there unless it was collected or damaged meanwhile.
GoneTold ==
  \A r \in Readers : InProgress(r) /\ ~read[r].gone =>
    read[r].tree \in manifests /\ ObjectsOf(read[r].tree) \subseteq objects /\ repo = "whole"

\* The members of a tree in the cache are in the membership map, and so far
\* from its old end that the entries listed after it and the calls that list
\* now can not push them out.
Listers == {r \in Readers : read[r].pc = "ls"}
Slack(i) == 1 + Cardinality(Readers) - Cardinality(Listers) + Len(trees) - i

MembersHeld ==
  Ample =>
    \A i \in 1..Len(trees) : trees[i].by = None =>
      \A p \in trees[i].paths :
        \E m \in 1..Len(members) :
          /\ members[m] = <<trees[i].tree, p>>
          /\ Len(members) - m < Slack(i) * Cardinality(Paths)

\* While nothing was dropped from the map, they are simply there.
MembersKept ==
  ~forgot =>
    \A i \in 1..Len(trees) : trees[i].by = None =>
      \A p \in trees[i].paths :
        \E m \in 1..Len(members) : members[m] = <<trees[i].tree, p>>

Roomy == Ample \/ ~forgot

CacheInv ==
  /\ StoreTyped /\ CachesTyped /\ ReadsTyped /\ Listings
  /\ GoneTold /\ MembersHeld /\ MembersKept /\ NoFalseRefusal

\* The inductive invariant gives what the run checks.
LEMMA TypedAsClaimed == CacheInv => ObjectsTypeOK
<1> SUFFICES ASSUME CacheInv PROVE ObjectsTypeOK
  OBVIOUS
<1> USE DEF CacheInv
<1>1. \A m \in DOMAIN members : members[m] \in Trees \X Paths
  BY DEF CachesTyped
<1>2. \A i \in DOMAIN trees : trees[i].by # None => read[trees[i].by].pc = "ls"
  BY DEF CachesTyped, Listings
<1> QED BY <1>1, <1>2 DEF ObjectsTypeOK, StoreTyped, CachesTyped, Range

\* Multiplying the slack by the number of paths.
LEMMA Times ==
  ASSUME NEW c \in Nat, NEW n \in Int, NEW m \in Int, n <= m
  PROVE  /\ n * c <= m * c /\ n * c \in Int
         /\ (n + 1) * c = n * c + c
<1>1. PICK d \in Nat : m = n + d
  <2>1. m - n \in Nat /\ m = n + (m - n)
    OBVIOUS
  <2> QED BY <2>1
<1>2. m * c = n * c + d * c /\ d * c \in Nat /\ n * c \in Int
  BY <1>1
<1> QED BY <1>2

\* The premise of NoFalseRefusal in numbers.
LEMMA Numbers ==
  ASSUME ObjectsAssumption
  PROVE  /\ Cardinality(Paths) \in Nat /\ Cardinality(Readers) \in Nat
         /\ Cardinality(Listers) \in Nat /\ Cardinality(Listers) <= Cardinality(Readers)
         /\ \A S \in SUBSET Paths :
              /\ Cardinality(S) \in Nat /\ Cardinality(S) <= Cardinality(Paths)
              /\ Ample => Cardinality(S) <= MemberLimit
<1>1. /\ Cardinality(Paths) \in Nat /\ Cardinality(Readers) \in Nat
      /\ TreeLimit \in Nat \ {0} /\ MemberLimit \in Nat
  BY FS_CardinalityType DEF ObjectsAssumption
<1>2. Cardinality(Listers) \in Nat /\ Cardinality(Listers) <= Cardinality(Readers)
  <2>1. Listers \subseteq Readers /\ IsFiniteSet(Readers)
    BY DEF Listers, ObjectsAssumption
  <2>2. IsFiniteSet(Listers) /\ Cardinality(Listers) <= Cardinality(Readers)
    BY <2>1, FS_Subset
  <2> QED BY <2>2, FS_CardinalityType
<1>3. Ample => Cardinality(Paths) <= MemberLimit
  <2>1. 1 * Cardinality(Paths) <= (TreeLimit + Cardinality(Readers)) * Cardinality(Paths)
    <3>1. 1 \in Int /\ TreeLimit + Cardinality(Readers) \in Int /\ 1 <= TreeLimit + Cardinality(Readers)
      BY <1>1
    <3> QED BY <1>1, <3>1, Times
  <2>2. 1 * Cardinality(Paths) = Cardinality(Paths)
    BY <1>1
  <2>3. (TreeLimit + Cardinality(Readers)) * Cardinality(Paths) \in Int
    BY <1>1, Times
  <2> QED BY <1>1, <2>1, <2>2, <2>3 DEF Ample
<1>4. ASSUME NEW S \in SUBSET Paths
      PROVE  Cardinality(S) \in Nat /\ Cardinality(S) <= Cardinality(Paths)
  <2>1. IsFiniteSet(S) /\ Cardinality(S) <= Cardinality(Paths)
    BY FS_Subset DEF ObjectsAssumption
  <2> QED BY <2>1, FS_CardinalityType
<1>5. \A S \in SUBSET Paths : Ample => Cardinality(S) <= MemberLimit
  BY <1>1, <1>3, <1>4
<1> QED BY <1>1, <1>2, <1>4, <1>5

\* The slack of an entry is positive and, in members, within the limit.
LEMMA SlackFits ==
  ASSUME ObjectsAssumption, Ample, CachesTyped, NEW i \in 1..Len(trees)
  PROVE  /\ Slack(i) \in Nat /\ Slack(i) >= 1
         /\ Slack(i) * Cardinality(Paths) <= MemberLimit
         /\ Slack(i) * Cardinality(Paths) \in Nat
         /\ Cardinality(Paths) <= Slack(i) * Cardinality(Paths)
<1> DEFINE c == Cardinality(Paths)
<1>1. /\ c \in Nat /\ Cardinality(Readers) \in Nat /\ Cardinality(Listers) \in Nat
      /\ Cardinality(Listers) <= Cardinality(Readers)
      /\ TreeLimit \in Nat /\ MemberLimit \in Nat /\ Len(trees) \in Nat /\ Len(trees) <= TreeLimit
  BY Numbers DEF ObjectsAssumption, CachesTyped
<1>2. /\ Slack(i) \in Nat /\ Slack(i) >= 1 /\ Slack(i) <= TreeLimit + Cardinality(Readers)
      /\ TreeLimit + Cardinality(Readers) \in Int
  BY <1>1, SMTT(60) DEF Slack
<1>3. Slack(i) * c <= (TreeLimit + Cardinality(Readers)) * c /\ Slack(i) * c \in Int
        /\ (TreeLimit + Cardinality(Readers)) * c \in Int
  BY <1>1, <1>2, Times, SMTT(60)
<1>4. 1 * c <= Slack(i) * c /\ 1 * c = c
  BY <1>1, <1>2, Times
<1>5. (TreeLimit + Cardinality(Readers)) * c <= MemberLimit
  BY DEF Ample
<1> HIDE DEF c
<1>6. Slack(i) * c \in Nat /\ Slack(i) * c <= MemberLimit /\ c <= Slack(i) * c
  BY <1>1, <1>3, <1>4, <1>5
<1> QED BY <1>2, <1>6 DEF c

-----------------------------------------------------------------------------
\* The steps.

\* An entry of the cache of trees is a record of its kind.
LEMMA EntryTyped ==
  ASSUME CachesTyped, NEW i \in 1..Len(trees)
  PROVE  /\ trees[i] \in CacheEntries /\ trees[i].tree \in Trees /\ trees[i].paths \in SUBSET Paths
         /\ trees[i].by # None => trees[i].by \in Readers
<1>1. trees[i] \in CacheEntries
  BY ElementOfSeq DEF CachesTyped
<1> QED BY <1>1 DEF CacheEntries

\* Listings, spelled out in the state after a step.
LEMMA ListingsNext ==
  ASSUME \A i \in 1..Len(trees') : trees'[i].by # None =>
           /\ read'[trees'[i].by].pc = "ls"
           /\ read'[trees'[i].by].tree = trees'[i].tree
           /\ KeyPaths(read'[trees'[i].by]) = trees'[i].paths
           /\ \A j \in 1..Len(trees') : trees'[j].by = trees'[i].by => j = i,
         \A r \in Readers :
           /\ read'[r].pc = "ls" => read'[r].on = r
           /\ read'[r].pc = "wait" =>
                /\ read'[r].on \in Readers /\ read'[read'[r].on].pc = "ls"
                /\ read'[read'[r].on].tree = read'[r].tree
                /\ KeyPaths(read'[read'[r].on]) = KeyPaths(read'[r])
  PROVE  Listings'
BY DEF Listings, KeyPaths

\* SlackFits in the state after a step.
LEMMA SlackFitsNext ==
  ASSUME ObjectsAssumption, Ample, CachesTyped', NEW i \in 1..Len(trees')
  PROVE  /\ Slack(i)' \in Nat /\ Slack(i)' >= 1
         /\ Slack(i)' * Cardinality(Paths) <= MemberLimit
         /\ Slack(i)' * Cardinality(Paths) \in Nat
         /\ Cardinality(Paths) <= Slack(i)' * Cardinality(Paths)
<1> DEFINE c == Cardinality(Paths)
<1>0. Cardinality(Listers') \in Nat /\ Cardinality(Listers') <= Cardinality(Readers)
  <2>1. Listers' \subseteq Readers /\ IsFiniteSet(Readers)
    BY DEF Listers, ObjectsAssumption
  <2>2. IsFiniteSet(Listers') /\ Cardinality(Listers') <= Cardinality(Readers)
    BY <2>1, FS_Subset
  <2> QED BY <2>2, FS_CardinalityType
<1>1. /\ c \in Nat /\ Cardinality(Readers) \in Nat
      /\ TreeLimit \in Nat /\ MemberLimit \in Nat /\ Len(trees') \in Nat /\ Len(trees') <= TreeLimit
  BY Numbers DEF ObjectsAssumption, CachesTyped
<1>2. /\ Slack(i)' \in Nat /\ Slack(i)' >= 1 /\ Slack(i)' <= TreeLimit + Cardinality(Readers)
      /\ TreeLimit + Cardinality(Readers) \in Int
  BY <1>0, <1>1, SMTT(60) DEF Slack
<1>3. Slack(i)' * c <= (TreeLimit + Cardinality(Readers)) * c /\ Slack(i)' * c \in Int
        /\ (TreeLimit + Cardinality(Readers)) * c \in Int
  BY <1>1, <1>2, Times
<1>4. 1 * c <= Slack(i)' * c /\ 1 * c = c
  BY <1>1, <1>2, Times
<1>5. (TreeLimit + Cardinality(Readers)) * c <= MemberLimit
  BY DEF Ample
<1> HIDE DEF c
<1>6. Slack(i)' * c \in Nat /\ Slack(i)' * c <= MemberLimit /\ c <= Slack(i)' * c
  BY <1>1, <1>3, <1>4, <1>5
<1> QED BY <1>2, <1>6 DEF c

\* Where the caches and the listings stay, what they say stays.
LEMMA CachesUntouched ==
  ASSUME CacheInv, UNCHANGED <<trees, members, forgot>>,
         \A r \in Readers : read'[r].pc = read[r].pc /\ read'[r].tree = read[r].tree
                              /\ KeyPaths(read'[r]) = KeyPaths(read[r]) /\ read'[r].on = read[r].on
  PROVE  Listings' /\ MembersHeld' /\ MembersKept' /\ Listers' = Listers
<1> USE DEF CacheInv
<1>1. Listers' = Listers
  BY DEF Listers
<1>2. \A i \in 1..Len(trees) : Slack(i)' = Slack(i)
  BY <1>1 DEF Slack
<1>3. MembersHeld'
  BY <1>2 DEF MembersHeld, Ample
<1>7. MembersKept'
  BY DEF MembersKept
<1>4. ASSUME NEW i \in 1..Len(trees), trees[i].by # None
      PROVE  /\ read'[trees[i].by].pc = "ls"
             /\ read'[trees[i].by].tree = trees[i].tree
             /\ KeyPaths(read'[trees[i].by]) = trees[i].paths
             /\ \A j \in 1..Len(trees) : trees[j].by = trees[i].by => j = i
  <2>1. trees[i].by \in Readers
    BY <1>4, EntryTyped
  <2> QED BY <1>4, <2>1 DEF Listings
<1>5. ASSUME NEW w \in Readers
      PROVE  /\ read'[w].pc = "ls" => read'[w].on = w
             /\ read'[w].pc = "wait" =>
                  /\ read'[w].on \in Readers /\ read'[read'[w].on].pc = "ls"
                  /\ read'[read'[w].on].tree = read'[w].tree
                  /\ KeyPaths(read'[read'[w].on]) = KeyPaths(read'[w])
  BY DEF Listings
<1>6. Listings'
  BY <1>4, <1>5, ListingsNext
<1> QED BY <1>1, <1>3, <1>6, <1>7

\* One call goes on or ends, without a listing.
LEMMA CallGoesOn ==
  ASSUME CacheInv, UNCHANGED <<trees, members, forgot>>, NEW r \in Readers, NEW rd \in Calls,
         read' = [read EXCEPT ![r] = rd], read[r].pc # "ls", rd.pc # "ls",
         rd.pc = "wait" => /\ rd.on \in Readers /\ read[rd.on].pc = "ls"
                           /\ read[rd.on].tree = rd.tree
                           /\ KeyPaths(read[rd.on]) = KeyPaths(rd)
  PROVE  Listings' /\ MembersHeld' /\ MembersKept'
<1> USE DEF CacheInv
<1>0. read'[r] = rd /\ \A w \in Readers : w # r => read'[w] = read[w]
  BY DEF ReadsTyped
<1>1. Listers' = Listers
  BY <1>0 DEF Listers
<1>2. \A i \in 1..Len(trees) : Slack(i)' = Slack(i)
  BY <1>1 DEF Slack
<1>3. MembersHeld'
  BY <1>2 DEF MembersHeld, Ample
<1>7. MembersKept'
  BY DEF MembersKept
<1>4. ASSUME NEW i \in 1..Len(trees), trees[i].by # None
      PROVE  /\ read'[trees[i].by].pc = "ls"
             /\ read'[trees[i].by].tree = trees[i].tree
             /\ KeyPaths(read'[trees[i].by]) = trees[i].paths
             /\ \A j \in 1..Len(trees) : trees[j].by = trees[i].by => j = i
  <2>1. trees[i].by \in Readers
    BY <1>4, EntryTyped
  <2>2. read[trees[i].by].pc = "ls"
    BY <1>4 DEF Listings
  <2>3. read'[trees[i].by] = read[trees[i].by]
    BY <1>0, <2>1, <2>2
  <2> QED BY <1>4, <2>3 DEF Listings
<1>5. ASSUME NEW w \in Readers
      PROVE  /\ read'[w].pc = "ls" => read'[w].on = w
             /\ read'[w].pc = "wait" =>
                  /\ read'[w].on \in Readers /\ read'[read'[w].on].pc = "ls"
                  /\ read'[read'[w].on].tree = read'[w].tree
                  /\ KeyPaths(read'[read'[w].on]) = KeyPaths(read'[w])
  <2>1. CASE w = r
    <3>1. rd.pc = "wait" => rd.on # r
      OBVIOUS
    <3> QED BY <1>0, <2>1, <3>1
  <2>2. CASE w # r
    <3>1. read'[w] = read[w]
      BY <1>0, <2>2
    <3>2. read[w].pc = "wait" => read[w].on \in Readers /\ read[w].on # r
      BY DEF Listings
    <3> QED BY <1>0, <3>1, <3>2 DEF Listings
  <2> QED BY <2>1, <2>2
<1>6. Listings'
  BY <1>4, <1>5, ListingsNext
<1> QED BY <1>3, <1>6, <1>7

\* An entry goes to the end of the cache and the oldest may leave.
LEMMA Inserted ==
  ASSUME ObjectsAssumption, CachesTyped, NEW e \in CacheEntries
  PROVE  LET new == LastOf(Append(trees, e), TreeLimit) IN
         /\ new \in Seq(CacheEntries) /\ Len(new) <= TreeLimit
         /\ Len(new) \in Nat \ {0} /\ new[Len(new)] = e
         /\ \E d \in Nat : /\ Len(new) = Len(trees) + 1 - d
                           /\ \A k \in 1..(Len(new) - 1) :
                                new[k] = trees[k + d] /\ k + d \in 1..Len(trees)
<1> DEFINE whole == Append(trees, e)
           new == LastOf(whole, TreeLimit)
<1>1. trees \in Seq(CacheEntries) /\ TreeLimit \in Nat \ {0}
  BY DEF CachesTyped, ObjectsAssumption
<1>2. /\ whole \in Seq(CacheEntries) /\ Len(whole) = Len(trees) + 1 /\ Len(trees) \in Nat
      /\ whole[Len(trees) + 1] = e /\ \A k \in 1..Len(trees) : whole[k] = trees[k]
  BY <1>1
<1> HIDE DEF whole
<1>3. /\ new \in Seq(CacheEntries) /\ Len(new) <= TreeLimit
      /\ \E d \in Nat : /\ Len(new) = Len(whole) - d
                        /\ d /= 0 => Len(new) = TreeLimit
                        /\ \A k \in 1..Len(new) : new[k] = whole[k + d]
  <2>1. TreeLimit \in Nat /\ whole \in Seq(CacheEntries)
    BY <1>1, <1>2
  <2>2. Newest(CacheEntries, whole, TreeLimit, new)
    BY <2>1, LastOfKeeps
  <2> HIDE DEF new
  <2> QED BY <2>2 DEF Newest
<1> HIDE DEF new
<1>4. PICK d \in Nat : /\ Len(new) = Len(whole) - d
                       /\ d /= 0 => Len(new) = TreeLimit
                       /\ \A k \in 1..Len(new) : new[k] = whole[k + d]
  BY <1>3
<1>5. Len(new) \in Nat \ {0}
  BY <1>1, <1>2, <1>4
<1>6. new[Len(new)] = e
  <2>1. Len(new) \in 1..Len(new) /\ Len(new) + d = Len(trees) + 1
    BY <1>2, <1>4, <1>5
  <2> QED BY <1>2, <1>4, <2>1
<1>7. \A k \in 1..(Len(new) - 1) : new[k] = trees[k + d] /\ k + d \in 1..Len(trees)
  <2> SUFFICES ASSUME NEW k \in 1..(Len(new) - 1)
               PROVE  new[k] = trees[k + d] /\ k + d \in 1..Len(trees)
    OBVIOUS
  <2>1. k \in 1..Len(new) /\ k + d \in 1..Len(trees)
    BY <1>2, <1>4, <1>5
  <2> QED BY <1>2, <1>4, <2>1
<1>8. Len(new) = Len(trees) + 1 - d
  BY <1>2, <1>4
<1>9. \E x \in Nat : /\ Len(new) = Len(trees) + 1 - x
                     /\ \A k \in 1..(Len(new) - 1) :
                          new[k] = trees[k + x] /\ k + x \in 1..Len(trees)
  BY <1>7, <1>8
<1> QED BY <1>3, <1>5, <1>6, <1>9 DEF new, whole

\* A listing is over and its members are remembered: those of the entries of
\* the cache move away from the new end by at most one tree.
LEMMA MemberKept ==
  ASSUME ObjectsAssumption, Ample, CachesTyped, MembersHeld, NEW t \in Trees, NEW S \in SUBSET Paths,
         NEW i \in 1..Len(trees), trees[i].by = None, NEW p \in trees[i].paths,
         NEW room \in Int, Slack(i) + 1 <= room, room * Cardinality(Paths) <= MemberLimit
  PROVE  \E m \in 1..Len(RememberMembers(t, S)) :
           /\ RememberMembers(t, S)[m] = <<trees[i].tree, p>>
           /\ Len(RememberMembers(t, S)) - m < room * Cardinality(Paths)
<1> DEFINE c == Cardinality(Paths)
           new == RememberMembers(t, S)
<1>1. c \in Nat /\ Cardinality(S) \in Nat /\ Cardinality(S) <= c /\ MemberLimit \in Nat
  BY Numbers DEF ObjectsAssumption
<1>2. Slack(i) \in Nat /\ Slack(i) * c \in Nat
  BY SlackFits
<1>3. room * c \in Int /\ (Slack(i) + 1) * c = Slack(i) * c + c /\ (Slack(i) + 1) * c <= room * c
  <2> DEFINE s == Slack(i)
             u == s + 1
  <2>1. c \in Nat /\ s \in Int /\ s <= s /\ u \in Int /\ u <= room /\ room <= room
    BY <1>1, <1>2
  <2> HIDE DEF c, s
  <2>2. (s + 1) * c = s * c + c
    BY <2>1, Times, Zenon
  <2> HIDE DEF u
  <2>3. u * c <= room * c
    BY <2>1, Times, Zenon
  <2>4. room * c \in Int
    BY <2>1, Times, Zenon
  <2> QED BY <2>2, <2>3, <2>4 DEF s, u
<1>4. PICK m \in 1..Len(members) :
        members[m] = <<trees[i].tree, p>> /\ Len(members) - m < Slack(i) * c
  BY DEF MembersHeld
<1>5. members \in Seq(Trees \X Paths) /\ Len(members) \in Nat
  BY DEF CachesTyped
<1>6. /\ new \in Seq(Trees \X Paths)
      /\ \A j \in 1..Len(members) : Len(members) - j + Cardinality(S) < MemberLimit =>
           \E k \in 1..Len(new) : /\ new[k] = members[j]
                                  /\ Len(new) - k <= Len(members) - j + Cardinality(S)
  <2>1. Remembered(t, S, new)
    BY <1>5, RememberedMembers
  <2> HIDE DEF new, c
  <2> QED BY <2>1 DEF Remembered
<1> HIDE DEF new, c
<1>7. Len(members) - m + Cardinality(S) < room * c
  BY <1>1, <1>2, <1>3, <1>4, <1>5, SMTT(60)
<1>8. room * c <= MemberLimit
  BY DEF c
<1>9. Len(members) - m + Cardinality(S) < MemberLimit
  BY <1>1, <1>3, <1>5, <1>7, <1>8
<1>10. PICK k \in 1..Len(new) :
         new[k] = members[m] /\ Len(new) - k <= Len(members) - m + Cardinality(S)
  BY <1>6, <1>9
<1>11. Len(new) - k < room * c
  BY <1>1, <1>3, <1>5, <1>6, <1>7, <1>10, SMTT(60)
<1> QED BY <1>4, <1>10, <1>11 DEF new, c

\* The store keeps its kind.
LEMMA StoreStepTyped ==
  ASSUME StoreTyped, (\E p \in Paths, b \in Blobs : EditFile(p, b)) \/ StoreNext
  PROVE  StoreTyped'
<1> USE DEF StoreTyped
<1>0. \A p \in Paths : file[p] \in Blobs
  BY DEF Trees
<1>1. ASSUME NEW p \in Paths, NEW b \in Blobs, EditFile(p, b) PROVE StoreTyped'
  BY <1>1 DEF EditFile, Trees, store, leafCache
<1>2. Hashed \subseteq Blobs
  BY <1>0 DEF Hashed
<1>3. ASSUME NEW saved \in BOOLEAN, capture(saved) PROVE StoreTyped'
  BY <1>2, <1>3 DEF capture
<1>4. CASE captureRefused
  BY <1>2, <1>4 DEF captureRefused, UsableLeaves
<1>8. CASE captureFailed
  BY <1>8 DEF captureFailed, UsableLeaves, store
<1>5. ASSUME NEW t \in Trees, NEW reason \in Reasons, pin(t, reason) \/ unpin(t, reason)
      PROVE  StoreTyped'
  <2>1. /\ UNCHANGED <<file, objects, repo, manifests, sweep, damaged, leafDisk, leafMem>>
        /\ located' = located \cup {t}
          /\ (\E S : pins' = [pins EXCEPT ![t] = S])
    BY <1>5 DEF pin, unpin, store, leafCache
  <2>2. pins' \in [Trees -> SUBSET Reasons]
    BY <1>5 DEF pin, unpin
  <2> QED BY <2>1, <2>2
<1>6. ASSUME NEW mine \in BOOLEAN, collectGarbage(mine) PROVE StoreTyped'
  BY <1>6 DEF collectGarbage, leafCache
<1>9. CASE removeEntry
  BY <1>9 DEF removeEntry, NeedOneOf, leafCache
<1>10. CASE sweepDone \/ sweepFails
  BY <1>10 DEF sweepDone, sweepFails, leafCache
<1>7. ASSUME NEW gone \in SUBSET objects, Restart(gone) PROVE StoreTyped'
  BY <1>7 DEF Restart, NeedOneOf
<1> QED BY <1>1, <1>3, <1>4, <1>5, <1>6, <1>7, <1>8, <1>9, <1>10 DEF StoreNext

\* What the steps of the store do to the objects, the calls and the caches.
LEMMA StoreStepCalls ==
  ASSUME (\E p \in Paths, b \in Blobs : EditFile(p, b)) \/ StoreNext
  PROVE  \/ /\ UNCHANGED <<trees, members, forgot, blobs, read>>
            /\ StoreGrows
         \/ UNCHANGED <<trees, members, forgot, blobs>> /\ read' = AllGone
         \/ /\ trees' = <<>> /\ members' = <<>> /\ blobs' = <<>> /\ forgot' = FALSE
            /\ read' = [r \in Readers |-> NoRead]
         \/ \E saved \in BOOLEAN : capture(saved)
<1>1. ASSUME NEW p \in Paths, NEW b \in Blobs, EditFile(p, b)
      PROVE  /\ UNCHANGED <<trees, members, forgot, blobs, read>>
             /\ StoreGrows
  BY <1>1 DEF EditFile, StoreGrows, store, readCaches, membership
<1>2. captureRefused => /\ UNCHANGED <<trees, members, forgot, blobs, read>>
                        /\ StoreGrows
  BY DEF captureRefused, StoreGrows, readCaches, membership
<1>3. ASSUME NEW t \in Trees, NEW reason \in Reasons, pin(t, reason) \/ unpin(t, reason)
      PROVE  /\ UNCHANGED <<trees, members, forgot, blobs, read>>
             /\ StoreGrows
  BY <1>3 DEF StoreGrows, pin, unpin, store, readCaches, membership
<1>4. ASSUME NEW mine \in BOOLEAN, collectGarbage(mine)
      PROVE  UNCHANGED <<trees, members, forgot, blobs, read>> /\ StoreGrows
  BY <1>4 DEF collectGarbage, StoreGrows, readCaches, membership
<1>6. captureFailed \/ sweepDone \/ sweepFails =>
        UNCHANGED <<trees, members, forgot, blobs, read>> /\ StoreGrows
  BY DEF captureFailed, sweepDone, sweepFails, StoreGrows, store, readCaches, membership
<1>7. removeEntry => UNCHANGED <<trees, members, forgot, blobs>> /\ read' = AllGone
  BY DEF removeEntry, readCaches, membership
<1>5. ASSUME NEW gone \in SUBSET objects, Restart(gone)
      PROVE  /\ trees' = <<>> /\ members' = <<>> /\ blobs' = <<>> /\ forgot' = FALSE
             /\ read' = [r \in Readers |-> NoRead]
  BY <1>5 DEF Restart
<1> QED BY <1>1, <1>2, <1>3, <1>4, <1>5, <1>6, <1>7 DEF StoreNext

\* A capture reads its tree back through the cache of trees.
LEMMA CaptureCaches ==
  ASSUME ObjectsAssumption, CacheInv, NEW saved \in BOOLEAN, capture(saved)
  PROVE  CachesTyped' /\ Listings' /\ MembersHeld' /\ MembersKept'
<1> USE DEF CacheInv
<1>0. /\ file \in Trees /\ UNCHANGED <<blobs, read>>
      /\ \/ UNCHANGED <<trees, members, forgot>>
         \/ /\ trees' = LastOf(Append(trees, [tree |-> file, paths |-> Paths, by |-> None]), TreeLimit)
            /\ Remembering(file, Paths)
  BY DEF capture, membership, StoreTyped
<1>1. CASE UNCHANGED <<trees, members, forgot>>
  <2>1. CachesTyped'
    BY <1>0, <1>1 DEF CachesTyped
  <2> QED BY <1>0, <1>1, <2>1, CachesUntouched
<1> DEFINE e == [tree |-> file, paths |-> Paths, by |-> None]
           c == Cardinality(Paths)
<1>2. CASE /\ trees' = LastOf(Append(trees, e), TreeLimit)
           /\ Remembering(file, Paths)
  <2>0. /\ members' = RememberMembers(file, Paths) /\ forgot' \in BOOLEAN
        /\ ~forgot' => ~forgot /\ ~(Len(AllMembers(file, Paths)) > MemberLimit)
    BY <1>2 DEF Remembering, CachesTyped
  <2>1. e \in CacheEntries /\ e.tree = file /\ e.paths = Paths /\ e.by = None
    BY <1>0 DEF CacheEntries
  <2> HIDE DEF e
  <2>2. /\ trees' \in Seq(CacheEntries) /\ Len(trees') <= TreeLimit
        /\ Len(trees') \in Nat \ {0} /\ trees'[Len(trees')] = e
        /\ \E d \in Nat : /\ Len(trees') = Len(trees) + 1 - d
                          /\ \A k \in 1..(Len(trees') - 1) :
                               trees'[k] = trees[k + d] /\ k + d \in 1..Len(trees)
    BY <1>2, <2>1, Inserted
  <2>3. PICK d \in Nat : /\ Len(trees') = Len(trees) + 1 - d
                         /\ \A k \in 1..(Len(trees') - 1) :
                              trees'[k] = trees[k + d] /\ k + d \in 1..Len(trees)
    BY <2>2
  <2>4. /\ members' \in Seq(Trees \X Paths) /\ Len(members') <= MemberLimit
        /\ \A p \in Paths : c <= MemberLimit =>
             \E k \in 1..Len(members') : members'[k] = <<file, p>> /\ Len(members') - k < c
    <3>1. members \in Seq(Trees \X Paths)
      BY DEF CachesTyped
    <3>2. Remembered(file, Paths, RememberMembers(file, Paths))
      BY <1>0, <3>1, RememberedMembers
    <3> QED BY <2>0, <3>2 DEF Remembered
  <2>5. CachesTyped'
    BY <1>0, <2>0, <2>2, <2>4 DEF CachesTyped
  <2>6. \A k \in 1..Len(trees') : k \notin 1..(Len(trees') - 1) => k = Len(trees')
    BY <2>2
  <2>7. Listings'
    <3>1. ASSUME NEW i \in 1..Len(trees'), trees'[i].by # None
          PROVE  /\ read'[trees'[i].by].pc = "ls"
                 /\ read'[trees'[i].by].tree = trees'[i].tree
                 /\ KeyPaths(read'[trees'[i].by]) = trees'[i].paths
                 /\ \A j \in 1..Len(trees') : trees'[j].by = trees'[i].by => j = i
      <4>1. i \in 1..(Len(trees') - 1)
        BY <2>1, <2>2, <2>6, <3>1
      <4>2. trees'[i] = trees[i + d] /\ i + d \in 1..Len(trees)
        BY <2>3, <4>1
      <4>3. ASSUME NEW j \in 1..Len(trees'), trees'[j].by = trees'[i].by PROVE j = i
        <5>1. j \in 1..(Len(trees') - 1)
          BY <2>1, <2>2, <2>6, <3>1, <4>3
        <5>2. trees'[j] = trees[j + d] /\ j + d \in 1..Len(trees)
          BY <2>3, <5>1
        <5>3. j + d = i + d
          BY <3>1, <4>2, <4>3, <5>2 DEF Listings
        <5> QED BY <5>3
      <4> QED BY <1>0, <3>1, <4>2, <4>3 DEF Listings
    <3>2. \A w \in Readers :
            /\ read'[w].pc = "ls" => read'[w].on = w
            /\ read'[w].pc = "wait" =>
                 /\ read'[w].on \in Readers /\ read'[read'[w].on].pc = "ls"
                 /\ read'[read'[w].on].tree = read'[w].tree
                 /\ KeyPaths(read'[read'[w].on]) = KeyPaths(read'[w])
      BY <1>0 DEF Listings
    <3> QED BY <3>1, <3>2, ListingsNext
  <2>8. MembersHeld'
    <3> SUFFICES ASSUME Ample, NEW i \in 1..Len(trees'), trees'[i].by = None, NEW p \in trees'[i].paths
                 PROVE  \E m \in 1..Len(members') :
                          /\ members'[m] = <<trees'[i].tree, p>>
                          /\ Len(members') - m < Slack(i)' * Cardinality(Paths)
      BY DEF MembersHeld, Ample
    <3>1. /\ Slack(i)' \in Nat /\ Slack(i)' * c <= MemberLimit /\ c <= Slack(i)' * c
          /\ Slack(i)' * c \in Nat /\ c \in Nat /\ c <= MemberLimit
      <4>1. /\ Slack(i)' \in Nat /\ Slack(i)' * c <= MemberLimit /\ c <= Slack(i)' * c
            /\ Slack(i)' * c \in Nat
        BY <2>5, SlackFitsNext
      <4>2. c \in Nat /\ MemberLimit \in Nat
        BY Numbers DEF ObjectsAssumption
      <4> HIDE DEF c
      <4> QED BY <4>1, <4>2
    <3>2. CASE i = Len(trees')
      <4>1. PICK k \in 1..Len(members') : members'[k] = <<file, p>> /\ Len(members') - k < c
        BY <2>1, <2>2, <2>4, <3>1, <3>2
      <4>2. Len(members') - k < Slack(i)' * c
        BY <2>4, <3>1, <4>1
      <4> QED BY <2>1, <2>2, <3>2, <4>1, <4>2
    <3>3. CASE i # Len(trees')
      <4>1. i \in 1..(Len(trees') - 1)
        BY <2>6, <3>3
      <4>2. trees'[i] = trees[i + d] /\ i + d \in 1..Len(trees)
        BY <2>3, <4>1
      <4>3. Slack(i + d) + 1 = Slack(i)'
        <5>1. Listers' = Listers
          BY <1>0 DEF Listers
        <5>2. Cardinality(Listers) \in Nat /\ Cardinality(Readers) \in Nat /\ Len(trees) \in Nat
          BY Numbers DEF CachesTyped
        <5> QED BY <2>3, <5>1, <5>2 DEF Slack
      <4>4. Slack(i)' \in Int /\ Slack(i + d) + 1 <= Slack(i)'
        BY <3>1, <4>3
      <4>5. \E m \in 1..Len(RememberMembers(file, Paths)) :
              /\ RememberMembers(file, Paths)[m] = <<trees[i + d].tree, p>>
              /\ Len(RememberMembers(file, Paths)) - m < Slack(i)' * Cardinality(Paths)
        BY <1>0, <3>1, <4>2, <4>4, MemberKept
      <4> QED BY <2>0, <4>2, <4>5
    <3> QED BY <3>2, <3>3
  <2>9. MembersKept'
    <3> SUFFICES ASSUME ~forgot', NEW i \in 1..Len(trees'), trees'[i].by = None, NEW p \in trees'[i].paths
                 PROVE  \E m \in 1..Len(members') : members'[m] = <<trees'[i].tree, p>>
      BY DEF MembersKept
    <3>1. /\ \A q \in Paths : \E k \in 1..Len(members') : members'[k] = <<file, q>>
          /\ \A m \in 1..Len(members) : \E k \in 1..Len(members') : members'[k] = members[m]
      <4>1. members \in Seq(Trees \X Paths) /\ Len(AllMembers(file, Paths)) <= MemberLimit
        <5>1. AllMembers(file, Paths) \in Seq(Trees \X Paths) /\ MemberLimit \in Nat
          BY <1>0, MembersTyped DEF ObjectsAssumption, CachesTyped
        <5> QED BY <2>0, <5>1 DEF CachesTyped
      <4>2. Remembered(file, Paths, RememberMembers(file, Paths))
        BY <1>0, <4>1, RememberedMembers
      <4> QED BY <2>0, <4>1, <4>2 DEF Remembered
    <3>2. CASE i = Len(trees')
      BY <2>1, <2>2, <3>1, <3>2
    <3>3. CASE i # Len(trees')
      <4>1. trees'[i] = trees[i + d] /\ i + d \in 1..Len(trees)
        BY <2>3, <2>6, <3>3
      <4>2. PICK m \in 1..Len(members) : members[m] = <<trees[i + d].tree, p>>
        BY <2>0, <4>1 DEF MembersKept
      <4> QED BY <3>1, <4>1, <4>2
    <3> QED BY <3>2, <3>3
  <2> QED BY <2>5, <2>7, <2>8, <2>9
<1> QED BY <1>0, <1>1, <1>2

\* A call in the state it is in: idle, or about a tree and, for a blob, a path.
LEMMA ReadsNext ==
  ASSUME read' \in [Readers -> Calls],
         \A r \in Readers :
           /\ read'[r].pc # "idle" =>
                read'[r].tree \in Trees /\ (read'[r].kind = "blob" => read'[r].path \in Paths)
           /\ read'[r].pc \in {"bytes", "revalidate"} => read'[r].kind = "blob"
           /\ read'[r].pc # "idle" /\ ~read'[r].gone =>
                read'[r].tree \in manifests' /\ ObjectsOf(read'[r].tree) \subseteq objects' /\ repo' = "whole"
           /\ Roomy' /\ read'[r].result = "object_missing" => read'[r].gone
  PROVE  ReadsTyped' /\ GoneTold' /\ NoFalseRefusal'
<1>1. ReadsTyped'
  BY DEF ReadsTyped, InProgress
<1>2. GoneTold'
  BY DEF GoneTold, InProgress, ObjectsOf
<1>3. NoFalseRefusal'
  BY DEF NoFalseRefusal, NeverFalselyRefused, Ample, Roomy
<1> QED BY <1>1, <1>2, <1>3

\* What the invariant says of one call.
LEMMA ReadsNow ==
  ASSUME CacheInv, NEW r \in Readers
  PROVE  /\ read \in [Readers -> Calls] /\ read[r] \in Calls
         /\ read[r].pc # "idle" =>
              read[r].tree \in Trees /\ (read[r].kind = "blob" => read[r].path \in Paths)
         /\ read[r].pc \in {"bytes", "revalidate"} => read[r].kind = "blob"
         /\ read[r].pc # "idle" /\ ~read[r].gone =>
              read[r].tree \in manifests /\ ObjectsOf(read[r].tree) \subseteq objects /\ repo = "whole"
         /\ Roomy /\ read[r].result = "object_missing" => read[r].gone
BY DEF CacheInv, ReadsTyped, GoneTold, NoFalseRefusal, NeverFalselyRefused, Roomy, InProgress

\* Captures, pins, collections, restarts and edits keep the invariant.
LEMMA StoreStepKeeps ==
  ASSUME ObjectsAssumption, CacheInv, (\E p \in Paths, b \in Blobs : EditFile(p, b)) \/ StoreNext
  PROVE  CacheInv'
<1>0. StoreTyped'
  BY StoreStepTyped DEF CacheInv
<1>1. CASE /\ UNCHANGED <<trees, members, forgot, blobs, read>>
           /\ StoreGrows
  <2>1. CachesTyped'
    BY <1>1 DEF CacheInv, CachesTyped
  <2>2. Listings' /\ MembersHeld' /\ MembersKept'
    BY <1>1, CachesUntouched
  <2>3. ReadsTyped' /\ GoneTold' /\ NoFalseRefusal'
    <3>1. read' = read
      BY <1>1
    <3>2. read' \in [Readers -> Calls]
      BY <3>1 DEF CacheInv, ReadsTyped
    <3>3. ASSUME NEW r \in Readers
          PROVE  /\ read'[r].pc # "idle" =>
                      read'[r].tree \in Trees /\ (read'[r].kind = "blob" => read'[r].path \in Paths)
                 /\ read'[r].pc \in {"bytes", "revalidate"} => read'[r].kind = "blob"
                 /\ read'[r].pc # "idle" /\ ~read'[r].gone =>
                      read'[r].tree \in manifests' /\ ObjectsOf(read'[r].tree) \subseteq objects' /\ repo' = "whole"
                 /\ Roomy' /\ read'[r].result = "object_missing" => read'[r].gone
      BY <1>1, <3>1, ReadsNow DEF StoreGrows, Roomy, Ample
    <3> QED BY <3>2, <3>3, ReadsNext
  <2> QED BY <1>0, <2>1, <2>2, <2>3 DEF CacheInv
<1>2. CASE UNCHANGED <<trees, members, forgot, blobs>> /\ read' = AllGone
  <2>1. CachesTyped'
    BY <1>2 DEF CacheInv, CachesTyped
  <2>2. ASSUME NEW r \in Readers
        PROVE  /\ read'[r] \in Calls /\ read'[r].pc = read[r].pc /\ read'[r].kind = read[r].kind
               /\ read'[r].tree = read[r].tree /\ read'[r].path = read[r].path
               /\ read'[r].on = read[r].on /\ read'[r].result = read[r].result
               /\ read[r].gone => read'[r].gone
               /\ read[r].pc # "idle" => read'[r].gone
    <3>1. read'[r] = IF InProgress(r) THEN [read[r] EXCEPT !.gone = TRUE] ELSE read[r]
      BY <1>2 DEF AllGone
    <3>2. read[r] \in Calls
      BY ReadsNow
    <3>3. CASE InProgress(r)
      BY <3>1, <3>2, <3>3, ZenonT(60) DEF Calls
    <3>4. CASE ~InProgress(r)
      BY <3>1, <3>2, <3>4 DEF InProgress
    <3> QED BY <3>3, <3>4
  <2>3. Listings' /\ MembersHeld' /\ MembersKept'
    <3>1. \A r \in Readers : KeyPaths(read'[r]) = KeyPaths(read[r])
      BY <2>2 DEF KeyPaths
    <3> QED BY <1>2, <2>2, <3>1, CachesUntouched
  <2>4. ReadsTyped' /\ GoneTold' /\ NoFalseRefusal'
    <3>1. read' = [r \in Readers |-> read'[r]]
      BY <1>2 DEF AllGone
    <3>2. read' \in [Readers -> Calls]
      BY <2>2, <3>1
    <3>3. ASSUME NEW r \in Readers
          PROVE  /\ read'[r].pc # "idle" =>
                      read'[r].tree \in Trees /\ (read'[r].kind = "blob" => read'[r].path \in Paths)
                 /\ read'[r].pc \in {"bytes", "revalidate"} => read'[r].kind = "blob"
                 /\ read'[r].pc # "idle" /\ ~read'[r].gone =>
                      read'[r].tree \in manifests' /\ ObjectsOf(read'[r].tree) \subseteq objects' /\ repo' = "whole"
                 /\ Roomy' /\ read'[r].result = "object_missing" => read'[r].gone
      BY <1>2, <2>2, ReadsNow DEF Roomy, Ample
    <3> QED BY <3>2, <3>3, ReadsNext
  <2> QED BY <1>0, <2>1, <2>3, <2>4 DEF CacheInv
<1>3. CASE /\ trees' = <<>> /\ members' = <<>> /\ blobs' = <<>> /\ forgot' = FALSE
           /\ read' = [r \in Readers |-> NoRead]
  <2>1. CachesTyped'
    <3>1. forgot' \in BOOLEAN
      BY <1>3, Zenon
    <3> QED BY <1>3, <3>1 DEF CachesTyped, ObjectsAssumption
  <2>2. NoRead \in Calls /\ NoRead.pc = "idle" /\ NoRead.result = "none"
    BY DEF NoRead, Calls
  <2>3. ReadsTyped' /\ GoneTold' /\ NoFalseRefusal'
    <3>1. read' \in [Readers -> Calls]
      BY <1>3, <2>2
    <3>2. \A r \in Readers : read'[r].pc = "idle" /\ read'[r].result = "none"
      BY <1>3, <2>2
    <3> QED BY <3>1, <3>2, ReadsNext
  <2>4. Listings'
    <3>1. \A i \in 1..Len(trees') : FALSE
      BY <1>3
    <3>2. \A r \in Readers : read'[r].pc = "idle"
      BY <1>3, <2>2
    <3> QED BY <3>1, <3>2, ListingsNext
  <2>5. MembersHeld' /\ MembersKept'
    BY <1>3 DEF MembersHeld, MembersKept
  <2> QED BY <1>0, <2>1, <2>3, <2>4, <2>5 DEF CacheInv
<1>4. ASSUME NEW saved \in BOOLEAN, capture(saved) PROVE CacheInv'
  <2>1. CachesTyped' /\ Listings' /\ MembersHeld' /\ MembersKept'
    BY <1>4, CaptureCaches
  <2>2. read' = read /\ StoreGrows /\ (Roomy' => Roomy)
    BY <1>4 DEF capture, StoreGrows, Remembering, membership, Roomy, Ample
  <2>3. ReadsTyped' /\ GoneTold' /\ NoFalseRefusal'
    <3>1. read' \in [Readers -> Calls]
      BY <2>2 DEF CacheInv, ReadsTyped
    <3>2. ASSUME NEW r \in Readers
          PROVE  /\ read'[r].pc # "idle" =>
                      read'[r].tree \in Trees /\ (read'[r].kind = "blob" => read'[r].path \in Paths)
                 /\ read'[r].pc \in {"bytes", "revalidate"} => read'[r].kind = "blob"
                 /\ read'[r].pc # "idle" /\ ~read'[r].gone =>
                      read'[r].tree \in manifests' /\ ObjectsOf(read'[r].tree) \subseteq objects' /\ repo' = "whole"
                 /\ Roomy' /\ read'[r].result = "object_missing" => read'[r].gone
      BY <2>2, ReadsNow DEF StoreGrows
    <3> QED BY <3>1, <3>2, ReadsNext
  <2> QED BY <1>0, <2>1, <2>3 DEF CacheInv
<1> QED BY <1>1, <1>2, <1>3, <1>4, StoreStepCalls

\* The cache of blobs stays a bounded sequence of blobs.
LEMMA BlobsRemembered ==
  ASSUME ObjectsAssumption, CacheInv, NEW b \in Blobs
  PROVE  RememberBlobs({b}) \in Seq(Blobs) /\ Len(RememberBlobs({b})) <= BlobLimit
<1> DEFINE new == {b} \ Range(blobs)
           batch == SetToSeq(new)
           whole == blobs \o batch
<1>1. IsFiniteSet(new) /\ new \subseteq Blobs
  <2>1. IsFiniteSet({b})
    BY FS_Singleton
  <2> QED BY <2>1, FS_Subset
<1>2. batch \in Seq(new)
  BY <1>1, SetToSeqFacts
<1> HIDE DEF batch
<1>3. batch \in Seq(Blobs)
  BY <1>1, <1>2
<1>4. whole \in Seq(Blobs)
  BY <1>3 DEF CacheInv, CachesTyped
<1> HIDE DEF whole
<1>5. LastOf(whole, BlobLimit) \in Seq(Blobs) /\ Len(LastOf(whole, BlobLimit)) <= BlobLimit
  <2>1. BlobLimit \in Nat
    BY DEF ObjectsAssumption
  <2>2. Newest(Blobs, whole, BlobLimit, LastOf(whole, BlobLimit))
    BY <1>4, <2>1, LastOfKeeps
  <2> QED BY <2>2 DEF Newest
<1>6. RememberBlobs({b}) = LastOf(whole, BlobLimit)
  BY DEF RememberBlobs, whole, batch, new
<1> QED BY <1>5, <1>6

\* The store as one reading call leaves it.
ReaderLeaves == UNCHANGED <<file, objects, repo, manifests, sweep, damaged, pins, leafDisk, leafMem>> /\ located' \subseteq Trees

\* A call goes on or ends with what it was told, and lists nothing.
LEMMA CallKeeps ==
  ASSUME ObjectsAssumption, CacheInv, ReaderLeaves, UNCHANGED <<trees, members, forgot>>,
         blobs' \in Seq(Blobs), Len(blobs') <= BlobLimit,
         NEW r \in Readers, NEW rd \in Calls, read' = [read EXCEPT ![r] = rd],
         read[r].pc # "ls", rd.pc # "ls",
         rd.pc = "wait" => /\ rd.on \in Readers /\ read[rd.on].pc = "ls"
                           /\ read[rd.on].tree = rd.tree
                           /\ KeyPaths(read[rd.on]) = KeyPaths(rd),
         rd.pc # "idle" => rd.tree \in Trees /\ (rd.kind = "blob" => rd.path \in Paths),
         rd.pc \in {"bytes", "revalidate"} => rd.kind = "blob",
         rd.pc # "idle" /\ ~rd.gone => rd.tree \in manifests /\ ObjectsOf(rd.tree) \subseteq objects /\ repo = "whole",
         Roomy /\ rd.result = "object_missing" => rd.gone
  PROVE  CacheInv'
<1>1. StoreTyped'
  BY DEF CacheInv, StoreTyped, ReaderLeaves
<1>2. CachesTyped'
  BY DEF CacheInv, CachesTyped
<1>3. Listings' /\ MembersHeld' /\ MembersKept'
  BY CallGoesOn
<1>4. ReadsTyped' /\ GoneTold' /\ NoFalseRefusal'
  <2>1. read \in [Readers -> Calls]
    BY DEF CacheInv, ReadsTyped
  <2>2. read' \in [Readers -> Calls] /\ read'[r] = rd /\ \A w \in Readers : w # r => read'[w] = read[w]
    BY <2>1
  <2>3. ASSUME NEW w \in Readers
        PROVE  /\ read'[w].pc # "idle" =>
                    read'[w].tree \in Trees /\ (read'[w].kind = "blob" => read'[w].path \in Paths)
               /\ read'[w].pc \in {"bytes", "revalidate"} => read'[w].kind = "blob"
               /\ read'[w].pc # "idle" /\ ~read'[w].gone =>
                    read'[w].tree \in manifests' /\ ObjectsOf(read'[w].tree) \subseteq objects' /\ repo' = "whole"
               /\ Roomy' /\ read'[w].result = "object_missing" => read'[w].gone
    <3>1. CASE w = r
      BY <2>2, <3>1 DEF ReaderLeaves, Roomy, Ample
    <3>2. CASE w # r
      BY <2>2, <3>2, ReadsNow DEF ReaderLeaves, Roomy, Ample
    <3> QED BY <3>1, <3>2
  <2> QED BY <2>2, <2>3, ReadsNext
<1> QED BY <1>1, <1>2, <1>3, <1>4 DEF CacheInv

\* How a call ends.
LEMMA Finished ==
  ASSUME NEW rd \in Calls, NEW how \in {"ok", "object_missing", "manifest_invalid"}
  PROVE  /\ Finish(rd, how) \in Calls /\ Finish(rd, how).pc = "idle"
         /\ Finish(rd, how).gone = rd.gone /\ Finish(rd, how).result = how
BY DEF Finish, NoRead, Calls

\* A read begins on a manifest that was found; it notes what is gone already.
LEMMA BeginReadKeeps ==
  ASSUME ObjectsAssumption, CacheInv, NEW r \in Readers, NEW kind \in {"blob", "complete"},
         NEW t \in Trees, NEW p \in Paths \cup {None}, BeginRead(r, kind, t, p)
  PROVE  CacheInv'
<1> DEFINE rd == [NoRead EXCEPT !.pc = "load", !.kind = kind, !.tree = t, !.path = p,
                    !.gone = ~Readable(t)]
<1>1. /\ rd \in Calls /\ rd.pc = "load" /\ rd.kind = kind /\ rd.tree = t /\ rd.path = p
      /\ rd.result = "none" /\ (~rd.gone => t \in manifests /\ ObjectsOf(t) \subseteq objects /\ repo = "whole")
  BY DEF NoRead, Calls, Readable
<1>2. /\ read' = [read EXCEPT ![r] = rd] /\ read[r].pc = "idle" /\ (kind = "blob" => p # None)
      /\ UNCHANGED <<file, objects, repo, manifests, sweep, damaged, pins, leafDisk, leafMem, trees, members, forgot, blobs>>
      /\ located' = located \cup {t}
  BY DEF BeginRead, InProgress, store, leafCache, readCaches, membership
<1> HIDE DEF rd
<1>3. ReaderLeaves
  BY <1>2 DEF ReaderLeaves, CacheInv, StoreTyped
<1>4. blobs' \in Seq(Blobs) /\ Len(blobs') <= BlobLimit
  BY <1>2 DEF CacheInv, CachesTyped
<1>5. rd.kind = "blob" => rd.path \in Paths
  BY <1>1, <1>2
<1> QED BY <1>1, <1>2, <1>3, <1>4, <1>5, CallKeeps

\* The manifest is loaded, and the membership map may answer at once.
LEMMA LoadManifestKeeps ==
  ASSUME ObjectsAssumption, CacheInv, NEW r \in Readers, loadManifest(r)
  PROVE  CacheInv'
<1> DEFINE rd == IF read[r].tree \notin manifests THEN Finish(read[r], "manifest_invalid")
                 ELSE IF read[r].kind = "blob" /\ Contains(members, <<read[r].tree, read[r].path>>)
                   THEN [read[r] EXCEPT !.pc = "bytes"]
                 ELSE [read[r] EXCEPT !.pc = "tree"]
<1>1. /\ read[r].pc = "load" /\ read' = [read EXCEPT ![r] = rd]
      /\ UNCHANGED <<file, objects, repo, manifests, sweep, damaged, pins, leafDisk, leafMem, located, trees, members, forgot, blobs>>
  BY DEF loadManifest, ReadStep, store, leafCache, readCaches, membership
<1>2. ReaderLeaves /\ blobs' \in Seq(Blobs) /\ Len(blobs') <= BlobLimit
  BY <1>1 DEF ReaderLeaves, CacheInv, StoreTyped, CachesTyped
<1>3. read[r] \in Calls
  BY ReadsNow
<1>4. \/ rd \in Calls /\ rd.pc = "idle" /\ rd.result = "manifest_invalid"
      \/ /\ rd \in Calls /\ rd.tree = read[r].tree /\ rd.path = read[r].path
         /\ rd.kind = read[r].kind /\ rd.gone = read[r].gone /\ rd.result = read[r].result
         /\ rd.pc \in {"tree", "bytes"} /\ (rd.pc = "bytes" => rd.kind = "blob")
  <2>1. CASE read[r].tree \notin manifests
    BY <1>3, <2>1, Finished
  <2>2. CASE read[r].tree \in manifests
    BY <1>3, <2>2 DEF Calls
  <2> QED BY <2>1, <2>2
<1> HIDE DEF rd
<1>5. rd.pc # "idle" => rd.tree \in Trees /\ (rd.kind = "blob" => rd.path \in Paths)
  BY <1>1, <1>4, ReadsNow
<1>6. rd.pc # "idle" /\ ~rd.gone => rd.tree \in manifests /\ ObjectsOf(rd.tree) \subseteq objects /\ repo = "whole"
  BY <1>1, <1>4, ReadsNow
<1>7. Roomy /\ rd.result = "object_missing" => rd.gone
  BY <1>1, <1>4, ReadsNow
<1>8. rd \in Calls /\ rd.pc \notin {"ls", "wait"} /\ (rd.pc \in {"bytes", "revalidate"} => rd.kind = "blob")
  BY <1>4
<1> QED BY <1>1, <1>2, <1>5, <1>6, <1>7, <1>8, CallKeeps

\* The bytes are there unless the objects were collected or damaged.
LEMMA CatBlobKeeps ==
  ASSUME ObjectsAssumption, CacheInv, NEW r \in Readers, catBlob(r)
  PROVE  CacheInv'
<1> DEFINE b == read[r].tree[read[r].path]
<1>1. /\ read[r].pc = "bytes"
      /\ UNCHANGED <<file, objects, repo, manifests, sweep, damaged, pins, leafDisk, leafMem, located, trees, members, forgot>>
      /\ IF b \in Range(blobs) \/ (repo = "whole" /\ b \in objects)
           THEN blobs' = RememberBlobs({b}) /\ read' = [read EXCEPT ![r] = [read[r] EXCEPT !.pc = "revalidate"]]
           ELSE blobs' = blobs /\ read' = [read EXCEPT ![r] = Finish(read[r], "object_missing")]
  BY DEF catBlob, ReadStep, store, leafCache, membership
<1>2. read[r] \in Calls /\ read[r].kind = "blob" /\ read[r].tree \in Trees /\ read[r].path \in Paths
  BY <1>1, ReadsNow
<1>3. b \in Blobs /\ b \in ObjectsOf(read[r].tree)
  <2>1. read[r].tree \in [Paths -> Blobs]
    BY <1>2 DEF Trees
  <2> QED BY <1>2, <2>1 DEF ObjectsOf, Range
<1>4. ReaderLeaves
  BY <1>1 DEF ReaderLeaves, CacheInv, StoreTyped
<1>5. blobs' \in Seq(Blobs) /\ Len(blobs') <= BlobLimit
  BY <1>1, <1>3, BlobsRemembered DEF CacheInv, CachesTyped
<1>6. CASE b \in Range(blobs) \/ (repo = "whole" /\ b \in objects)
  <2> DEFINE rd == [read[r] EXCEPT !.pc = "revalidate"]
  <2>1. /\ rd \in Calls /\ rd.pc = "revalidate" /\ rd.kind = read[r].kind /\ rd.tree = read[r].tree
        /\ rd.path = read[r].path /\ rd.gone = read[r].gone /\ rd.result = read[r].result
    BY <1>2 DEF Calls
  <2>2. read' = [read EXCEPT ![r] = rd]
    BY <1>1, <1>6
  <2> HIDE DEF rd
  <2>3. /\ rd.tree \in Trees /\ rd.path \in Paths
        /\ ~rd.gone => rd.tree \in manifests /\ ObjectsOf(rd.tree) \subseteq objects /\ repo = "whole"
        /\ Roomy /\ rd.result = "object_missing" => rd.gone
    BY <1>1, <1>2, <2>1, ReadsNow
  <2> QED BY <1>1, <1>2, <1>4, <1>5, <2>1, <2>2, <2>3, CallKeeps
<1>7. CASE ~(b \in Range(blobs) \/ (repo = "whole" /\ b \in objects))
  <2> DEFINE rd == Finish(read[r], "object_missing")
  <2>1. rd \in Calls /\ rd.pc = "idle" /\ rd.gone = read[r].gone
    BY <1>2, Finished
  <2>2. read' = [read EXCEPT ![r] = rd]
    BY <1>1, <1>7
  <2> HIDE DEF rd
  <2>3. rd.gone
    <3>1. ~read[r].gone => ObjectsOf(read[r].tree) \subseteq objects /\ repo = "whole"
      BY <1>1, ReadsNow
    <3> QED BY <1>2, <1>3, <1>7, <2>1, <3>1 DEF Calls
  <2> QED BY <1>1, <1>4, <1>5, <2>1, <2>2, <2>3, CallKeeps
<1> QED BY <1>6, <1>7

\* The manifest is loaded once more.
LEMMA RevalidateKeeps ==
  ASSUME ObjectsAssumption, CacheInv, NEW r \in Readers, revalidateManifest(r)
  PROVE  CacheInv'
<1> DEFINE how == IF read[r].tree \in manifests THEN "ok" ELSE "manifest_invalid"
           rd == Finish(read[r], how)
<1>1. /\ read[r].pc = "revalidate" /\ read' = [read EXCEPT ![r] = rd]
      /\ UNCHANGED <<file, objects, repo, manifests, sweep, damaged, pins, leafDisk, leafMem, located, trees, members, forgot, blobs>>
  BY DEF revalidateManifest, ReadStep, store, leafCache, readCaches, membership
<1>2. ReaderLeaves /\ blobs' \in Seq(Blobs) /\ Len(blobs') <= BlobLimit
  BY <1>1 DEF ReaderLeaves, CacheInv, StoreTyped, CachesTyped
<1>3. rd \in Calls /\ rd.pc = "idle" /\ rd.result # "object_missing"
  BY ReadsNow, Finished
<1> HIDE DEF rd
<1> QED BY <1>1, <1>2, <1>3, CallKeeps

\* assertComplete refuses only when an object of the tree is not there.
LEMMA AssertCompleteKeeps ==
  ASSUME ObjectsAssumption, CacheInv, NEW r \in Readers, assertObjectsComplete(r)
  PROVE  CacheInv'
<1> DEFINE how == IF repo = "whole" /\ Needed(read[r]) \subseteq objects THEN "ok" ELSE "object_missing"
           rd == Finish(read[r], how)
<1>1. /\ read[r].pc = "objects" /\ read' = [read EXCEPT ![r] = rd]
      /\ UNCHANGED <<file, objects, repo, manifests, sweep, damaged, pins, leafDisk, leafMem, located, trees, members, forgot>>
      /\ blobs' = blobs \/ (read[r].path # None /\ blobs' = RememberBlobs({read[r].tree[read[r].path]}))
  BY DEF assertObjectsComplete, ReadStep, store, leafCache, membership
<1>2. read[r] \in Calls /\ read[r].tree \in Trees
  BY <1>1, ReadsNow
<1>3. read[r].path \in Paths \cup {None} /\ \A p \in Paths : read[r].tree[p] \in Blobs
  BY <1>2 DEF Calls, Trees
<1>4. blobs' \in Seq(Blobs) /\ Len(blobs') <= BlobLimit
  BY <1>1, <1>3, BlobsRemembered DEF CacheInv, CachesTyped
<1>5. ReaderLeaves
  BY <1>1 DEF ReaderLeaves, CacheInv, StoreTyped
<1>6. Needed(read[r]) \subseteq ObjectsOf(read[r].tree)
  <2>1. read[r].tree \in [Paths -> Blobs]
    BY <1>2 DEF Trees
  <2>2. KeyPaths(read[r]) \subseteq Paths
    BY <1>3 DEF KeyPaths
  <2> QED BY <2>1, <2>2 DEF Needed, ObjectsOf, Range
<1>7. rd \in Calls /\ rd.pc = "idle" /\ rd.gone = read[r].gone /\ rd.result = how
  BY <1>2, Finished
<1>8. rd.result = "object_missing" => rd.gone
  <2>1. ~read[r].gone => ObjectsOf(read[r].tree) \subseteq objects /\ repo = "whole"
    BY <1>1, ReadsNow
  <2>2. how = "object_missing" => read[r].gone
    BY <1>6, <2>1
  <2> QED BY <1>7, <2>2
<1> HIDE DEF rd
<1> QED BY <1>1, <1>4, <1>5, <1>7, <1>8, CallKeeps

\* What a call does with the entries of its tree.
LEMMA EnteredFacts ==
  ASSUME NEW rd \in Calls, NEW ms
  PROVE  /\ Entered(rd, ms) \in Calls /\ Entered(rd, ms).pc \in {"objects", "bytes", "idle"}
         /\ Entered(rd, ms).gone = rd.gone
         /\ Entered(rd, ms).pc # "idle" =>
              /\ Entered(rd, ms).kind = rd.kind /\ Entered(rd, ms).tree = rd.tree
              /\ Entered(rd, ms).path = rd.path /\ Entered(rd, ms).result = rd.result
         /\ Entered(rd, ms).pc = "bytes" => rd.kind = "blob"
         /\ Entered(rd, ms).pc = "idle" => rd.kind = "blob" /\ ~Contains(ms, <<rd.tree, rd.path>>)
<1> DEFINE held == Contains(ms, <<rd.tree, rd.path>>)
           end == Finish(rd, "object_missing")
<1>1. end \in Calls /\ end.pc = "idle" /\ end.gone = rd.gone
  BY Finished
<1>2. Entered(rd, ms) = IF rd.kind = "complete" THEN [rd EXCEPT !.pc = "objects"]
                        ELSE IF held THEN [rd EXCEPT !.pc = "bytes"] ELSE end
  BY DEF Entered
<1> HIDE DEF held, end
<1>3. rd.kind \in {"blob", "complete"}
  BY DEF Calls
<1>4. CASE rd.kind = "complete"
  BY <1>2, <1>4 DEF Calls
<1>5. CASE rd.kind = "blob" /\ held
  BY <1>2, <1>5 DEF Calls
<1>6. CASE rd.kind = "blob" /\ ~held
  BY <1>1, <1>2, <1>6 DEF held
<1> QED BY <1>3, <1>4, <1>5, <1>6

\* The paths a call asks for.
LEMMA KeyPathsFacts ==
  ASSUME ObjectsAssumption, CacheInv, NEW r \in Readers, read[r].pc # "idle"
  PROVE  /\ KeyPaths(read[r]) \in SUBSET Paths
         /\ read[r].kind = "blob" => read[r].path \in KeyPaths(read[r])
<1>1. read[r].path \in Paths \cup {None} /\ (read[r].kind = "blob" => read[r].path \in Paths)
  BY ReadsNow DEF Calls
<1> QED BY <1>1 DEF KeyPaths, ObjectsAssumption

\* What CachedTree finds is an entry of the cache of that tree and those paths.
LEMMA CachedEntry ==
  ASSUME CacheInv, NEW t, NEW S, NEW e \in CachedTree(t, S)
  PROVE  \E i \in 1..Len(trees) : e = trees[i] /\ trees[i].tree = t /\ trees[i].paths = S
<1>1. trees \in Seq(CacheEntries)
  BY DEF CacheInv, CachesTyped
<1>2. DOMAIN trees = 1..Len(trees)
  BY <1>1
<1>3. e \in Range(trees) /\ e.tree = t /\ e.paths = S
  BY DEF CachedTree
<1>4. PICK i \in DOMAIN trees : e = trees[i]
  BY <1>3 DEF Range
<1> QED BY <1>2, <1>3, <1>4

\* The entry is in the cache: settled, its members are held; pending, it is awaited.
LEMMA CachedReadKeeps ==
  ASSUME ObjectsAssumption, CacheInv, NEW r \in Readers, read[r].pc = "tree", ReaderLeaves,
         UNCHANGED <<trees, members, forgot, blobs>>,
         NEW e \in CachedTree(read[r].tree, KeyPaths(read[r])),
         read' = [read EXCEPT ![r] = IF e.by = None THEN Entered(read[r], members)
                                     ELSE [read[r] EXCEPT !.pc = "wait", !.on = e.by]]
  PROVE  CacheInv'
<1>1. PICK i \in 1..Len(trees) :
        e = trees[i] /\ trees[i].tree = read[r].tree /\ trees[i].paths = KeyPaths(read[r])
  BY CachedEntry
<1>2. read[r] \in Calls
  BY ReadsNow
<1>3. blobs' \in Seq(Blobs) /\ Len(blobs') <= BlobLimit
  BY DEF CacheInv, CachesTyped
<1>4. CASE e.by = None
  <2> DEFINE rd == Entered(read[r], members)
  <2>1. Roomy /\ read[r].kind = "blob" => Contains(members, <<read[r].tree, read[r].path>>)
    <3> SUFFICES ASSUME Roomy, read[r].kind = "blob"
                 PROVE  Contains(members, <<read[r].tree, read[r].path>>)
      OBVIOUS
    <3>1. read[r].path \in trees[i].paths
      BY <1>1, KeyPathsFacts
    <3>0. trees[i].by = None /\ trees[i].tree = read[r].tree
      BY <1>1, <1>4
    <3>2. CASE Ample
      <4>1. MembersHeld
        BY DEF CacheInv
      <4>2. \E m \in 1..Len(members) : members[m] = <<trees[i].tree, read[r].path>>
        BY <3>0, <3>1, <3>2, <4>1, ZenonT(60) DEF MembersHeld, Ample
      <4> QED BY <3>0, <4>2 DEF Contains
    <3>3. CASE ~forgot
      <4>1. MembersKept
        BY DEF CacheInv
      <4>2. \E m \in 1..Len(members) : members[m] = <<trees[i].tree, read[r].path>>
        BY <3>0, <3>1, <3>3, <4>1 DEF MembersKept
      <4> QED BY <3>0, <4>2 DEF Contains
    <3> QED BY <3>2, <3>3 DEF Roomy
  <2>2. read' = [read EXCEPT ![r] = rd]
    BY <1>4
  <2>3. /\ rd \in Calls /\ rd.pc \in {"objects", "bytes", "idle"} /\ rd.gone = read[r].gone
        /\ rd.pc # "idle" =>
             /\ rd.kind = read[r].kind /\ rd.tree = read[r].tree
             /\ rd.path = read[r].path /\ rd.result = read[r].result
        /\ rd.pc = "bytes" => read[r].kind = "blob"
        /\ rd.pc = "idle" => ~Roomy
    BY <1>2, <2>1, EnteredFacts
  <2> HIDE DEF rd
  <2>4. rd.pc # "idle" => rd.tree \in Trees /\ (rd.kind = "blob" => rd.path \in Paths)
    BY <2>3, ReadsNow
  <2>5. rd.pc # "idle" /\ ~rd.gone => rd.tree \in manifests /\ ObjectsOf(rd.tree) \subseteq objects /\ repo = "whole"
    BY <2>3, ReadsNow
  <2>6. Roomy /\ rd.result = "object_missing" => rd.gone
    BY <2>3, ReadsNow
  <2>7. rd.pc \notin {"ls", "wait"} /\ (rd.pc \in {"bytes", "revalidate"} => rd.kind = "blob")
    BY <2>3
  <2> QED BY <1>3, <2>2, <2>3, <2>4, <2>5, <2>6, <2>7, CallKeeps
<1>5. CASE e.by # None
  <2> DEFINE rd == [read[r] EXCEPT !.pc = "wait", !.on = e.by]
  <2>1. /\ e.by \in Readers /\ read[e.by].pc = "ls" /\ read[e.by].tree = read[r].tree
        /\ KeyPaths(read[e.by]) = KeyPaths(read[r])
    BY <1>1, <1>5, EntryTyped DEF CacheInv, Listings
  <2>2. /\ rd \in Calls /\ rd.pc = "wait" /\ rd.on = e.by /\ rd.kind = read[r].kind
        /\ rd.tree = read[r].tree /\ rd.path = read[r].path /\ rd.gone = read[r].gone
        /\ rd.result = read[r].result
    BY <1>2, <2>1 DEF Calls
  <2>3. read' = [read EXCEPT ![r] = rd]
    BY <1>5
  <2> HIDE DEF rd
  <2>4. KeyPaths(rd) = KeyPaths(read[r])
    BY <2>2 DEF KeyPaths
  <2>5. rd.pc # "idle" => rd.tree \in Trees /\ (rd.kind = "blob" => rd.path \in Paths)
    BY <2>2, ReadsNow
  <2>6. rd.pc # "idle" /\ ~rd.gone => rd.tree \in manifests /\ ObjectsOf(rd.tree) \subseteq objects /\ repo = "whole"
    BY <2>2, ReadsNow
  <2>7. Roomy /\ rd.result = "object_missing" => rd.gone
    BY <2>2, ReadsNow
  <2>8. rd.pc = "wait" => /\ rd.on \in Readers /\ read[rd.on].pc = "ls"
                          /\ read[rd.on].tree = rd.tree
                          /\ KeyPaths(read[rd.on]) = KeyPaths(rd)
    BY <2>1, <2>2, <2>4
  <2> QED BY <1>3, <2>2, <2>3, <2>5, <2>6, <2>7, <2>8, CallKeeps
<1> QED BY <1>4, <1>5

\* One more call lists: the entry it caches is its own, and what the membership
\* map needs for the others does not change.
LEMMA ListingBegins ==
  ASSUME ObjectsAssumption, CacheInv, NEW r \in Readers, read[r].pc = "tree", ReaderLeaves,
         UNCHANGED <<members, forgot, blobs>>,
         trees' = LastOf(Append(trees,
                    [tree |-> read[r].tree, paths |-> KeyPaths(read[r]), by |-> r]), TreeLimit),
         read' = [read EXCEPT ![r] = [read[r] EXCEPT !.pc = "ls", !.on = r]]
  PROVE  CacheInv'
<1> DEFINE e == [tree |-> read[r].tree, paths |-> KeyPaths(read[r]), by |-> r]
           rd == [read[r] EXCEPT !.pc = "ls", !.on = r]
<1>1. /\ e \in CacheEntries /\ e.tree = read[r].tree /\ e.paths = KeyPaths(read[r]) /\ e.by = r
      /\ r # None
  BY ReadsNow, KeyPathsFacts DEF CacheEntries, ObjectsAssumption
<1>2. /\ rd \in Calls /\ rd.pc = "ls" /\ rd.on = r /\ rd.kind = read[r].kind /\ rd.tree = read[r].tree
      /\ rd.path = read[r].path /\ rd.gone = read[r].gone /\ rd.result = read[r].result
  BY ReadsNow, ZenonT(60) DEF Calls
<1>3. read \in [Readers -> Calls] /\ read' = [read EXCEPT ![r] = rd] /\ trees' = LastOf(Append(trees, e), TreeLimit)
  BY ReadsNow
<1> HIDE DEF e, rd
<1>4. read' \in [Readers -> Calls] /\ read'[r] = rd /\ \A w \in Readers : w # r => read'[w] = read[w]
  BY <1>2, <1>3
<1>5. KeyPaths(rd) = KeyPaths(read[r])
  BY <1>2 DEF KeyPaths
<1>6. /\ trees' \in Seq(CacheEntries) /\ Len(trees') <= TreeLimit
      /\ Len(trees') \in Nat \ {0} /\ trees'[Len(trees')] = e
      /\ \E d \in Nat : /\ Len(trees') = Len(trees) + 1 - d
                        /\ \A k \in 1..(Len(trees') - 1) :
                             trees'[k] = trees[k + d] /\ k + d \in 1..Len(trees)
  <2>1. CachesTyped
    BY DEF CacheInv
  <2>2. e \in CacheEntries /\ trees' = LastOf(Append(trees, e), TreeLimit)
    BY <1>1, <1>3
  <2> QED BY <2>1, <2>2, Inserted, ZenonT(60)
<1>7. PICK d \in Nat : /\ Len(trees') = Len(trees) + 1 - d
                       /\ \A k \in 1..(Len(trees') - 1) :
                            trees'[k] = trees[k + d] /\ k + d \in 1..Len(trees)
  BY <1>6
<1>8. CachesTyped'
  BY <1>6 DEF CacheInv, CachesTyped
<1>9. StoreTyped'
  BY DEF CacheInv, StoreTyped, ReaderLeaves
<1>10. \A k \in 1..Len(trees') : k \notin 1..(Len(trees') - 1) => k = Len(trees')
  BY <1>6, SMTT(60)
<1>11. Listings'
  <2>1. ASSUME NEW i \in 1..(Len(trees') - 1), trees'[i].by # None
        PROVE  /\ trees'[i].by \in Readers \ {r}
               /\ read'[trees'[i].by].pc = "ls"
               /\ read'[trees'[i].by].tree = trees'[i].tree
               /\ KeyPaths(read'[trees'[i].by]) = trees'[i].paths
               /\ \A j \in 1..(Len(trees') - 1) : trees'[j].by = trees'[i].by => j = i
    <3>1. trees'[i] = trees[i + d] /\ i + d \in 1..Len(trees)
      BY <1>7
    <3>2. trees[i + d].by \in Readers /\ read[trees[i + d].by].pc = "ls"
      BY <2>1, <3>1, EntryTyped DEF CacheInv, Listings
    <3>3. trees'[i].by # r /\ read'[trees'[i].by] = read[trees[i + d].by]
      BY <1>4, <3>1, <3>2
    <3>4. ASSUME NEW j \in 1..(Len(trees') - 1), trees'[j].by = trees'[i].by PROVE j = i
      <4>1. trees'[j] = trees[j + d] /\ j + d \in 1..Len(trees)
        BY <1>7
      <4>2. j + d = i + d
        BY <2>1, <3>1, <3>4, <4>1, SMTT(60) DEF CacheInv, Listings
      <4> QED BY <4>2
    <3> QED BY <2>1, <3>1, <3>2, <3>3, <3>4, SMTT(60) DEF CacheInv, Listings
  <2>2. ASSUME NEW i \in 1..Len(trees'), trees'[i].by # None
        PROVE  /\ read'[trees'[i].by].pc = "ls"
               /\ read'[trees'[i].by].tree = trees'[i].tree
               /\ KeyPaths(read'[trees'[i].by]) = trees'[i].paths
               /\ \A j \in 1..Len(trees') : trees'[j].by = trees'[i].by => j = i
    <3>1. CASE i = Len(trees')
      <4>1. trees'[i] = e
        BY <1>6, <3>1, SMTT(60)
      <4>2. ASSUME NEW j \in 1..Len(trees'), trees'[j].by = trees'[i].by PROVE j = i
        <5>1. j \notin 1..(Len(trees') - 1)
          BY <1>1, <2>1, <4>1, <4>2, SMTT(60)
        <5> QED BY <1>10, <3>1, <5>1, SMTT(60)
      <4> QED BY <1>1, <1>2, <1>4, <1>5, <4>1, <4>2
    <3>2. CASE i # Len(trees')
      <4>1. i \in 1..(Len(trees') - 1)
        BY <1>10, <3>2
      <4>2. ASSUME NEW j \in 1..Len(trees'), trees'[j].by = trees'[i].by PROVE j = i
        <5>1. trees'[j].by # r
          BY <2>1, <2>2, <4>1, <4>2, SMTT(60)
        <5>2. j # Len(trees')
          BY <1>1, <1>6, <5>1
        <5>3. j \in 1..(Len(trees') - 1)
          BY <1>10, <5>2
        <5> QED BY <2>1, <2>2, <4>1, <4>2, <5>3, SMTT(60)
      <4> QED BY <2>1, <2>2, <4>1, <4>2, SMTT(60)
    <3> QED BY <3>1, <3>2, SMTT(60)
  <2>3. ASSUME NEW w \in Readers
        PROVE  /\ read'[w].pc = "ls" => read'[w].on = w
               /\ read'[w].pc = "wait" =>
                    /\ read'[w].on \in Readers /\ read'[read'[w].on].pc = "ls"
                    /\ read'[read'[w].on].tree = read'[w].tree
                    /\ KeyPaths(read'[read'[w].on]) = KeyPaths(read'[w])
    <3>1. CASE w = r
      BY <1>2, <1>4, <3>1
    <3>2. CASE w # r
      <4>1. read'[w] = read[w]
        BY <1>4, <3>2
      <4>2. read[w].pc = "wait" => read[w].on \in Readers /\ read[w].on # r
        BY DEF CacheInv, Listings
      <4>3. read[w].pc = "wait" => read'[read[w].on] = read[read[w].on]
        BY <1>4, <4>2
      <4> QED BY <4>1, <4>2, <4>3 DEF CacheInv, Listings
    <3> QED BY <3>1, <3>2
  <2> QED BY <2>2, <2>3, ListingsNext
<1>12. Cardinality(Listers') = Cardinality(Listers) + 1
  <2>1. Listers' = Listers \cup {r} /\ r \notin Listers
    BY <1>2, <1>4 DEF Listers
  <2>2. IsFiniteSet(Listers)
    <3>1. Listers \subseteq Readers
      BY DEF Listers
    <3> QED BY <3>1, FS_Subset DEF ObjectsAssumption
  <2> QED BY <2>1, <2>2, FS_AddElement
<1>13. MembersHeld'
  <2> SUFFICES ASSUME Ample, NEW i \in 1..Len(trees'), trees'[i].by = None, NEW p \in trees'[i].paths
               PROVE  \E m \in 1..Len(members') :
                        /\ members'[m] = <<trees'[i].tree, p>>
                        /\ Len(members') - m < Slack(i)' * Cardinality(Paths)
    BY DEF MembersHeld, Ample
  <2>1. i # Len(trees')
    BY <1>1, <1>6
  <2>2. trees'[i] = trees[i + d] /\ i + d \in 1..Len(trees)
    BY <1>7, <1>10, <2>1
  <2>3. Slack(i)' = Slack(i + d)
    <3>1. Cardinality(Listers) \in Nat /\ Cardinality(Readers) \in Nat /\ Len(trees) \in Nat
      BY Numbers DEF CacheInv, CachesTyped
    <3> QED BY <1>7, <1>12, <3>1, SMTT(60) DEF Slack
  <2>4. \E m \in 1..Len(members) :
          /\ members[m] = <<trees[i + d].tree, p>>
          /\ Len(members) - m < Slack(i + d) * Cardinality(Paths)
    BY <2>2 DEF CacheInv, MembersHeld
  <2> QED BY <2>2, <2>3, <2>4
<1>15. MembersKept'
  <2> SUFFICES ASSUME ~forgot', NEW i \in 1..Len(trees'), trees'[i].by = None, NEW p \in trees'[i].paths
               PROVE  \E m \in 1..Len(members') : members'[m] = <<trees'[i].tree, p>>
    BY DEF MembersKept
  <2>1. i # Len(trees')
    BY <1>1, <1>6
  <2>2. trees'[i] = trees[i + d] /\ i + d \in 1..Len(trees)
    BY <1>7, <1>10, <2>1
  <2>3. \E m \in 1..Len(members) : members[m] = <<trees[i + d].tree, p>>
    BY <2>2 DEF CacheInv, MembersKept
  <2> QED BY <2>2, <2>3
<1>14. ReadsTyped' /\ GoneTold' /\ NoFalseRefusal'
  <2>1. ASSUME NEW w \in Readers
        PROVE  /\ read'[w].pc # "idle" =>
                    read'[w].tree \in Trees /\ (read'[w].kind = "blob" => read'[w].path \in Paths)
               /\ read'[w].pc \in {"bytes", "revalidate"} => read'[w].kind = "blob"
               /\ read'[w].pc # "idle" /\ ~read'[w].gone =>
                    read'[w].tree \in manifests' /\ ObjectsOf(read'[w].tree) \subseteq objects' /\ repo' = "whole"
               /\ Roomy' /\ read'[w].result = "object_missing" => read'[w].gone
    <3>1. CASE w = r
      BY <1>2, <1>4, <3>1, ReadsNow DEF ReaderLeaves, Roomy, Ample
    <3>2. CASE w # r
      BY <1>4, <3>2, ReadsNow DEF ReaderLeaves, Roomy, Ample
    <3> QED BY <3>1, <3>2
  <2> QED BY <1>4, <2>1, ReadsNext
<1> QED BY <1>8, <1>9, <1>11, <1>13, <1>14, <1>15 DEF CacheInv

\* readTreeEntries keeps the invariant: it finds an entry or starts a listing.
LEMMA ReadTreeEntriesKeeps ==
  ASSUME ObjectsAssumption, CacheInv, NEW r \in Readers, readTreeEntries(r)
  PROVE  CacheInv'
<1>1. read[r].pc = "tree"
  BY DEF readTreeEntries
<1>2. UNCHANGED <<members, forgot, blobs>>
  BY DEF readTreeEntries, membership
<1>3. ReaderLeaves
  BY DEF readTreeEntries, ReadStep, store, leafCache, ReaderLeaves, CacheInv, StoreTyped
<1>4. CASE CachedTree(read[r].tree, KeyPaths(read[r])) = {}
  <2>1. /\ trees' = LastOf(Append(trees,
                      [tree |-> read[r].tree, paths |-> KeyPaths(read[r]), by |-> r]), TreeLimit)
        /\ read' = [read EXCEPT ![r] = [read[r] EXCEPT !.pc = "ls", !.on = r]]
    BY <1>4 DEF readTreeEntries, ReadStep
  <2> QED BY <1>1, <1>2, <1>3, <2>1, ListingBegins
<1>5. CASE CachedTree(read[r].tree, KeyPaths(read[r])) # {}
  <2>1. UNCHANGED trees
    BY <1>5, ZenonT(60) DEF readTreeEntries
  <2>2. PICK e \in CachedTree(read[r].tree, KeyPaths(read[r])) :
          read' = [read EXCEPT ![r] = IF e.by = None THEN Entered(read[r], members)
                                      ELSE [read[r] EXCEPT !.pc = "wait", !.on = e.by]]
    BY <1>5 DEF readTreeEntries, ReadStep
  <2> QED BY <1>1, <1>2, <1>3, <2>1, <2>2, CachedReadKeeps
<1> QED BY <1>4, <1>5

\* When git ls-tree of r is over, r and those who wait for it go on; the other
\* listings and their waiters stay.
LEMMA ListingOver ==
  ASSUME ObjectsAssumption, CacheInv, NEW r \in Readers, read[r].pc = "ls",
         \A w \in Readers : IF w \in Awaiting(r) THEN read'[w].pc \notin {"ls", "wait"}
                            ELSE read'[w] = read[w]
  PROVE  /\ \A w \in Awaiting(r) : /\ w \in Readers /\ read[w].pc # "idle"
                                   /\ read[w].tree = read[r].tree
                                   /\ KeyPaths(read[w]) = KeyPaths(read[r])
         /\ \A w \in Readers : w # r /\ read[w].pc = "ls" => read'[w] = read[w]
         /\ \A w \in Readers :
              /\ read'[w].pc = "ls" => read'[w].on = w
              /\ read'[w].pc = "wait" =>
                   /\ read'[w].on \in Readers /\ read'[read'[w].on].pc = "ls"
                   /\ read'[read'[w].on].tree = read'[w].tree
                   /\ KeyPaths(read'[read'[w].on]) = KeyPaths(read'[w])
         /\ Cardinality(Listers') = Cardinality(Listers) - 1
<1>1. r \in Awaiting(r) /\ \A w \in Readers : w # r /\ read[w].pc = "ls" => w \notin Awaiting(r)
  BY DEF CacheInv, Listings, Awaiting
<1>2. \A w \in Awaiting(r) : /\ w \in Readers /\ read[w].pc # "idle"
                             /\ read[w].tree = read[r].tree
                             /\ KeyPaths(read[w]) = KeyPaths(read[r])
  BY DEF CacheInv, Listings, Awaiting
<1>3. \A w \in Readers : w # r /\ read[w].pc = "ls" => read'[w] = read[w]
  BY <1>1
<1>4. ASSUME NEW w \in Readers
      PROVE  /\ read'[w].pc = "ls" => read'[w].on = w
             /\ read'[w].pc = "wait" =>
                  /\ read'[w].on \in Readers /\ read'[read'[w].on].pc = "ls"
                  /\ read'[read'[w].on].tree = read'[w].tree
                  /\ KeyPaths(read'[read'[w].on]) = KeyPaths(read'[w])
  <2>1. CASE w \in Awaiting(r)
    BY <2>1
  <2>2. CASE w \notin Awaiting(r)
    <3>1. read'[w] = read[w]
      BY <2>2
    <3>2. read[w].pc = "wait" => read[w].on # r
      BY <2>2 DEF Awaiting
    <3>3. read[w].pc = "wait" =>
            /\ read[w].on \in Readers /\ read[read[w].on].pc = "ls"
            /\ read'[read[w].on] = read[read[w].on]
      BY <1>3, <3>2 DEF CacheInv, Listings
    <3> QED BY <3>1, <3>3 DEF CacheInv, Listings
  <2> QED BY <2>1, <2>2
<1>5. Cardinality(Listers') = Cardinality(Listers) - 1
  <2>1. Listers' = Listers \ {r} /\ r \in Listers
    BY <1>1, <1>3 DEF Listers
  <2>2. IsFiniteSet(Listers)
    <3>1. Listers \subseteq Readers
      BY DEF Listers
    <3> QED BY <3>1, FS_Subset DEF ObjectsAssumption
  <2> QED BY <2>1, <2>2, FS_RemoveElement
<1> QED BY <1>2, <1>3, <1>4, <1>5

\* git ls-tree answers: its entry is settled and its members are remembered.
LEMMA ListedKeeps ==
  ASSUME ObjectsAssumption, CacheInv, NEW r \in Readers, read[r].pc = "ls", ReaderLeaves,
         blobs' = blobs,
         trees' = [i \in DOMAIN trees |->
                     IF trees[i].by = r THEN [trees[i] EXCEPT !.by = None] ELSE trees[i]],
         Remembering(read[r].tree, KeyPaths(read[r])),
         read' = [w \in Readers |-> IF w \notin Awaiting(r) THEN read[w] ELSE Entered(read[w], members')]
  PROVE  CacheInv'
<1> DEFINE c == Cardinality(Paths)
           S == KeyPaths(read[r])
<1>1. r # None /\ S \in SUBSET Paths /\ read[r].tree \in Trees
  BY ReadsNow, KeyPathsFacts DEF ObjectsAssumption
<1>0. /\ members' = RememberMembers(read[r].tree, S) /\ forgot' \in BOOLEAN
      /\ ~forgot' => ~forgot /\ ~(Len(AllMembers(read[r].tree, S)) > MemberLimit)
  BY DEF Remembering, CacheInv, CachesTyped
<1>2. ASSUME NEW w \in Readers
      PROVE  /\ w \notin Awaiting(r) => read'[w] = read[w]
             /\ w \in Awaiting(r) => read'[w] = Entered(read[w], members')
  OBVIOUS
<1>3. ASSUME NEW w \in Awaiting(r)
      PROVE  /\ w \in Readers /\ read'[w] \in Calls
             /\ read'[w].pc \in {"objects", "bytes", "idle"}
             /\ read'[w].gone = read[w].gone
             /\ read'[w].pc # "idle" =>
                  /\ read'[w].kind = read[w].kind /\ read'[w].tree = read[w].tree
                  /\ read'[w].path = read[w].path /\ read'[w].result = read[w].result
             /\ read'[w].pc = "bytes" => read[w].kind = "blob"
             /\ read'[w].pc = "idle" => read[w].kind = "blob" /\ ~Contains(members', <<read[w].tree, read[w].path>>)
  <2>1. w \in Readers /\ read[w] \in Calls
    BY ReadsNow DEF Awaiting
  <2>2. read'[w] = Entered(read[w], members')
    BY <1>2, <2>1
  <2> HIDE DEF S, c
  <2> QED BY <2>1, <2>2, EnteredFacts
<1>4. \A w \in Readers : IF w \in Awaiting(r) THEN read'[w].pc \notin {"ls", "wait"}
                         ELSE read'[w] = read[w]
  BY <1>2, <1>3
<1>5. /\ \A w \in Awaiting(r) : /\ w \in Readers /\ read[w].pc # "idle"
                                /\ read[w].tree = read[r].tree /\ KeyPaths(read[w]) = S
      /\ \A w \in Readers : w # r /\ read[w].pc = "ls" => read'[w] = read[w]
      /\ \A w \in Readers :
           /\ read'[w].pc = "ls" => read'[w].on = w
           /\ read'[w].pc = "wait" =>
                /\ read'[w].on \in Readers /\ read'[read'[w].on].pc = "ls"
                /\ read'[read'[w].on].tree = read'[w].tree
                /\ KeyPaths(read'[read'[w].on]) = KeyPaths(read'[w])
      /\ Cardinality(Listers') = Cardinality(Listers) - 1
  BY <1>4, ListingOver
<1>6. /\ members' \in Seq(Trees \X Paths) /\ Len(members') <= MemberLimit
      /\ \A p \in S : Cardinality(S) <= MemberLimit =>
           \E k \in 1..Len(members') :
             members'[k] = <<read[r].tree, p>> /\ Len(members') - k < Cardinality(S)
      /\ ~forgot' =>
           /\ ~forgot /\ \A p \in S : \E k \in 1..Len(members') : members'[k] = <<read[r].tree, p>>
           /\ \A m \in 1..Len(members) : \E k \in 1..Len(members') : members'[k] = members[m]
  <2>1. members \in Seq(Trees \X Paths)
    BY DEF CacheInv, CachesTyped
  <2>2. read[r].tree \in Trees /\ S \in SUBSET Paths /\ members' = RememberMembers(read[r].tree, S)
    BY <1>0, <1>1
  <2>3. ~forgot' => ~forgot /\ ~(Len(AllMembers(read[r].tree, S)) > MemberLimit)
    BY <1>0
  <2> HIDE DEF S
  <2>4. Remembered(read[r].tree, S, members')
    BY <2>1, <2>2, RememberedMembers
  <2>5. AllMembers(read[r].tree, S) \in Seq(Trees \X Paths) /\ MemberLimit \in Nat
    BY <2>1, <2>2, MembersTyped DEF ObjectsAssumption
  <2>6. ~forgot' => ~forgot /\ Len(AllMembers(read[r].tree, S)) <= MemberLimit
    BY <2>3, <2>5
  <2> QED BY <2>4, <2>6 DEF Remembered
<1>7. Cardinality(S) \in Nat /\ Cardinality(S) <= c /\ c \in Nat /\ (Ample => Cardinality(S) <= MemberLimit)
  BY <1>1, Numbers
<1>8. /\ Len(trees) \in Nat /\ DOMAIN trees = 1..Len(trees) /\ trees \in Seq(CacheEntries)
      /\ Len(trees) <= TreeLimit
  BY DEF CacheInv, CachesTyped
<1>9. /\ trees' \in Seq(CacheEntries) /\ Len(trees') = Len(trees)
      /\ \A i \in 1..Len(trees) :
           /\ trees'[i].tree = trees[i].tree /\ trees'[i].paths = trees[i].paths
           /\ trees'[i].by = IF trees[i].by = r THEN None ELSE trees[i].by
  <2>1. ASSUME NEW i \in 1..Len(trees)
        PROVE  /\ trees'[i] \in CacheEntries
               /\ trees'[i].tree = trees[i].tree /\ trees'[i].paths = trees[i].paths
               /\ trees'[i].by = IF trees[i].by = r THEN None ELSE trees[i].by
    <3>1. trees[i] \in CacheEntries
      BY EntryTyped DEF CacheInv
    <3>2. trees'[i] = IF trees[i].by = r THEN [trees[i] EXCEPT !.by = None] ELSE trees[i]
      BY <1>8
    <3> QED BY <3>1, <3>2, SMTT(60) DEF CacheEntries
  <2>2. trees' = [i \in 1..Len(trees) |-> trees'[i]]
    BY <1>8
  <2>3. trees' \in Seq(CacheEntries) /\ Len(trees') = Len(trees)
    BY <1>8, <2>1, <2>2
  <2> QED BY <2>1, <2>3
<1>10. CachesTyped'
  BY <1>0, <1>6, <1>8, <1>9 DEF CacheInv, CachesTyped
<1>11. StoreTyped'
  BY SMTT(60) DEF CacheInv, StoreTyped, ReaderLeaves
<1>12. Listings'
  <2>1. ASSUME NEW i \in 1..Len(trees'), trees'[i].by # None
        PROVE  /\ read'[trees'[i].by].pc = "ls"
               /\ read'[trees'[i].by].tree = trees'[i].tree
               /\ KeyPaths(read'[trees'[i].by]) = trees'[i].paths
               /\ \A j \in 1..Len(trees') : trees'[j].by = trees'[i].by => j = i
    <3>1. /\ i \in 1..Len(trees) /\ trees[i].by # r /\ trees'[i].by = trees[i].by /\ trees[i].by # None
          /\ trees'[i].tree = trees[i].tree /\ trees'[i].paths = trees[i].paths
      BY <1>9, <2>1
    <3>2. trees[i].by \in Readers /\ read[trees[i].by].pc = "ls"
      BY <3>1, EntryTyped, SMTT(60) DEF CacheInv, Listings
    <3>3. read'[trees[i].by] = read[trees[i].by]
      BY <1>5, <3>1, <3>2
    <3>4. ASSUME NEW j \in 1..Len(trees'), trees'[j].by = trees'[i].by PROVE j = i
      <4>1. j \in 1..Len(trees) /\ trees[j].by = trees[i].by
        BY <1>9, <2>1, <3>1, <3>4
      <4> QED BY <3>1, <4>1 DEF CacheInv, Listings
    <3> QED BY <3>1, <3>3, <3>4 DEF CacheInv, Listings
  <2> QED BY <1>5, <2>1, ListingsNext, ZenonT(60)
<1>13. MembersHeld'
  <2> SUFFICES ASSUME Ample, NEW i \in 1..Len(trees'), trees'[i].by = None, NEW p \in trees'[i].paths
               PROVE  \E m \in 1..Len(members') :
                        /\ members'[m] = <<trees'[i].tree, p>>
                        /\ Len(members') - m < Slack(i)' * Cardinality(Paths)
    BY DEF MembersHeld, Ample
  <2>1. /\ i \in 1..Len(trees) /\ trees'[i].tree = trees[i].tree /\ p \in trees[i].paths
        /\ trees[i].by = None \/ trees[i].by = r
    BY <1>9
  <2>2. /\ Slack(i)' \in Nat /\ Slack(i)' * Cardinality(Paths) <= MemberLimit
        /\ Slack(i)' * Cardinality(Paths) \in Nat
        /\ Cardinality(Paths) <= Slack(i)' * Cardinality(Paths)
    BY <1>10, SlackFitsNext
  <2>3. CASE trees[i].by = None
    <3>1. Slack(i) + 1 = Slack(i)'
      <4>1. Cardinality(Listers) \in Nat /\ Cardinality(Readers) \in Nat
        BY Numbers
      <4> QED BY <1>5, <1>8, <1>9, <4>1 DEF Slack
    <3>2. Slack(i)' \in Int /\ Slack(i) + 1 <= Slack(i)'
      BY <2>2, <3>1
    <3>3. \E m \in 1..Len(RememberMembers(read[r].tree, S)) :
            /\ RememberMembers(read[r].tree, S)[m] = <<trees[i].tree, p>>
            /\ Len(RememberMembers(read[r].tree, S)) - m < Slack(i)' * Cardinality(Paths)
      <4> HIDE DEF S
      <4>1. CachesTyped /\ MembersHeld
        BY DEF CacheInv
      <4> DEFINE t == read[r].tree
                 room == Slack(i)'
      <4>2. t \in Trees /\ room \in Int /\ Slack(i) + 1 <= room /\ room * Cardinality(Paths) <= MemberLimit
        BY <1>1, <2>2, <3>2
      <4> HIDE DEF t, room
      <4>3. \E m \in 1..Len(RememberMembers(t, S)) :
              /\ RememberMembers(t, S)[m] = <<trees[i].tree, p>>
              /\ Len(RememberMembers(t, S)) - m < room * Cardinality(Paths)
        BY <1>1, <2>1, <2>3, <4>1, <4>2, MemberKept, ZenonT(60)
      <4> QED BY <4>3 DEF t, room
    <3> QED BY <1>0, <2>1, <3>3, SMTT(60)
  <2>4. CASE trees[i].by = r
    <3>1. trees[i].tree = read[r].tree /\ trees[i].paths = S
      BY <1>1, <2>1, <2>4 DEF CacheInv, Listings
    <3>2. PICK k \in 1..Len(members') :
            members'[k] = <<read[r].tree, p>> /\ Len(members') - k < Cardinality(S)
      BY <1>6, <1>7, <2>1, <3>1
    <3>3. Len(members') - k < Slack(i)' * Cardinality(Paths)
      <4>1. Len(members') \in Nat
        BY <1>6, SMTT(60)
      <4> HIDE DEF S
      <4> QED BY <1>7, <2>2, <3>2, <4>1, SMTT(60)
    <3> QED BY <2>1, <3>1, <3>2, <3>3
  <2> QED BY <2>1, <2>3, <2>4
<1>15. MembersKept'
  <2> SUFFICES ASSUME ~forgot', NEW i \in 1..Len(trees'), trees'[i].by = None, NEW p \in trees'[i].paths
               PROVE  \E m \in 1..Len(members') : members'[m] = <<trees'[i].tree, p>>
    BY DEF MembersKept
  <2>1. /\ i \in 1..Len(trees) /\ trees'[i].tree = trees[i].tree /\ p \in trees[i].paths
        /\ trees[i].by = None \/ trees[i].by = r
    BY <1>9
  <2>2. CASE trees[i].by = None
    <3>1. \E m \in 1..Len(members) : members[m] = <<trees[i].tree, p>>
      BY <1>6, <2>1, <2>2 DEF CacheInv, MembersKept
    <3> QED BY <1>6, <2>1, <3>1
  <2>3. CASE trees[i].by = r
    <3>1. trees[i].tree = read[r].tree /\ trees[i].paths = S
      BY <1>1, <2>1, <2>3 DEF CacheInv, Listings
    <3> HIDE DEF S
    <3> QED BY <1>6, <2>1, <3>1, ZenonT(60)
  <2> QED BY <2>1, <2>2, <2>3
<1>16. Roomy' => Roomy
  BY <1>6 DEF Roomy, Ample
<1>14. ReadsTyped' /\ GoneTold' /\ NoFalseRefusal'
  <2>1. ASSUME NEW w \in Awaiting(r)
        PROVE  /\ read'[w].pc # "idle" =>
                    read'[w].tree \in Trees /\ (read'[w].kind = "blob" => read'[w].path \in Paths)
               /\ read'[w].pc \in {"bytes", "revalidate"} => read'[w].kind = "blob"
               /\ read'[w].pc # "idle" /\ ~read'[w].gone =>
                    read'[w].tree \in manifests' /\ ObjectsOf(read'[w].tree) \subseteq objects' /\ repo' = "whole"
               /\ Roomy' /\ read'[w].result = "object_missing" => read'[w].gone
    <3>1. w \in Readers /\ read[w].pc # "idle" /\ read[w].tree = read[r].tree /\ KeyPaths(read[w]) = S
      BY <1>5
    <3>2. Roomy' /\ read[w].kind = "blob" => Contains(members', <<read[w].tree, read[w].path>>)
      <4>1. read[w].kind = "blob" => read[w].path \in S
        BY <3>1, KeyPathsFacts
      <4>2. Roomy' /\ read[w].kind = "blob" =>
              \E k \in 1..Len(members') : members'[k] = <<read[r].tree, read[w].path>>
        <5> SUFFICES ASSUME Roomy', read[w].kind = "blob"
                     PROVE  \E k \in 1..Len(members') : members'[k] = <<read[r].tree, read[w].path>>
          OBVIOUS
        <5>1. read[w].path \in S
          BY <4>1
        <5> HIDE DEF S
        <5>2. CASE Ample
          BY <1>6, <1>7, <5>1, <5>2, SMTT(60)
        <5>3. CASE ~forgot'
          BY <1>6, <5>1, <5>3, Zenon
        <5> QED BY <5>2, <5>3 DEF Roomy, Ample
      <4> QED BY <3>1, <4>2 DEF Contains
    <3>3. CASE read'[w].pc = "idle"
      BY <1>3, <3>2, <3>3, SMTT(60)
    <3>4. CASE read'[w].pc # "idle"
      <4>1. /\ read[w].tree \in Trees /\ (read[w].kind = "blob" => read[w].path \in Paths)
            /\ ~read[w].gone => read[w].tree \in manifests /\ ObjectsOf(read[w].tree) \subseteq objects /\ repo = "whole"
            /\ Roomy /\ read[w].result = "object_missing" => read[w].gone
        BY <3>1, ReadsNow
      <4>2. /\ read'[w].kind = read[w].kind /\ read'[w].tree = read[w].tree
            /\ read'[w].path = read[w].path /\ read'[w].result = read[w].result
            /\ read'[w].gone = read[w].gone /\ read'[w].pc \in {"objects", "bytes"}
            /\ read'[w].pc = "bytes" => read[w].kind = "blob"
        BY <1>3, <3>4, ZenonT(60)
      <4>3. manifests' = manifests /\ objects' = objects /\ repo' = repo
        BY DEF ReaderLeaves
      <4> QED BY <1>16, <4>1, <4>2, <4>3
    <3> QED BY <3>3, <3>4
  <2>2. ASSUME NEW w \in Readers, w \notin Awaiting(r)
        PROVE  /\ read'[w].pc # "idle" =>
                    read'[w].tree \in Trees /\ (read'[w].kind = "blob" => read'[w].path \in Paths)
               /\ read'[w].pc \in {"bytes", "revalidate"} => read'[w].kind = "blob"
               /\ read'[w].pc # "idle" /\ ~read'[w].gone =>
                    read'[w].tree \in manifests' /\ ObjectsOf(read'[w].tree) \subseteq objects' /\ repo' = "whole"
               /\ Roomy' /\ read'[w].result = "object_missing" => read'[w].gone
    BY <1>2, <1>16, <2>2, ReadsNow DEF ReaderLeaves
  <2>3. read' \in [Readers -> Calls]
    <3>1. \A w \in Readers : read'[w] \in Calls
      BY <1>2, <1>3, ReadsNow
    <3>2. read' = [w \in Readers |-> read'[w]]
      OBVIOUS
    <3> QED BY <3>1, <3>2
  <2> QED BY <2>1, <2>2, <2>3, ReadsNext
<1> QED BY <1>10, <1>11, <1>12, <1>13, <1>14, <1>15 DEF CacheInv

\* The entry the listing of r has in the cache, if it was not evicted, leaves it.
LEMMA EntryLeaves ==
  ASSUME CacheInv, NEW r \in Readers, r # None,
         trees' = Without(trees, {e \in Range(trees) : e.by = r})
  PROVE  \E x \in 1..(Len(trees) + 1) :
           /\ trees' \in Seq(CacheEntries)
           /\ Len(trees') = IF x \in 1..Len(trees) THEN Len(trees) - 1 ELSE Len(trees)
           /\ \A k \in 1..Len(trees') : trees'[k] = IF k < x THEN trees[k] ELSE trees[k + 1]
           /\ \A i \in 1..Len(trees) : trees[i].by = r <=> i = x
<1> DEFINE mine == {e \in Range(trees) : e.by = r}
<1>1. trees \in Seq(CacheEntries) /\ Len(trees) \in Nat /\ DOMAIN trees = 1..Len(trees)
  BY DEF CacheInv, CachesTyped
<1>2. \A i \in 1..Len(trees) : trees[i] \in mine <=> trees[i].by = r
  BY <1>1 DEF Range
<1>3. \E x \in 1..(Len(trees) + 1) : \A i \in 1..Len(trees) : trees[i].by = r <=> i = x
  <2>1. CASE \E i \in 1..Len(trees) : trees[i].by = r
    <3>1. PICK x \in 1..Len(trees) : trees[x].by = r
      BY <2>1
    <3>2. \A i \in 1..Len(trees) : trees[i].by = r <=> i = x
      BY <3>1 DEF CacheInv, Listings
    <3>3. x \in 1..(Len(trees) + 1)
      BY <1>1
    <3> QED BY <3>2, <3>3
  <2>2. CASE \A i \in 1..Len(trees) : trees[i].by # r
    <3>1. Len(trees) + 1 \in 1..(Len(trees) + 1) /\ \A i \in 1..Len(trees) : i # Len(trees) + 1
      BY <1>1
    <3> QED BY <2>2, <3>1
  <2> QED BY <2>1, <2>2
<1>4. PICK x \in 1..(Len(trees) + 1) : \A i \in 1..Len(trees) : trees[i].by = r <=> i = x
  BY <1>3
<1>5. \A i \in 1..Len(trees) : trees[i] \in mine <=> i = x
  BY <1>2, <1>4
<1>6. trees' = Without(trees, mine)
  OBVIOUS
<1> HIDE DEF mine
<1>7. /\ trees' \in Seq(CacheEntries)
      /\ Len(trees') = IF x \in 1..Len(trees) THEN Len(trees) - 1 ELSE Len(trees)
      /\ \A k \in 1..Len(trees') : trees'[k] = IF k < x THEN trees[k] ELSE trees[k + 1]
  <2>1. trees \in Seq(CacheEntries)
    BY <1>1
  <2>2. LeftOut(CacheEntries, trees, x, Without(trees, mine))
    BY <1>5, <2>1, WithoutOne
  <2> QED BY <1>6, <2>2 DEF LeftOut
<1> QED BY <1>4, <1>7

\* git ls-tree fails, for the tree is not there: everyone who waited is refused.
LEMMA ListingFailedKeeps ==
  ASSUME ObjectsAssumption, CacheInv, NEW r \in Readers, read[r].pc = "ls", ReaderLeaves,
         UNCHANGED <<members, forgot, blobs>>, repo # "whole" \/ read[r].tree \notin objects,
         trees' = Without(trees, {e \in Range(trees) : e.by = r}),
         read' = [w \in Readers |-> IF w \notin Awaiting(r) THEN read[w]
                                    ELSE Finish(read[w], "object_missing")]
  PROVE  CacheInv'
<1>1. r # None
  BY DEF ObjectsAssumption
<1>2. PICK x \in 1..(Len(trees) + 1) :
        /\ trees' \in Seq(CacheEntries)
        /\ Len(trees') = IF x \in 1..Len(trees) THEN Len(trees) - 1 ELSE Len(trees)
        /\ \A k \in 1..Len(trees') : trees'[k] = IF k < x THEN trees[k] ELSE trees[k + 1]
        /\ \A i \in 1..Len(trees) : trees[i].by = r <=> i = x
  BY <1>1, EntryLeaves
<1>3. /\ Len(trees) \in Nat /\ Len(trees) <= TreeLimit /\ TreeLimit \in Nat
      /\ Len(trees') \in Nat /\ Len(trees') <= Len(trees)
  BY <1>2 DEF CacheInv, CachesTyped, ObjectsAssumption
<1> DEFINE was(k) == IF k < x THEN k ELSE k + 1
<1>4. ASSUME NEW k \in 1..Len(trees')
      PROVE  was(k) \in 1..Len(trees) /\ trees'[k] = trees[was(k)] /\ trees[was(k)].by # r
  <2>1. was(k) \in 1..Len(trees) /\ was(k) # x
    BY <1>2, <1>3
  <2> QED BY <1>2, <2>1
<1>5. \A k, j \in 1..Len(trees') : was(k) = was(j) => k = j
  BY <1>2, <1>3
<1>6. ASSUME NEW w \in Readers
      PROVE  IF w \in Awaiting(r)
             THEN /\ read'[w] \in Calls /\ read'[w].pc = "idle"
                  /\ read'[w].gone = read[w].gone /\ read'[w].result = "object_missing"
             ELSE read'[w] = read[w]
  <2>1. CASE w \in Awaiting(r)
    <3>1. read'[w] = Finish(read[w], "object_missing")
      BY <2>1
    <3> QED BY <2>1, <3>1, ReadsNow, Finished
  <2>2. CASE w \notin Awaiting(r)
    BY <2>2
  <2> QED BY <2>1, <2>2
<1>7. \A w \in Readers : IF w \in Awaiting(r) THEN read'[w].pc \notin {"ls", "wait"}
                         ELSE read'[w] = read[w]
  BY <1>6, SMTT(60)
<1>8. /\ \A w \in Awaiting(r) : /\ w \in Readers /\ read[w].pc # "idle"
                                /\ read[w].tree = read[r].tree
                                /\ KeyPaths(read[w]) = KeyPaths(read[r])
      /\ \A w \in Readers : w # r /\ read[w].pc = "ls" => read'[w] = read[w]
      /\ \A w \in Readers :
           /\ read'[w].pc = "ls" => read'[w].on = w
           /\ read'[w].pc = "wait" =>
                /\ read'[w].on \in Readers /\ read'[read'[w].on].pc = "ls"
                /\ read'[read'[w].on].tree = read'[w].tree
                /\ KeyPaths(read'[read'[w].on]) = KeyPaths(read'[w])
      /\ Cardinality(Listers') = Cardinality(Listers) - 1
  BY <1>7, ListingOver
<1>9. CachesTyped'
  BY <1>2, <1>3 DEF CacheInv, CachesTyped
<1>10. StoreTyped'
  BY SMTT(60) DEF CacheInv, StoreTyped, ReaderLeaves
<1> HIDE DEF was
<1>11. Listings'
  <2>1. ASSUME NEW i \in 1..Len(trees'), trees'[i].by # None
        PROVE  /\ read'[trees'[i].by].pc = "ls"
               /\ read'[trees'[i].by].tree = trees'[i].tree
               /\ KeyPaths(read'[trees'[i].by]) = trees'[i].paths
               /\ \A j \in 1..Len(trees') : trees'[j].by = trees'[i].by => j = i
    <3>1. was(i) \in 1..Len(trees) /\ trees'[i] = trees[was(i)] /\ trees[was(i)].by # r
      BY <1>4
    <3>2. trees[was(i)].by \in Readers /\ read[trees[was(i)].by].pc = "ls"
      BY <2>1, <3>1, EntryTyped, SMTT(60) DEF CacheInv, Listings
    <3>3. read'[trees[was(i)].by] = read[trees[was(i)].by]
      BY <1>8, <3>1, <3>2
    <3>4. ASSUME NEW j \in 1..Len(trees'), trees'[j].by = trees'[i].by PROVE j = i
      <4>1. was(j) \in 1..Len(trees) /\ trees'[j] = trees[was(j)]
        BY <1>4
      <4>2. was(j) = was(i)
        BY <2>1, <3>1, <3>4, <4>1 DEF CacheInv, Listings
      <4> QED BY <1>5, <4>2
    <3> QED BY <2>1, <3>1, <3>3, <3>4 DEF CacheInv, Listings
  <2> QED BY <1>8, <2>1, ListingsNext
<1>12. MembersHeld'
  <2> SUFFICES ASSUME Ample, NEW i \in 1..Len(trees'), trees'[i].by = None, NEW p \in trees'[i].paths
               PROVE  \E m \in 1..Len(members') :
                        /\ members'[m] = <<trees'[i].tree, p>>
                        /\ Len(members') - m < Slack(i)' * Cardinality(Paths)
    BY DEF MembersHeld, Ample
  <2>1. was(i) \in 1..Len(trees) /\ trees'[i] = trees[was(i)]
    BY <1>4
  <2>2. Slack(was(i)) <= Slack(i)' /\ Slack(was(i)) \in Int /\ Slack(i)' \in Int
    <3>1. Cardinality(Listers) \in Nat /\ Cardinality(Readers) \in Nat
      BY Numbers
    <3>2. was(i) \in Int /\ was(i) + Len(trees') >= i + Len(trees) - 1
      BY <1>2, <1>3 DEF was
    <3>3. Slack(i)' = 1 + Cardinality(Readers) - Cardinality(Listers') + Len(trees') - i
      BY DEF Slack
    <3>4. Cardinality(Listers') = Cardinality(Listers) - 1
      BY <1>8
    <3>5. Slack(was(i)) = 1 + Cardinality(Readers) - Cardinality(Listers) + Len(trees) - was(i)
      BY DEF Slack
    <3>6. i \in Int
      OBVIOUS
    <3> QED BY <1>3, <3>1, <3>2, <3>3, <3>4, <3>5, <3>6, SMTT(60)
  <2>3. PICK m \in 1..Len(members) :
          /\ members[m] = <<trees[was(i)].tree, p>>
          /\ Len(members) - m < Slack(was(i)) * Cardinality(Paths)
    BY <2>1 DEF CacheInv, MembersHeld
  <2>4. /\ Slack(was(i)) * Cardinality(Paths) <= Slack(i)' * Cardinality(Paths)
        /\ Slack(was(i)) * Cardinality(Paths) \in Int /\ Slack(i)' * Cardinality(Paths) \in Int
    <3> DEFINE c == Cardinality(Paths)
               low == Slack(was(i))
               high == Slack(i)'
    <3>1. c \in Nat /\ low \in Int /\ high \in Int /\ low <= high /\ low <= low /\ high <= high
      BY <2>2, Numbers, SMTT(60)
    <3> HIDE DEF c, low, high
    <3>2. low * c <= high * c
      BY <3>1, Times, Zenon
    <3>3. low * c \in Int
      BY <3>1, Times, Zenon
    <3>4. high * c \in Int
      BY <3>1, Times, Zenon
    <3> QED BY <3>2, <3>3, <3>4 DEF c, low, high
  <2>5. Len(members) - m < Slack(i)' * Cardinality(Paths)
    <3>1. Len(members) \in Nat
      BY DEF CacheInv, CachesTyped
    <3> QED BY <2>3, <2>4, <3>1
  <2> QED BY <2>1, <2>3, <2>5
<1>14. MembersKept'
  <2> SUFFICES ASSUME ~forgot', NEW i \in 1..Len(trees'), trees'[i].by = None, NEW p \in trees'[i].paths
               PROVE  \E m \in 1..Len(members') : members'[m] = <<trees'[i].tree, p>>
    BY DEF MembersKept
  <2>1. was(i) \in 1..Len(trees) /\ trees'[i] = trees[was(i)]
    BY <1>4
  <2>2. \E m \in 1..Len(members) : members[m] = <<trees[was(i)].tree, p>>
    BY <2>1 DEF CacheInv, MembersKept
  <2> QED BY <2>1, <2>2
<1>13. ReadsTyped' /\ GoneTold' /\ NoFalseRefusal'
  <2>1. ASSUME NEW w \in Readers
        PROVE  /\ read'[w].pc # "idle" =>
                    read'[w].tree \in Trees /\ (read'[w].kind = "blob" => read'[w].path \in Paths)
               /\ read'[w].pc \in {"bytes", "revalidate"} => read'[w].kind = "blob"
               /\ read'[w].pc # "idle" /\ ~read'[w].gone =>
                    read'[w].tree \in manifests' /\ ObjectsOf(read'[w].tree) \subseteq objects' /\ repo' = "whole"
               /\ Roomy' /\ read'[w].result = "object_missing" => read'[w].gone
    <3>1. CASE w \in Awaiting(r)
      <4>1. read[w].pc # "idle" /\ read[w].tree = read[r].tree
        BY <1>8, <3>1
      <4>2. ~read[w].gone => ObjectsOf(read[w].tree) \subseteq objects /\ repo = "whole"
        BY <4>1, ReadsNow
      <4>3. read[w].gone
        BY <4>1, <4>2 DEF ObjectsOf
      <4> QED BY <1>6, <3>1, <4>3, SMTT(60)
    <3>2. CASE w \notin Awaiting(r)
      <4>1. read'[w] = read[w]
        BY <1>6, <3>2
      <4> QED BY <4>1, ReadsNow DEF ReaderLeaves, Roomy, Ample
    <3> QED BY <3>1, <3>2
  <2>2. read' \in [Readers -> Calls]
    <3>1. \A w \in Readers : read'[w] \in Calls
      BY <1>6, ReadsNow
    <3>2. read' = [w \in Readers |-> read'[w]]
      OBVIOUS
    <3> QED BY <3>1, <3>2
  <2> QED BY <2>1, <2>2, ReadsNext
<1> QED BY <1>9, <1>10, <1>11, <1>12, <1>13, <1>14 DEF CacheInv

\* The end of git ls-tree keeps the invariant, whether it answered or failed.
LEMMA LsTreeKeeps ==
  ASSUME ObjectsAssumption, CacheInv, NEW r \in Readers, lsTree(r)
  PROVE  CacheInv'
<1> DEFINE mine == {e \in Range(trees) : e.by = r}
<1>1. read[r].pc = "ls" /\ blobs' = blobs
  BY DEF lsTree
<1>2. ReaderLeaves
  BY DEF lsTree, store, leafCache, ReaderLeaves, CacheInv, StoreTyped
<1>3. CASE repo = "whole" /\ read[r].tree \in objects
  <2>1. /\ trees' = [i \in DOMAIN trees |->
                       IF trees[i] \in mine THEN [trees[i] EXCEPT !.by = None] ELSE trees[i]]
        /\ Remembering(read[r].tree, KeyPaths(read[r]))
        /\ read' = [w \in Readers |-> IF w \notin Awaiting(r) THEN read[w] ELSE Entered(read[w], members')]
    BY <1>3 DEF lsTree
  <2>2. \A i \in DOMAIN trees : trees[i] \in mine <=> trees[i].by = r
    BY DEF Range
  <2>3. trees' = [i \in DOMAIN trees |->
                    IF trees[i].by = r THEN [trees[i] EXCEPT !.by = None] ELSE trees[i]]
    BY <2>1, <2>2
  <2> QED BY <1>1, <1>2, <2>1, <2>3, ListedKeeps
<1>4. CASE ~(repo = "whole" /\ read[r].tree \in objects)
  <2>1. /\ trees' = Without(trees, mine) /\ members' = members /\ forgot' = forgot
        /\ read' = [w \in Readers |-> IF w \notin Awaiting(r) THEN read[w]
                                      ELSE Finish(read[w], "object_missing")]
    BY <1>4 DEF lsTree, membership
  <2> QED BY <1>1, <1>2, <1>4, <2>1, ListingFailedKeeps
<1> QED BY <1>3, <1>4

\* The caches of one process keep their shape under every interleaving of its
\* calls with captures, collections and restarts (readTreeEntries
\* and rememberBlobBytes of snapshot-store.ts).
LEMMA CacheInvAlways == Spec => []CacheInv
<1> USE ObjectsAssumption
<1>1. Init => CacheInv
  <2> SUFFICES ASSUME Init PROVE CacheInv
    OBVIOUS
  <2>1. NoRead \in Calls /\ NoRead.pc = "idle" /\ NoRead.result = "none"
    BY DEF NoRead, Calls
  <2>2. /\ read = [r \in Readers |-> NoRead] /\ trees = <<>> /\ members = <<>> /\ blobs = <<>> /\ forgot = FALSE
    BY DEF Init
  <2>3. StoreTyped
    BY DEF Init, StoreTyped
  <2>4. CachesTyped
    <3>1. forgot \in BOOLEAN
      BY <2>2, Zenon
    <3> QED BY <2>2, <3>1 DEF CachesTyped, ObjectsAssumption
  <2>5. \A r \in Readers : read[r] \in Calls /\ read[r].pc = "idle" /\ read[r].result = "none"
    BY <2>1, <2>2
  <2>6. read \in [Readers -> Calls]
    BY <2>1, <2>2
  <2>7. ReadsTyped /\ GoneTold /\ NoFalseRefusal
    BY <2>5, <2>6 DEF ReadsTyped, GoneTold, NoFalseRefusal, NeverFalselyRefused, InProgress
  <2>8. \A i \in 1..Len(trees) : FALSE
    BY <2>2
  <2>9. Listings /\ MembersHeld /\ MembersKept
    BY <2>5, <2>8 DEF Listings, MembersHeld, MembersKept
  <2> QED BY <2>3, <2>4, <2>7, <2>9 DEF CacheInv
<1>2. CacheInv /\ [Next]_vars => CacheInv'
  <2> SUFFICES ASSUME CacheInv, [Next]_vars PROVE CacheInv'
    OBVIOUS
  <2>1. CASE (\E p \in Paths, b \in Blobs : EditFile(p, b)) \/ StoreNext
    BY <2>1, StoreStepKeeps
  <2>2. ASSUME NEW r \in Readers, ReaderNext(r) PROVE CacheInv'
    BY <2>2, BeginReadKeeps, LoadManifestKeeps, ReadTreeEntriesKeeps, LsTreeKeeps, CatBlobKeeps,
       RevalidateKeeps, AssertCompleteKeeps DEF ReaderNext
  <2>3. CASE UNCHANGED vars
    <3>1. UNCHANGED <<file, objects, repo, manifests, sweep, damaged, pins, leafDisk, leafMem, located, trees, members, forgot, blobs, read>>
      BY <2>3 DEF vars
    <3>2. StoreTyped' /\ CachesTyped'
      BY <3>1 DEF CacheInv, StoreTyped, CachesTyped
    <3>3. Listings' /\ MembersHeld' /\ MembersKept'
      BY <3>1, CachesUntouched
    <3>4. read' \in [Readers -> Calls]
      BY <3>1 DEF CacheInv, ReadsTyped
    <3>5. ReadsTyped' /\ GoneTold' /\ NoFalseRefusal'
      BY <3>1, <3>4, ReadsNow, ReadsNext DEF Roomy, Ample
    <3> QED BY <3>2, <3>3, <3>5 DEF CacheInv
  <2> QED BY <2>1, <2>2, <2>3 DEF Next
<1> QED BY <1>1, <1>2, PTL DEF Spec

\* Whatever order of captures, reads, collections and restarts, the caches keep
\* to their limits and name only trees of the store, and a pending entry belongs
\* to the call that runs git ls-tree for it (TREE_CACHE_LIMIT,
\* TREE_BLOB_MEMBERSHIP_LIMIT and BLOB_CACHE_MAX_BYTES of snapshot-store.ts).
THEOREM ObjectsTypedAlways == Spec => []ObjectsTypeOK
BY CacheInvAlways, TypedAsClaimed, PTL

\* As long as the membership map dropped nothing, however many paths there are, and
\* for good when it has room for the members of what is cached and being listed, no
\* call is told that an object is missing while it is there, whatever is captured,
\* collected, read by others and evicted meanwhile; for every number of concurrent
\* calls (readBlobOperation, assertComplete and readTreeEntries of
\* snapshot-store.ts).
THEOREM NoFalseRefusalAlways == Spec => []NoFalseRefusal
<1>1. CacheInv => NoFalseRefusal
  BY DEF CacheInv
<1> QED BY <1>1, CacheInvAlways, PTL
=============================================================================
