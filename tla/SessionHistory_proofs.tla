------------------------ MODULE SessionHistory_proofs ------------------------
(***************************************************************************)
(* The safety properties of SessionHistory, for any paths, contents,       *)
(* bounds and numbers of disturbances. Four invariants, each of the last   *)
(* three on top of those before it. A compensation, a navigation or a      *)
(* restart can put the leaf on any entry, so they speak of the whole file. *)
(*                                                                         *)
(* HistInv, for HistoryTypeOK and RebuildNeverFails:                       *)
(*   FileInv    every checkpoint is trusted where it stands, no run is     *)
(*              recorded twice, and every cursor is answered by entries    *)
(*              before it: the run at its head and each run on its redo    *)
(*              stack have a checkpoint, and each prefix of that stack was *)
(*              left by an undo (the cursor itself, if it is one), whose   *)
(*              rollback manifest covers what the run changed.             *)
(*   StackInv   what the controller holds is what the file answers for:    *)
(*              the runs of both stacks are recorded, and each prefix of   *)
(*              the redo stack was left by an undo, so that the cursor the *)
(*              next operation appends is answered.                        *)
(*   RunInv     the run that goes on has its start entry and its prompt on *)
(*              the branch of the leaf and no checkpoint yet, so that the  *)
(*              one it settles with is trusted and new.                    *)
(*                                                                         *)
(* FollowInv, of every session: a recorded run goes on at the end of the   *)
(* file, each undo that left the redo stack recorded the manifest that is  *)
(* on it, and the leaf is the last entry until an operation is declined.   *)
(*                                                                         *)
(* CalmInv, for WorkspaceMatchesLeaf and StacksMeetAtLeaf: while nobody    *)
(* disturbs the session, no two runs say different things of the workspace *)
(* at one logical leaf, every cursor restored what was at the leaf it      *)
(* names, the stacks meet at the leaf, the workspace is what it was there. *)
(*                                                                         *)
(* KeepInv, for RestartKeepsTop: a controller made at the end of the file  *)
(* resumes the redo stack and the run on top of the undo stack.            *)
(*                                                                         *)
(* The proofs are about a file es and the file with one more entry; an     *)
(* append changes no branch there was (UpAppend).                          *)
(***************************************************************************)
EXTENDS SessionHistory, FiniteSetTheorems, SequenceTheorems, WellFoundedInduction, TLAPS

\* A nonempty set of numbers has a least one.
LEMMA LeastNumber ==
  ASSUME NEW S \in SUBSET Nat, S /= {}
  PROVE  \E x \in S : \A y \in S : x <= y
<1>1. \E x \in S : \A y \in S : ~(<<y, x>> \in OpToRel(<, Nat))
  BY NatLessThanWellFounded, WFMin
<1>2. PICK x \in S : \A y \in S : ~(<<y, x>> \in OpToRel(<, Nat))
  BY <1>1
<1>3. \A y \in S : x <= y
  <2> SUFFICES ASSUME NEW y \in S, ~(x <= y) PROVE FALSE
    OBVIOUS
  <2>1. x \in Nat /\ y \in Nat /\ y < x
    OBVIOUS
  <2>2. <<y, x>> \in {ss \in Nat \X Nat : ss[1] < ss[2]}
    BY <2>1
  <2>3. <<y, x>> \in OpToRel(<, Nat)
    BY <2>2 DEF OpToRel
  <2> QED BY <1>2, <2>3
<1> QED BY <1>3

-----------------------------------------------------------------------------
(* Branches of a file es, of which the first n entries count.              *)

Ordered(es, n) == \A i \in 1..n : es[i].parent \in 0..(i - 1)

Up(es, l) ==
  LET up[i \in 0..l] == IF i = 0 THEN {} ELSE {i} \cup up[es[i].parent]
  IN  up[l]

Climb(es, f, i) == IF i = 0 THEN {} ELSE {i} \cup f[es[i].parent]
Climbs(es, f, l) == f = [i \in 0..l |-> Climb(es, f, i)]

\* The recursion by which a branch is climbed has a solution, since parents come first.
LEMMA ClimbExists ==
  ASSUME NEW es, NEW n \in Nat, Ordered(es, n)
  PROVE  \E f : Climbs(es, f, n)
<1> DEFINE Bad == {m \in 0..n : ~\E f : Climbs(es, f, m)}
<1>1. Bad = {}
  <2> SUFFICES ASSUME Bad /= {} PROVE FALSE
    OBVIOUS
  <2>1. PICK m \in Bad : \A k \in Bad : m <= k
    <3>1. Bad \in SUBSET Nat
      OBVIOUS
    <3> HIDE DEF Bad
    <3> QED BY <3>1, LeastNumber
  <2>2. m \in 0..n /\ ~\E f : Climbs(es, f, m)
    BY <2>1
  <2>3. m /= 0
    <3> DEFINE f == [i \in 0..0 |-> {}]
    <3>1. Climbs(es, f, 0)
      BY DEF Climbs, Climb
    <3> HIDE DEF f
    <3> QED BY <2>2, <3>1
  <2>4. m \in 1..n /\ m - 1 \in 0..n /\ ~(m <= m - 1)
    BY <2>2, <2>3
  <2>5. PICK g : Climbs(es, g, m - 1)
    BY <2>1, <2>4
  <2> DEFINE h == [i \in 0..m |-> IF i = m THEN Climb(es, g, m) ELSE g[i]]
  <2>6. \A i \in 0..m : h[i] = Climb(es, h, i)
    <3> SUFFICES ASSUME NEW i \in 0..m PROVE h[i] = Climb(es, h, i)
      OBVIOUS
    <3>1. i /= 0 => es[i].parent \in 0..(m - 1) /\ es[i].parent /= m
      BY <2>2, <2>4 DEF Ordered
    <3>2. i /= 0 => h[es[i].parent] = g[es[i].parent]
      BY <2>4, <3>1
    <3>3. CASE i = m
      BY <2>3, <3>2, <3>3 DEF Climb
    <3>4. CASE i /= m
      <4>1. h[i] = g[i] /\ i \in 0..(m - 1)
        BY <2>4, <3>4
      <4>2. g[i] = Climb(es, g, i)
        BY <2>5, <4>1 DEF Climbs
      <4> QED BY <3>2, <4>1, <4>2 DEF Climb
    <3> QED BY <3>3, <3>4
  <2>7. Climbs(es, h, m)
    BY <2>6 DEF Climbs
  <2> HIDE DEF h
  <2> QED BY <2>2, <2>7
<1>2. n \in 0..n
  OBVIOUS
<1> QED BY <1>1, <1>2

\* Two solutions agree wherever both are defined.
LEMMA ClimbUnique ==
  ASSUME NEW es, NEW es2, NEW n \in Nat, Ordered(es, n), \A i \in 1..n : es2[i] = es[i],
         NEW m \in 0..n, NEW l \in 0..m,
         NEW f, Climbs(es, f, l), NEW g, Climbs(es2, g, m)
  PROVE  \A i \in 0..l : f[i] = g[i]
<1> DEFINE Bad == {i \in 0..l : f[i] /= g[i]}
<1>1. Bad = {}
  <2> SUFFICES ASSUME Bad /= {} PROVE FALSE
    OBVIOUS
  <2>1. PICK k \in Bad : \A j \in Bad : k <= j
    <3>1. Bad \in SUBSET Nat
      OBVIOUS
    <3> HIDE DEF Bad
    <3> QED BY <3>1, LeastNumber
  <2>2. k \in 0..l /\ k \in 0..m /\ f[k] /= g[k]
    BY <2>1
  <2>3. f[k] = Climb(es, f, k) /\ g[k] = Climb(es2, g, k)
    BY <2>2 DEF Climbs
  <2>4. k /= 0
    BY <2>2, <2>3 DEF Climb
  <2>5. k \in 1..n /\ es2[k] = es[k]
    BY <2>2, <2>4
  <2> DEFINE p == es[k].parent
  <2>6. p \in 0..l /\ ~(k <= p)
    BY <2>2, <2>5 DEF Ordered
  <2>7. f[p] = g[p]
    BY <2>1, <2>6
  <2> QED BY <2>2, <2>3, <2>4, <2>5, <2>7 DEF Climb
<1> QED BY <1>1

\* A branch is what any solution of the recursion gives.
LEMMA UpClimbs ==
  ASSUME NEW es, NEW n \in Nat, Ordered(es, n)
  PROVE  \E f : Climbs(es, f, n) /\ Up(es, n) = f[n]
<1> DEFINE f == CHOOSE f : f = [i \in 0..n |-> IF i = 0 THEN {} ELSE {i} \cup f[es[i].parent]]
<1>1. f = [i \in 0..n |-> IF i = 0 THEN {} ELSE {i} \cup f[es[i].parent]]
  <2>1. \E g : g = [i \in 0..n |-> IF i = 0 THEN {} ELSE {i} \cup g[es[i].parent]]
    BY ClimbExists DEF Climbs, Climb
  <2> QED BY <2>1
<1>2. Up(es, n) = f[n]
  BY DEF Up
<1> HIDE DEF f
<1>3. Climbs(es, f, n)
  BY <1>1 DEF Climbs, Climb
<1> QED BY <1>2, <1>3

\* What is ordered is ordered up to any earlier entry.
LEMMA OrderedPrefix ==
  ASSUME NEW es, NEW n \in Nat, Ordered(es, n), NEW m \in 0..n
  PROVE  Ordered(es, m)
BY DEF Ordered

\* A branch is its last entry and the branch of the parent.
LEMMA UpSteps ==
  ASSUME NEW es, NEW n \in Nat, Ordered(es, n), NEW l \in 0..n
  PROVE  Up(es, l) = IF l = 0 THEN {} ELSE {l} \cup Up(es, es[l].parent)
<1>1. PICK f : Climbs(es, f, l) /\ Up(es, l) = f[l]
  BY OrderedPrefix, UpClimbs
<1>2. f[l] = Climb(es, f, l)
  BY <1>1 DEF Climbs
<1>3. CASE l = 0
  BY <1>1, <1>2, <1>3 DEF Climb
<1>4. CASE l /= 0
  <2> DEFINE p == es[l].parent
  <2>1. p \in 0..l /\ p \in 0..n
    BY <1>4 DEF Ordered
  <2> HIDE DEF p
  <2>2. PICK g : Climbs(es, g, p) /\ Up(es, p) = g[p]
    BY <2>1, OrderedPrefix, UpClimbs
  <2>3. \A i \in 0..p : g[i] = f[i]
    BY <1>1, <2>1, <2>2, ClimbUnique
  <2>4. f[p] = Up(es, p)
    BY <2>1, <2>2, <2>3
  <2> QED BY <1>1, <1>2, <1>4, <2>4 DEF Climb, p
<1> QED BY <1>3, <1>4

\* An append changes no branch there was.
LEMMA UpAppend ==
  ASSUME NEW es, NEW es2, NEW n \in Nat, Ordered(es, n), \A i \in 1..n : es2[i] = es[i],
         NEW l \in 0..n
  PROVE  Up(es2, l) = Up(es, l)
<1>0. Ordered(es2, n)
  BY DEF Ordered
<1>1. PICK f : Climbs(es, f, l) /\ Up(es, l) = f[l]
  BY OrderedPrefix, UpClimbs
<1>2. PICK g : Climbs(es2, g, l) /\ Up(es2, l) = g[l]
  BY <1>0, OrderedPrefix, UpClimbs
<1>3. f[l] = g[l]
  BY <1>1, <1>2, ClimbUnique
<1> QED BY <1>1, <1>2, <1>3

\* A branch holds earlier entries, its last entry, and the branch of each of its entries.
LEMMA UpFacts ==
  ASSUME NEW es, NEW n \in Nat, Ordered(es, n), NEW l \in 0..n
  PROVE  /\ Up(es, l) \subseteq 1..l
         /\ l /= 0 => l \in Up(es, l)
         /\ \A i \in Up(es, l) : Up(es, i) = Up(es, l) \cap 1..i
<1> DEFINE P(k) == /\ Up(es, k) \subseteq 1..k
                   /\ \A i \in Up(es, k) : Up(es, i) = Up(es, k) \cap 1..i
           Bad == {k \in 0..n : ~P(k)}
<1>1. Bad = {}
  <2> SUFFICES ASSUME Bad /= {} PROVE FALSE
    OBVIOUS
  <2>1. PICK k \in Bad : \A j \in Bad : k <= j
    <3>1. Bad \in SUBSET Nat
      OBVIOUS
    <3> HIDE DEF Bad
    <3> QED BY <3>1, LeastNumber
  <2>2. k \in 0..n /\ ~P(k)
    BY <2>1
  <2>3. k /= 0
    BY <2>2, UpSteps
  <2> DEFINE p == es[k].parent
  <2>4. k \in 1..n /\ p \in 0..(k - 1) /\ p \in 0..n /\ ~(k <= p)
    BY <2>2, <2>3 DEF Ordered
  <2>5. P(p)
    BY <2>1, <2>4
  <2>6. Up(es, k) = {k} \cup Up(es, p)
    BY <2>2, <2>3, UpSteps
  <2> HIDE DEF p
  <2>7. Up(es, k) \subseteq 1..k
    BY <2>4, <2>5, <2>6
  <2>8. \A i \in Up(es, k) : Up(es, i) = Up(es, k) \cap 1..i
    <3> SUFFICES ASSUME NEW i \in Up(es, k) PROVE Up(es, i) = Up(es, k) \cap 1..i
      OBVIOUS
    <3>1. CASE i = k
      BY <2>7, <3>1
    <3>2. CASE i \in Up(es, p)
      <4>1. i \in 1..p /\ k \notin 1..i
        BY <2>4, <2>5, <3>2
      <4> QED BY <2>5, <2>6, <3>2, <4>1
    <3> QED BY <2>6, <3>1, <3>2
  <2> QED BY <2>2, <2>7, <2>8
<1>2. P(l)
  BY <1>1
<1>3. l /= 0 => l \in Up(es, l)
  BY UpSteps
<1> QED BY <1>2, <1>3

\* The extremes of a set of numbers.
LEMMA SmallestIs ==
  ASSUME NEW S \in SUBSET Nat, S /= {}
  PROVE  Smallest(S) \in S /\ \A x \in S : Smallest(S) <= x
<1>1. \E x \in S : \A y \in S : x <= y
  BY LeastNumber
<1> QED BY <1>1 DEF Smallest

\* The largest number of a bounded set is in it and bounds it.
LEMMA LargestIs ==
  ASSUME NEW n \in Nat, NEW S \in SUBSET (0..n), S /= {}
  PROVE  Largest(S) \in S /\ \A x \in S : x <= Largest(S)
<1> DEFINE T == {n - x : x \in S}
<1>1. T \in SUBSET Nat /\ T /= {}
  <2>1. \A x \in S : n - x \in Nat
    OBVIOUS
  <2> QED BY <2>1
<1>2. PICK y \in T : \A z \in T : y <= z
  <2> HIDE DEF T
  <2> QED BY <1>1, LeastNumber
<1>3. PICK m \in S : y = n - m
  BY <1>2
<1>4. \A x \in S : x <= m
  <2> SUFFICES ASSUME NEW x \in S PROVE x <= m
    OBVIOUS
  <2>1. n - m <= n - x
    BY <1>2, <1>3
  <2> QED BY <2>1
<1>5. \E x \in S : \A z \in S : z <= x
  BY <1>4
<1> QED BY <1>5 DEF Largest

(* The logical leaf and the trust in a checkpoint, in a file es.           *)
LogicalIn(es, l) == Largest({0} \cup {i \in Up(es, l) : es[i].kind \in Messages})

TrustedIn(es, i) ==
  LET c == es[i].record
  IN  /\ {c.start, c.user, c.end} \subseteq Up(es, i)
      /\ c.start < c.user /\ c.user <= c.end /\ c.end < i
      /\ es[c.start].kind = "start"
      /\ es[c.user].kind = "user" /\ es[c.user].parent = c.start
      /\ es[c.end].kind \in Messages
      /\ LogicalIn(es, es[i].parent) = c.end

\* The logical leaf is null or a message of the branch.
LEMMA LogicalFacts ==
  ASSUME NEW es, NEW n \in Nat, Ordered(es, n), NEW l \in 0..n
  PROVE  /\ LogicalIn(es, l) \in {0} \cup Up(es, l) /\ LogicalIn(es, l) \in 0..l
         /\ LogicalIn(es, l) /= 0 => es[LogicalIn(es, l)].kind \in Messages
         /\ l /= 0 /\ es[l].kind \in Messages => LogicalIn(es, l) = l
<1> DEFINE S == {0} \cup {i \in Up(es, l) : es[i].kind \in Messages}
<1>1. Up(es, l) \subseteq 1..l /\ (l /= 0 => l \in Up(es, l))
  BY UpFacts
<1>2. S \in SUBSET (0..l) /\ S /= {} /\ l \in Nat
  BY <1>1
<1>3. LogicalIn(es, l) = Largest(S)
  BY DEF LogicalIn
<1>4. Largest(S) \in S /\ \A x \in S : x <= Largest(S)
  <2> HIDE DEF S
  <2> QED BY <1>2, LargestIs
<1>5. l /= 0 /\ es[l].kind \in Messages => l \in S
  BY <1>1
<1>6. l /= 0 /\ es[l].kind \in Messages => Largest(S) = l
  <2> HIDE DEF S
  <2>1. Largest(S) \in 0..l
    BY <1>2, <1>4
  <2> DEFINE m == Largest(S)
  <2>2. l \in S => l <= m
    BY <1>4
  <2> HIDE DEF m
  <2>3. m \in 0..l => (l <= m => m = l)
    BY <1>2
  <2> QED BY <1>5, <2>1, <2>2, <2>3 DEF m
<1> QED BY <1>1, <1>2, <1>3, <1>4, <1>6

\* An append changes no logical leaf there was.
LEMMA LogicalAppend ==
  ASSUME NEW es, NEW es2, NEW n \in Nat, Ordered(es, n), \A i \in 1..n : es2[i] = es[i],
         NEW l \in 0..n
  PROVE  LogicalIn(es2, l) = LogicalIn(es, l)
<1>1. Up(es2, l) = Up(es, l) /\ Up(es, l) \subseteq 1..n
  BY UpAppend, UpFacts
<1>2. {i \in Up(es2, l) : es2[i].kind \in Messages} = {i \in Up(es, l) : es[i].kind \in Messages}
  BY <1>1
<1> QED BY <1>2 DEF LogicalIn

\* A trusted checkpoint stays trusted.
LEMMA TrustedAppend ==
  ASSUME NEW es, NEW es2, NEW n \in Nat, Ordered(es, n), \A i \in 1..n : es2[i] = es[i],
         NEW l \in 1..n, TrustedIn(es, l)
  PROVE  TrustedIn(es2, l)
<1>1. Up(es2, l) = Up(es, l) /\ Up(es, l) \subseteq 1..n /\ es2[l] = es[l]
  BY UpAppend, UpFacts
<1>2. es[l].parent \in 0..n
  BY DEF Ordered
<1>3. LogicalIn(es2, es[l].parent) = LogicalIn(es, es[l].parent)
  BY <1>2, LogicalAppend
<1> QED BY <1>1, <1>3 DEF TrustedIn

-----------------------------------------------------------------------------
(* What is in a session file.                                              *)

Full == [files : [Paths -> Contents], complete : {TRUE}]
Partial == [files : UNION {[S -> Contents] : S \in SUBSET Paths}, complete : {FALSE}]
Snaps == Full \cup Partial
Runs == [start : Nat, user : Nat, end : Nat, before : Full, after : Full]
Undone == [checkpoint : Runs, target : Snaps]

MessageEntries == [kind : Messages, parent : Nat]
StartEntries == [kind : {"start"}, parent : Nat, before : Full, source : Nat]
CheckpointEntries == [kind : {"checkpoint"}, parent : Nat, record : Runs]
CursorEntries ==
  [kind : {"cursor"}, parent : Nat, action : {"undo", "redo", "tree"}, head : Nat,
   redo : Seq(Nat), rollback : Snaps, target : Snaps, to : Nat]
BarrierEntries == [kind : {"barrier"}, parent : Nat]
EntryTypes ==
  MessageEntries \cup StartEntries \cup CheckpointEntries \cup CursorEntries \cup BarrierEntries

\* A run is logged, a run of that name is, an undo left that redo stack.
Logged(es, c) == \E i \in 1..Len(es) : es[i].kind = "checkpoint" /\ es[i].record = c
Named(es, s) == \E i \in 1..Len(es) : es[i].kind = "checkpoint" /\ es[i].record.start = s
LeftByUndo(es, ids) ==
  \E i \in 1..Len(es) : es[i].kind = "cursor" /\ es[i].action = "undo" /\ es[i].redo = ids

\* A manifest has what to write where the run changed something.
Covers(m, c) == ChangedPaths(c) \subseteq DOMAIN m.files

CursorAnswered(es, e) ==
  /\ e.head = 0 \/ Named(es, e.head)
  /\ \A k \in 1..Len(e.redo) :
       /\ Named(es, e.redo[k])
       /\ (e.action = "undo" /\ k = Len(e.redo)) \/ LeftByUndo(es, SubSeq(e.redo, 1, k))
  /\ e.action = "undo" =>
       /\ Len(e.redo) /= 0
       /\ \A i \in 1..Len(es) :
            es[i].kind = "checkpoint" /\ es[i].record.start = e.redo[Len(e.redo)] =>
              Covers(e.rollback, es[i].record)

FileTyped(es) == es \in Seq(EntryTypes) /\ Ordered(es, Len(es))
RunsTrusted(es) == \A i \in 1..Len(es) : es[i].kind = "checkpoint" => TrustedIn(es, i)
RunsNamedOnce(es) ==
  \A i, j \in 1..Len(es) :
    /\ es[i].kind = "checkpoint" /\ es[j].kind = "checkpoint"
    /\ es[i].record.start = es[j].record.start
    => i = j
CursorsAnswered(es) == \A i \in 1..Len(es) : es[i].kind = "cursor" => CursorAnswered(es, es[i])

FileInv(es) ==
  FileTyped(es) /\ RunsTrusted(es) /\ RunsNamedOnce(es) /\ CursorsAnswered(es)

\* What the kind of an entry says of its fields.
LEMMA EntryFacts ==
  ASSUME NEW e \in EntryTypes
  PROVE  /\ e.kind \in Messages \cup Control /\ e.parent \in Nat
         /\ e.kind = "start" => e \in StartEntries
         /\ e.kind = "checkpoint" => e \in CheckpointEntries
         /\ e.kind = "cursor" => e \in CursorEntries
BY DEF EntryTypes, MessageEntries, StartEntries, CheckpointEntries, CursorEntries,
       BarrierEntries, Messages, Control

\* The entries of a file with one more.
LEMMA AppendFacts ==
  ASSUME NEW es \in Seq(EntryTypes), NEW e \in EntryTypes, NEW es2, es2 = Append(es, e)
  PROVE  /\ es2 \in Seq(EntryTypes) /\ Len(es) \in Nat /\ Len(es2) = Len(es) + 1
         /\ \A i \in 1..Len(es) : i \in 1..Len(es2) /\ es2[i] = es[i]
         /\ Len(es2) \in 1..Len(es2) /\ es2[Len(es2)] = e
         /\ \A i \in 1..Len(es2) : i \in 1..Len(es) \/ i = Len(es2)
OBVIOUS

\* A file stays ordered when an entry hangs on one it has.
LEMMA OrderedAppend ==
  ASSUME NEW es, FileTyped(es), NEW e \in EntryTypes, e.parent \in 0..Len(es),
         NEW es2, es2 = Append(es, e)
  PROVE  FileTyped(es2)
<1>1. /\ es2 \in Seq(EntryTypes) /\ Len(es) \in Nat /\ Len(es2) = Len(es) + 1
      /\ \A i \in 1..Len(es) : i \in 1..Len(es2) /\ es2[i] = es[i]
      /\ Len(es2) \in 1..Len(es2) /\ es2[Len(es2)] = e
      /\ \A i \in 1..Len(es2) : i \in 1..Len(es) \/ i = Len(es2)
  BY AppendFacts DEF FileTyped
<1>2. ASSUME NEW i \in 1..Len(es2) PROVE es2[i].parent \in 0..(i - 1)
  <2>1. CASE i \in 1..Len(es)
    BY <1>1, <2>1 DEF FileTyped, Ordered
  <2>2. CASE i = Len(es2)
    BY <1>1, <2>2
  <2> QED BY <1>1, <2>1, <2>2
<1> QED BY <1>1, <1>2 DEF FileTyped, Ordered

\* What the file says once, it says for ever.
LEMMA LogAppend ==
  ASSUME NEW es \in Seq(EntryTypes), NEW e \in EntryTypes, NEW es2, es2 = Append(es, e)
  PROVE  /\ \A c : Logged(es, c) => Logged(es2, c)
         /\ \A s : Named(es, s) => Named(es2, s)
         /\ \A ids : LeftByUndo(es, ids) => LeftByUndo(es2, ids)
         /\ e.kind = "checkpoint" => Logged(es2, e.record)
         /\ e.kind = "cursor" /\ e.action = "undo" => LeftByUndo(es2, e.redo)
         /\ \A s : Named(es2, s) => Named(es, s) \/ (e.kind = "checkpoint" /\ e.record.start = s)
<1>1. /\ \A i \in 1..Len(es) : i \in 1..Len(es2) /\ es2[i] = es[i]
      /\ Len(es2) \in 1..Len(es2) /\ es2[Len(es2)] = e
      /\ \A i \in 1..Len(es2) : i \in 1..Len(es) \/ i = Len(es2)
  BY AppendFacts
<1>2. \A c : Logged(es, c) => Logged(es2, c)
  BY <1>1 DEF Logged
<1>3. \A s : Named(es, s) => Named(es2, s)
  BY <1>1 DEF Named
<1>4. \A ids : LeftByUndo(es, ids) => LeftByUndo(es2, ids)
  BY <1>1 DEF LeftByUndo
<1>5. e.kind = "checkpoint" => Logged(es2, e.record)
  BY <1>1 DEF Logged
<1>6. e.kind = "cursor" /\ e.action = "undo" => LeftByUndo(es2, e.redo)
  BY <1>1 DEF LeftByUndo
<1>7. \A s : Named(es2, s) => Named(es, s) \/ (e.kind = "checkpoint" /\ e.record.start = s)
  BY <1>1 DEF Named
<1> QED BY <1>2, <1>3, <1>4, <1>5, <1>6, <1>7

\* What answers a cursor stays in the file.
LEMMA AnsweredAppend ==
  ASSUME NEW es \in Seq(EntryTypes), NEW e \in EntryTypes, NEW es2, es2 = Append(es, e),
         NEW c \in CursorEntries, CursorAnswered(es, c),
         e.kind = "checkpoint" => ~Named(es, e.record.start)
  PROVE  CursorAnswered(es2, c)
<1>1. /\ \A i \in 1..Len(es) : i \in 1..Len(es2) /\ es2[i] = es[i]
      /\ Len(es2) \in 1..Len(es2) /\ es2[Len(es2)] = e
      /\ \A i \in 1..Len(es2) : i \in 1..Len(es) \/ i = Len(es2)
  BY AppendFacts
<1>2. /\ \A s : Named(es, s) => Named(es2, s)
      /\ \A ids : LeftByUndo(es, ids) => LeftByUndo(es2, ids)
  BY LogAppend
<1>3. c.redo \in Seq(Nat)
  BY DEF CursorEntries
<1>4. c.head = 0 \/ Named(es2, c.head)
  BY <1>2 DEF CursorAnswered
<1>5. \A k \in 1..Len(c.redo) :
         /\ Named(es2, c.redo[k])
         /\ (c.action = "undo" /\ k = Len(c.redo)) \/ LeftByUndo(es2, SubSeq(c.redo, 1, k))
  BY <1>2 DEF CursorAnswered
<1>6. ASSUME c.action = "undo"
      PROVE  /\ Len(c.redo) /= 0
             /\ \A i \in 1..Len(es2) :
                  es2[i].kind = "checkpoint" /\ es2[i].record.start = c.redo[Len(c.redo)] =>
                    Covers(c.rollback, es2[i].record)
  <2>1. Len(c.redo) /= 0
    BY <1>6 DEF CursorAnswered
  <2>2. Len(c.redo) \in 1..Len(c.redo)
    BY <1>3, <2>1
  <2>3. Named(es, c.redo[Len(c.redo)])
    BY <2>2 DEF CursorAnswered
  <2>4. ASSUME NEW i \in 1..Len(es2), es2[i].kind = "checkpoint",
               es2[i].record.start = c.redo[Len(c.redo)]
        PROVE  Covers(c.rollback, es2[i].record)
    <3>1. i \in 1..Len(es)
      BY <1>1, <2>3, <2>4
    <3> QED BY <1>1, <1>6, <2>4, <3>1 DEF CursorAnswered
  <2> QED BY <2>1, <2>4
<1> QED BY <1>4, <1>5, <1>6 DEF CursorAnswered

\* An entry that is trusted, or answered, where it is appended.
LEMMA FileAppend ==
  ASSUME NEW es, FileInv(es), NEW e \in EntryTypes, e.parent \in 0..Len(es),
         NEW es2, es2 = Append(es, e),
         e.kind = "checkpoint" => TrustedIn(es2, Len(es2)) /\ ~Named(es, e.record.start),
         e.kind = "cursor" => CursorAnswered(es, e)
  PROVE  FileInv(es2)
<1>0. es \in Seq(EntryTypes) /\ Ordered(es, Len(es)) /\ Len(es) \in Nat
  BY DEF FileInv, FileTyped
<1>1. /\ \A i \in 1..Len(es) : i \in 1..Len(es2) /\ es2[i] = es[i]
      /\ Len(es2) \in 1..Len(es2) /\ es2[Len(es2)] = e
      /\ \A i \in 1..Len(es2) : i \in 1..Len(es) \/ i = Len(es2)
  BY <1>0, AppendFacts
<1>2. FileTyped(es2)
  BY OrderedAppend DEF FileInv
<1>3. RunsTrusted(es2)
  <2> SUFFICES ASSUME NEW i \in 1..Len(es2), es2[i].kind = "checkpoint" PROVE TrustedIn(es2, i)
    BY DEF RunsTrusted
  <2>1. CASE i \in 1..Len(es)
    <3>1. TrustedIn(es, i)
      BY <1>1, <2>1 DEF FileInv, RunsTrusted
    <3>2. \A j \in 1..Len(es) : es2[j] = es[j]
      BY <1>1
    <3> QED BY <1>0, <2>1, <3>1, <3>2, TrustedAppend
  <2>2. CASE i = Len(es2)
    BY <1>1, <2>2
  <2> QED BY <1>1, <2>1, <2>2
<1>4. RunsNamedOnce(es2)
  <2> SUFFICES ASSUME NEW i \in 1..Len(es2), NEW j \in 1..Len(es2),
                      es2[i].kind = "checkpoint", es2[j].kind = "checkpoint",
                      es2[i].record.start = es2[j].record.start
               PROVE  i = j
    BY DEF RunsNamedOnce
  <2>1. CASE i \in 1..Len(es) /\ j \in 1..Len(es)
    <3>1. es2[i] = es[i] /\ es2[j] = es[j]
      BY <1>1, <2>1
    <3> QED BY <2>1, <3>1 DEF FileInv, RunsNamedOnce
  <2>2. CASE i \in 1..Len(es) /\ j = Len(es2)
    BY <1>1, <2>2 DEF Named
  <2>3. CASE i = Len(es2) /\ j \in 1..Len(es)
    BY <1>1, <2>3 DEF Named
  <2>4. CASE i = Len(es2) /\ j = Len(es2)
    BY <2>4
  <2> QED BY <1>1, <2>1, <2>2, <2>3, <2>4
<1>5. CursorsAnswered(es2)
  <2> SUFFICES ASSUME NEW i \in 1..Len(es2), es2[i].kind = "cursor"
               PROVE  CursorAnswered(es2, es2[i])
    BY DEF CursorsAnswered
  <2>1. es2[i] \in CursorEntries
    BY <1>2, EntryFacts DEF FileTyped
  <2>2. CursorAnswered(es, es2[i])
    <3>1. CASE i \in 1..Len(es)
      BY <1>1, <3>1 DEF FileInv, CursorsAnswered
    <3>2. CASE i = Len(es2)
      BY <1>1, <3>2
    <3> QED BY <1>1, <3>1, <3>2
  <2> QED BY <1>0, <2>1, <2>2, AnsweredAppend
<1> QED BY <1>2, <1>3, <1>4, <1>5 DEF FileInv

-----------------------------------------------------------------------------
(* Lists gathered from left to right: the checkpoints of a branch, and the *)
(* stack of a run that hangs on a cursor.                                  *)

Gather(f, base, picked, val, i) ==
  IF i = 0 THEN base ELSE IF i \in picked THEN Append(f[i - 1], val[i]) ELSE f[i - 1]
Gathers(f, l, base, picked, val) == f = [i \in 0..l |-> Gather(f, base, picked, val, i)]

\* The recursions that collect a list along 1..l have a solution.
LEMMA GatherExists ==
  ASSUME NEW l \in Nat, NEW base, NEW picked, NEW val
  PROVE  \E f : Gathers(f, l, base, picked, val)
<1> DEFINE Bad == {m \in 0..l : ~\E f : Gathers(f, m, base, picked, val)}
<1>1. Bad = {}
  <2> SUFFICES ASSUME Bad /= {} PROVE FALSE
    OBVIOUS
  <2>1. PICK m \in Bad : \A k \in Bad : m <= k
    <3>1. Bad \in SUBSET Nat
      OBVIOUS
    <3> HIDE DEF Bad
    <3> QED BY <3>1, LeastNumber
  <2>2. m \in 0..l /\ ~\E f : Gathers(f, m, base, picked, val)
    BY <2>1
  <2>3. m /= 0
    <3> DEFINE f == [i \in 0..0 |-> base]
    <3>1. Gathers(f, 0, base, picked, val)
      BY DEF Gathers, Gather
    <3> HIDE DEF f
    <3> QED BY <2>2, <3>1
  <2>4. m \in 1..l /\ m - 1 \in 0..l /\ ~(m <= m - 1)
    BY <2>2, <2>3
  <2>5. PICK g : Gathers(g, m - 1, base, picked, val)
    BY <2>1, <2>4
  <2> DEFINE h == [i \in 0..m |-> IF i = m THEN Gather(g, base, picked, val, m) ELSE g[i]]
  <2>6. \A i \in 0..m : h[i] = Gather(h, base, picked, val, i)
    <3> SUFFICES ASSUME NEW i \in 0..m PROVE h[i] = Gather(h, base, picked, val, i)
      OBVIOUS
    <3>1. i /= 0 => h[i - 1] = g[i - 1]
      BY <2>4
    <3>2. CASE i = m
      BY <2>3, <3>1, <3>2 DEF Gather
    <3>3. CASE i /= m
      <4>1. h[i] = g[i] /\ i \in 0..(m - 1)
        BY <2>4, <3>3
      <4>2. g[i] = Gather(g, base, picked, val, i)
        BY <2>5, <4>1 DEF Gathers
      <4> QED BY <3>1, <4>1, <4>2 DEF Gather
    <3> QED BY <3>2, <3>3
  <2>7. Gathers(h, m, base, picked, val)
    BY <2>6 DEF Gathers
  <2> HIDE DEF h
  <2> QED BY <2>2, <2>7
<1>2. l \in 0..l
  OBVIOUS
<1> QED BY <1>1, <1>2

\* What is gathered comes from the base or was picked, and all that was picked is there.
Gathered(s, T, base, picked, val) ==
  /\ s \in Seq(T)
  /\ \A k \in 1..Len(s) : \/ \E j \in 1..Len(base) : s[k] = base[j]
                          \/ \E i \in picked : s[k] = val[i]
  /\ \A i \in picked : \E k \in 1..Len(s) : s[k] = val[i]

\* Such a list holds the base and the picked values, and nothing else.
LEMMA GatherFacts ==
  ASSUME NEW l \in Nat, NEW T, NEW base \in Seq(T), NEW picked \in SUBSET (1..l), NEW val,
         \A i \in picked : val[i] \in T,
         NEW f, Gathers(f, l, base, picked, val)
  PROVE  Gathered(f[l], T, base, picked, val)
<1> DEFINE P(m) == /\ f[m] \in Seq(T)
                   /\ \A k \in 1..Len(f[m]) : \/ \E j \in 1..Len(base) : f[m][k] = base[j]
                                              \/ \E i \in picked : f[m][k] = val[i]
                   /\ \A i \in picked : i <= m => \E k \in 1..Len(f[m]) : f[m][k] = val[i]
           Bad == {m \in 0..l : ~P(m)}
<1>1. \A i \in 0..l : f[i] = Gather(f, base, picked, val, i)
  BY DEF Gathers
<1>2. Bad = {}
  <2> SUFFICES ASSUME Bad /= {} PROVE FALSE
    OBVIOUS
  <2>1. PICK m \in Bad : \A k \in Bad : m <= k
    <3>1. Bad \in SUBSET Nat
      OBVIOUS
    <3> HIDE DEF Bad
    <3> QED BY <3>1, LeastNumber
  <2>2. m \in 0..l /\ ~P(m)
    BY <2>1
  <2>3. m /= 0
    <3>1. f[0] = base
      BY <1>1 DEF Gather
    <3>2. P(0)
      BY <3>1
    <3> QED BY <2>2, <3>2
  <2>4. m \in 1..l /\ m - 1 \in 0..l /\ ~(m <= m - 1)
    BY <2>2, <2>3
  <2>5. P(m - 1)
    BY <2>1, <2>4
  <2> DEFINE t == f[m - 1]
  <2>6. /\ t \in Seq(T)
        /\ \A k \in 1..Len(t) : \/ \E j \in 1..Len(base) : t[k] = base[j]
                                \/ \E i \in picked : t[k] = val[i]
        /\ \A i \in picked : i <= m - 1 => \E k \in 1..Len(t) : t[k] = val[i]
    BY <2>5
  <2>7. f[m] = IF m \in picked THEN Append(t, val[m]) ELSE t
    BY <1>1, <2>4 DEF Gather
  <2> HIDE DEF t
  <2>8. CASE m \notin picked
    <3>1. f[m] = t
      BY <2>7, <2>8
    <3>2. \A i \in picked : i <= m => i <= m - 1
      BY <2>4, <2>8
    <3>3. P(m)
      BY <2>6, <3>1, <3>2
    <3> QED BY <2>2, <3>3
  <2>9. CASE m \in picked
    <3> DEFINE u == Append(t, val[m])
    <3>1. f[m] = u
      BY <2>7, <2>9
    <3>2. /\ u \in Seq(T) /\ Len(t) \in Nat /\ Len(u) = Len(t) + 1 /\ u[Len(u)] = val[m]
          /\ \A k \in 1..Len(t) : u[k] = t[k]
      BY <2>6, <2>9
    <3> HIDE DEF u
    <3>3. ASSUME NEW k \in 1..Len(u)
          PROVE  \/ \E j \in 1..Len(base) : u[k] = base[j]
                 \/ \E i \in picked : u[k] = val[i]
      <4>1. CASE k \in 1..Len(t)
        BY <2>6, <3>2, <4>1, SMTT(60)
      <4>2. CASE k = Len(u)
        BY <2>9, <3>2, <4>2
      <4> QED BY <3>2, <4>1, <4>2
    <3>4. ASSUME NEW i \in picked, i <= m PROVE \E k \in 1..Len(u) : u[k] = val[i]
      <4>1. CASE i = m
        <5>1. Len(u) \in 1..Len(u)
          BY <3>2
        <5> QED BY <3>2, <4>1, <5>1
      <4>2. CASE i /= m
        <5>1. i <= m - 1
          BY <2>4, <3>4, <4>2
        <5>2. PICK k \in 1..Len(t) : t[k] = val[i]
          BY <2>6, <5>1
        <5>3. k \in 1..Len(u)
          BY <3>2
        <5> QED BY <3>2, <5>2, <5>3
      <4> QED BY <4>1, <4>2
    <3>5. P(m)
      BY <3>1, <3>2, <3>3, <3>4
    <3> QED BY <2>2, <3>5
  <2> QED BY <2>8, <2>9
<1>3. P(l)
  BY <1>2
<1>4. \A i \in picked : i <= l
  OBVIOUS
<1> QED BY <1>3, <1>4 DEF Gathered

\* The last value picked comes last, after what was gathered before it.
LEMMA GatherLast ==
  ASSUME NEW l \in Nat \ {0}, NEW T, NEW base \in Seq(T), NEW picked \in SUBSET (1..l), NEW val,
         \A i \in picked : val[i] \in T, l \in picked,
         NEW f, Gathers(f, l, base, picked, val)
  PROVE  /\ f[l] = Append(f[l - 1], val[l])
         /\ Gathered(f[l - 1], T, base, picked \cap 1..(l - 1), val)
<1> DEFINE rest == picked \cap 1..(l - 1)
           g == [i \in 0..(l - 1) |-> f[i]]
<1>1. \A i \in 0..l : f[i] = Gather(f, base, picked, val, i)
  BY DEF Gathers
<1>2. f[l] = Append(f[l - 1], val[l])
  <2>1. l \in 0..l /\ l /= 0
    OBVIOUS
  <2>2. f[l] = Gather(f, base, picked, val, l)
    BY <1>1, <2>1
  <2> QED BY <2>1, <2>2 DEF Gather
<1>3. \A i \in 0..(l - 1) : g[i] = Gather(g, base, rest, val, i)
  <2> SUFFICES ASSUME NEW i \in 0..(l - 1) PROVE g[i] = Gather(g, base, rest, val, i)
    OBVIOUS
  <2>1. f[i] = Gather(f, base, picked, val, i) /\ g[i] = f[i]
    BY <1>1
  <2>2. CASE i = 0
    BY <2>1, <2>2 DEF Gather
  <2>3. CASE i /= 0
    <3>1. g[i - 1] = f[i - 1] /\ i \in 1..(l - 1)
      BY <2>3
    <3>2. i \in rest <=> i \in picked
      BY <3>1
    <3> HIDE DEF g, rest
    <3> QED BY <2>1, <2>3, <3>1, <3>2 DEF Gather
  <2> QED BY <2>2, <2>3
<1>4. Gathers(g, l - 1, base, rest, val)
  <2>1. g = [i \in 0..(l - 1) |-> Gather(g, base, rest, val, i)]
    <3> DEFINE h == [i \in 0..(l - 1) |-> Gather(g, base, rest, val, i)]
    <3>1. \A i \in 0..(l - 1) : g[i] = h[i]
      BY <1>3
    <3> QED BY <3>1
  <2> QED BY <2>1 DEF Gathers
<1>5. l - 1 \in Nat /\ g[l - 1] = f[l - 1] /\ rest \in SUBSET (1..(l - 1))
      /\ \A i \in rest : val[i] \in T
  OBVIOUS
<1>6. Gathered(g[l - 1], T, base, rest, val)
  <2> HIDE DEF g, rest
  <2> QED BY <1>4, <1>5, GatherFacts
<1> QED BY <1>2, <1>5, <1>6

-----------------------------------------------------------------------------
(* What a file that satisfies FileInv answers.                             *)

\* A list of logged runs.
LoggedRuns(es, s) == s \in Seq(Runs) /\ \A k \in 1..Len(s) : Logged(es, s[k])

\* The operators of SessionTree read the session's own file.
LEMMA OwnFile ==
  /\ \A l : Branch(l) = Up(entries, l)
  /\ \A l : LogicalLeaf(l) = LogicalIn(entries, l)
  /\ \A i : Trusted(i, Branch(i)) <=> TrustedIn(entries, i)
BY DEF Branch, Up, LogicalLeaf, LogicalIn, Trusted, TrustedIn

\* What FileInv says of the session file, by name.
LEMMA FileFacts ==
  ASSUME FileInv(entries)
  PROVE  /\ Len(entries) \in Nat /\ Ordered(entries, Len(entries))
         /\ Ids \in SUBSET Nat /\ Ids = 1..Len(entries)
         /\ \A i \in Ids : /\ entries[i] \in EntryTypes
                           /\ entries[i].kind \in Messages \cup Control
                           /\ entries[i].parent \in 0..(i - 1)
                           /\ entries[i].parent \in 0..Len(entries)
                           /\ entries[i].kind = "start" => entries[i] \in StartEntries
                           /\ entries[i].kind = "checkpoint" => entries[i].record \in Runs
                           /\ entries[i].kind = "cursor" => entries[i] \in CursorEntries
         /\ \A l \in 0..Len(entries) : /\ Branch(l) \subseteq 1..l /\ Branch(l) \subseteq Ids
                                       /\ LogicalLeaf(l) \in 0..l
                                       /\ LogicalLeaf(l) \in 0..Len(entries)
<1>1. entries \in Seq(EntryTypes) /\ Ordered(entries, Len(entries)) /\ Len(entries) \in Nat
  BY DEF FileInv, FileTyped
<1>2. Ids = 1..Len(entries) /\ Ids \in SUBSET Nat
  BY <1>1 DEF Ids
<1>3. ASSUME NEW i \in Ids
      PROVE  /\ entries[i] \in EntryTypes
             /\ entries[i].kind \in Messages \cup Control
             /\ entries[i].parent \in 0..(i - 1)
             /\ entries[i].parent \in 0..Len(entries)
             /\ entries[i].kind = "start" => entries[i] \in StartEntries
             /\ entries[i].kind = "checkpoint" => entries[i].record \in Runs
             /\ entries[i].kind = "cursor" => entries[i] \in CursorEntries
  <2>1. entries[i] \in EntryTypes
    BY <1>1, <1>2
  <2>2. entries[i].parent \in 0..(i - 1) /\ entries[i].parent \in 0..Len(entries)
    BY <1>1, <1>2 DEF Ordered
  <2>3. entries[i].kind = "checkpoint" => entries[i].record \in Runs
    BY <2>1, EntryFacts DEF CheckpointEntries
  <2> QED BY <2>1, <2>2, <2>3, EntryFacts
<1>4. ASSUME NEW l \in 0..Len(entries)
      PROVE  /\ Branch(l) \subseteq 1..l /\ Branch(l) \subseteq Ids
             /\ LogicalLeaf(l) \in 0..l /\ LogicalLeaf(l) \in 0..Len(entries)
  <2>1. Up(entries, l) \subseteq 1..l /\ LogicalIn(entries, l) \in 0..l
    BY <1>1, UpFacts, LogicalFacts
  <2> QED BY <1>1, <1>2, <2>1, OwnFile
<1> QED BY <1>1, <1>2, <1>3, <1>4

\* The checkpoints of a branch are trusted on it (Trusted of SessionTree).
LEMMA TrustedOnBranch ==
  ASSUME FileInv(entries), NEW l \in 0..Len(entries), NEW i \in Branch(l),
         entries[i].kind = "checkpoint"
  PROVE  Trusted(i, Branch(l))
<1>1. Len(entries) \in Nat /\ Ordered(entries, Len(entries)) /\ i \in Ids /\ Ids = 1..Len(entries)
  BY FileFacts
<1>2. Trusted(i, Branch(i))
  BY <1>1, OwnFile DEF FileInv, RunsTrusted
<1>3. Branch(i) \subseteq Branch(l)
  BY <1>1, UpFacts, OwnFile
<1> QED BY <1>2, <1>3 DEF Trusted

(* The checkpoint entries of a branch and what they record.                *)
Picked(l) == {i \in Branch(l) : entries[i].kind = "checkpoint"}
RecordsTo(l) == [i \in 1..l |-> entries[i].record]

\* They are logged runs.
LEMMA PickedFacts ==
  ASSUME FileInv(entries), NEW l \in 0..Len(entries)
  PROVE  /\ l \in Nat /\ Picked(l) \in SUBSET (1..l)
         /\ \A i \in Picked(l) : /\ i \in 1..Len(entries) /\ entries[i].kind = "checkpoint"
                                 /\ RecordsTo(l)[i] = entries[i].record
                                 /\ RecordsTo(l)[i] \in Runs
<1>1. l \in Nat /\ Branch(l) \subseteq 1..l /\ Branch(l) \subseteq Ids /\ Ids = 1..Len(entries)
  BY FileFacts
<1>2. \A i \in 1..l : RecordsTo(l)[i] = entries[i].record
  BY DEF RecordsTo
<1>3. \A i \in Picked(l) : i \in Branch(l) /\ entries[i].kind = "checkpoint"
  BY DEF Picked
<1> QED BY <1>1, <1>2, <1>3, FileFacts

\* getCheckpoints gathers them all.
LEMMA CheckpointsGather ==
  ASSUME FileInv(entries), NEW l \in 0..Len(entries)
  PROVE  \E f : Checkpoints(l) = f[l] /\ Gathers(f, l, <<>>, Picked(l), RecordsTo(l))
<1> DEFINE step(f) == [i \in 0..l |->
                         IF i = 0 THEN <<>>
                         ELSE IF i \in Branch(l) /\ entries[i].kind = "checkpoint" /\ Trusted(i, Branch(l))
                           THEN Append(f[i - 1], entries[i].record)
                         ELSE f[i - 1]]
           f == CHOOSE f : f = step(f)
<1>1. Checkpoints(l) = f[l]
  BY DEF Checkpoints
<1>2. \A g : step(g) = [i \in 0..l |-> Gather(g, <<>>, Picked(l), RecordsTo(l), i)]
  <2> SUFFICES ASSUME NEW g, NEW i \in 0..l
               PROVE  step(g)[i] = Gather(g, <<>>, Picked(l), RecordsTo(l), i)
    OBVIOUS
  <2>1. CASE i = 0
    BY <2>1 DEF Gather
  <2>2. CASE i /= 0
    <3>1. i \in 1..l
      BY <2>2
    <3>2. step(g)[i] = IF i \in Branch(l) /\ entries[i].kind = "checkpoint" /\ Trusted(i, Branch(l))
                         THEN Append(g[i - 1], entries[i].record) ELSE g[i - 1]
      BY <2>2
    <3>3. i \in Picked(l) <=> i \in Branch(l) /\ entries[i].kind = "checkpoint" /\ Trusted(i, Branch(l))
      BY TrustedOnBranch DEF Picked
    <3>4. RecordsTo(l)[i] = entries[i].record
      BY <3>1 DEF RecordsTo
    <3> HIDE DEF step
    <3> QED BY <2>2, <3>1, <3>2, <3>3, <3>4 DEF Gather
  <2> QED BY <2>1, <2>2
<1>3. PICK g : Gathers(g, l, <<>>, Picked(l), RecordsTo(l))
  BY PickedFacts, GatherExists
<1>4. f = step(f)
  <2> HIDE DEF step
  <2>1. g = step(g)
    BY <1>2, <1>3 DEF Gathers
  <2> QED BY <2>1
<1>5. Gathers(f, l, <<>>, Picked(l), RecordsTo(l))
  <2> HIDE DEF step, f
  <2> QED BY <1>2, <1>4 DEF Gathers
<1> HIDE DEF f
<1> QED BY <1>1, <1>5

\* The checkpoints of a branch are logged runs, one for each of its checkpoint entries.
LEMMA CheckpointsFacts ==
  ASSUME FileInv(entries), NEW l \in 0..Len(entries)
  PROVE  /\ LoggedRuns(entries, Checkpoints(l))
         /\ \A i \in Branch(l) : entries[i].kind = "checkpoint" =>
              \E k \in 1..Len(Checkpoints(l)) : Checkpoints(l)[k] = entries[i].record
         /\ \A k \in 1..Len(Checkpoints(l)) :
              \E i \in 1..l : /\ i \in 1..Len(entries) /\ entries[i].kind = "checkpoint"
                             /\ Checkpoints(l)[k] = entries[i].record
<1> DEFINE none == <<>>
           list == Checkpoints(l)
<1>1. PICK f : list = f[l] /\ Gathers(f, l, none, Picked(l), RecordsTo(l))
  BY CheckpointsGather
<1>2. none \in Seq(Runs) /\ \A j \in 1..Len(none) : FALSE
  OBVIOUS
<1> HIDE DEF none, list
<1>3. Gathered(list, Runs, none, Picked(l), RecordsTo(l))
  BY <1>1, <1>2, PickedFacts, GatherFacts
<1>4. ASSUME NEW k \in 1..Len(list)
      PROVE  \E i \in 1..l : /\ i \in 1..Len(entries) /\ entries[i].kind = "checkpoint"
                            /\ list[k] = entries[i].record
  <2>1. PICK i \in Picked(l) : list[k] = RecordsTo(l)[i]
    BY <1>2, <1>3 DEF Gathered
  <2> QED BY <2>1, PickedFacts
<1>5. LoggedRuns(entries, list)
  BY <1>3, <1>4 DEF Gathered, LoggedRuns, Logged
<1>6. ASSUME NEW i \in Branch(l), entries[i].kind = "checkpoint"
      PROVE  \E k \in 1..Len(list) : list[k] = entries[i].record
  <2>1. i \in Picked(l)
    BY <1>6 DEF Picked
  <2>2. RecordsTo(l)[i] = entries[i].record
    BY <2>1, PickedFacts
  <2> QED BY <1>3, <2>1, <2>2 DEF Gathered
<1> QED BY <1>4, <1>5, <1>6 DEF list

Fields == {"start", "user", "end"}

\* The fields of a recorded run.
LEMMA RunFacts ==
  ASSUME NEW c \in Runs
  PROVE  /\ c /= None /\ c.start \in Nat /\ c.user \in Nat /\ c.end \in Nat
         /\ c["start"] = c.start /\ c["user"] = c.user /\ c["end"] = c.end
         /\ c.before \in Full /\ c.after \in Full
BY DEF Runs, None

\* A logged run is trusted, so what it names is in the file.
LEMMA LoggedFacts ==
  ASSUME FileInv(entries), NEW c, Logged(entries, c)
  PROVE  /\ c \in Runs /\ c.start \in Ids /\ c.user \in Ids /\ c.end \in Ids
         /\ Named(entries, c.start)
<1>1. PICK i \in 1..Len(entries) : entries[i].kind = "checkpoint" /\ entries[i].record = c
  BY DEF Logged
<1>2. TrustedIn(entries, i)
  BY <1>1 DEF FileInv, RunsTrusted
<1>3. Len(entries) \in Nat /\ Ordered(entries, Len(entries)) /\ i \in 0..Len(entries)
         /\ Ids = 1..Len(entries) /\ c \in Runs
  BY <1>1, FileFacts, SMTT(60)
<1>4. Up(entries, i) \subseteq Ids
  BY <1>3, OwnFile, FileFacts
<1>5. {c.start, c.user, c.end} \subseteq Up(entries, i)
  BY <1>1, <1>2 DEF TrustedIn
<1>6. Named(entries, c.start)
  BY <1>1 DEF Named
<1> QED BY <1>3, <1>4, <1>5, <1>6

\* Two logged runs of one name are one.
LEMMA LoggedOnce ==
  ASSUME FileInv(entries), NEW c, Logged(entries, c), NEW d, Logged(entries, d),
         c.start = d.start
  PROVE  c = d
<1>1. PICK i \in 1..Len(entries) : entries[i].kind = "checkpoint" /\ entries[i].record = c
  BY DEF Logged
<1>2. PICK j \in 1..Len(entries) : entries[j].kind = "checkpoint" /\ entries[j].record = d
  BY DEF Logged
<1>3. i = j
  BY <1>1, <1>2 DEF FileInv, RunsNamedOnce
<1> QED BY <1>1, <1>2, <1>3

\* The home of a listed run and its place in the list there.
LEMMA HomeFacts ==
  ASSUME FileInv(entries), NEW field \in Fields, NEW value, Listing(field, value) /= {}
  PROVE  LET list == Checkpoints(Smallest(Listing(field, value)))
             at == Position(list, field, value)
         IN  /\ LoggedRuns(entries, list)
             /\ at \in 1..Len(list) /\ list[at][field] = value
<1> DEFINE homes == Listing(field, value)
           h == Smallest(homes)
           list == Checkpoints(h)
           places == {k \in DOMAIN list : list[k][field] = value}
<1>1. homes \in SUBSET Ids /\ Ids \in SUBSET Nat /\ homes \in SUBSET Nat /\ homes /= {}
  BY FileFacts DEF Listing, OfKind
<1>2. h \in homes
  <2> HIDE DEF homes
  <2> QED BY <1>1, SmallestIs
<1>3. h \in Ids /\ h \in 0..Len(entries)
  <2> HIDE DEF homes, h
  <2> QED BY <1>1, <1>2, FileFacts
<1>4. LoggedRuns(entries, list)
  <2> HIDE DEF h
  <2> QED BY <1>3, CheckpointsFacts
<1>5. \E c \in Range(list) : c[field] = value
  <2> HIDE DEF h
  <2> QED BY <1>2 DEF Listing
<1>6. places /= {}
  <2> HIDE DEF list
  <2> QED BY <1>5 DEF Range
<1>7. places \in SUBSET Nat /\ DOMAIN list = 1..Len(list)
  <2> HIDE DEF list
  <2> QED BY <1>4 DEF LoggedRuns
<1>8. Smallest(places) \in places
  <2> HIDE DEF places
  <2> QED BY <1>6, <1>7, SmallestIs
<1>9. Position(list, field, value) = Smallest(places)
  BY DEF Position
<1> HIDE DEF list
<1> QED BY <1>4, <1>7, <1>8, <1>9 DEF list, h, homes

\* What is listed anywhere is found.
LEMMA FirstListedFacts ==
  ASSUME FileInv(entries), NEW field \in Fields, NEW value
  PROVE  /\ Listing(field, value) = {} => FirstListed(field, value) = None
         /\ Listing(field, value) /= {} =>
              /\ Logged(entries, FirstListed(field, value))
              /\ FirstListed(field, value) \in Runs
              /\ FirstListed(field, value) /= None
              /\ FirstListed(field, value)[field] = value
<1>1. Listing(field, value) = {} => FirstListed(field, value) = None
  BY DEF FirstListed
<1>2. ASSUME Listing(field, value) /= {}
      PROVE  /\ Logged(entries, FirstListed(field, value))
             /\ FirstListed(field, value) \in Runs
             /\ FirstListed(field, value) /= None
             /\ FirstListed(field, value)[field] = value
  <2> DEFINE list == Checkpoints(Smallest(Listing(field, value)))
             at == Position(list, field, value)
  <2>1. LoggedRuns(entries, list) /\ at \in 1..Len(list) /\ list[at][field] = value
    BY <1>2, HomeFacts
  <2>2. FirstListed(field, value) = list[at]
    BY <1>2 DEF FirstListed
  <2> HIDE DEF at, list
  <2>3. Logged(entries, list[at])
    BY <2>1 DEF LoggedRuns
  <2> QED BY <2>1, <2>2, <2>3, LoggedFacts, RunFacts
<1> QED BY <1>1, <1>2

\* A named run is found, and the run found has that name.
LEMMA FindByIdFacts ==
  ASSUME FileInv(entries), NEW id, Named(entries, id)
  PROVE  /\ Listing("start", id) /= {}
         /\ FindById(id) /= None /\ Logged(entries, FindById(id)) /\ FindById(id).start = id
<1>1. PICK i \in 1..Len(entries) : entries[i].kind = "checkpoint" /\ entries[i].record.start = id
  BY DEF Named
<1>2. Len(entries) \in Nat /\ Ordered(entries, Len(entries)) /\ i \in Ids /\ i \in 0..Len(entries) /\ i /= 0
         /\ entries[i].record \in Runs
  BY <1>1, FileFacts
<1>3. i \in Branch(i)
  BY <1>2, UpFacts, OwnFile
<1>4. PICK k \in 1..Len(Checkpoints(i)) : Checkpoints(i)[k] = entries[i].record
  BY <1>1, <1>2, <1>3, CheckpointsFacts
<1>5. entries[i].record \in Range(Checkpoints(i))
  <2>1. LoggedRuns(entries, Checkpoints(i))
    BY <1>2, CheckpointsFacts
  <2> QED BY <1>4, <2>1 DEF LoggedRuns, Range
<1>6. entries[i].record["start"] = id
  BY <1>1, <1>2, RunFacts
<1>7. i \in Listing("start", id)
  BY <1>1, <1>2, <1>5, <1>6 DEF Listing, OfKind
<1>8. "start" \in Fields
  BY DEF Fields
<1>9. /\ Logged(entries, FindById(id)) /\ FindById(id) \in Runs
      /\ FindById(id) /= None /\ FindById(id)["start"] = id
  BY <1>7, <1>8, FirstListedFacts DEF FindById
<1> QED BY <1>7, <1>9, RunFacts

\* What is found by its prompt or by its end is logged.
LEMMA FoundFacts ==
  ASSUME FileInv(entries), NEW x
  PROVE  /\ FindByUser(x) /= None => Logged(entries, FindByUser(x)) /\ FindByUser(x).user = x
         /\ FindByEnd(x) /= None => Logged(entries, FindByEnd(x)) /\ FindByEnd(x).end = x
<1>1. "user" \in Fields /\ "end" \in Fields
  BY DEF Fields
<1>2. FindByUser(x) = FirstListed("user", x)
  BY DEF FindByUser
<1>3. FindByEnd(x) /= None => FindByEnd(x) = FirstListed("end", x)
  BY DEF FindByEnd
<1> QED BY <1>1, <1>2, <1>3, FirstListedFacts, RunFacts

\* A prefix of a sequence.
LEMMA SubSeqFacts ==
  ASSUME NEW T, NEW s \in Seq(T), NEW m \in 1..Len(s)
  PROVE  /\ SubSeq(s, 1, m) \in Seq(T) /\ Len(SubSeq(s, 1, m)) = m
         /\ \A k \in 1..m : SubSeq(s, 1, m)[k] = s[k] /\ k \in 1..Len(s)
OBVIOUS

\* The frontier of a named run ends in the run of that name.
LEMMA FrontierFacts ==
  ASSUME FileInv(entries), NEW id, Named(entries, id)
  PROVE  /\ LoggedRuns(entries, Frontier(id)) /\ Len(Frontier(id)) \in Nat \ {0}
         /\ Frontier(id)[Len(Frontier(id))].start = id
<1> DEFINE list == Checkpoints(Smallest(Listing("start", id)))
           at == Position(list, "start", id)
<1>1. "start" \in Fields /\ Listing("start", id) /= {}
  BY FindByIdFacts DEF Fields
<1>2. LoggedRuns(entries, list) /\ at \in 1..Len(list) /\ list[at]["start"] = id
  BY <1>1, HomeFacts
<1>3. Frontier(id) = SubSeq(list, 1, at)
  BY DEF Frontier
<1> HIDE DEF at, list
<1>4. list \in Seq(Runs) /\ Len(list) \in Nat /\ at \in Nat \ {0} /\ at \in 1..at /\ list[at] \in Runs
  BY <1>2 DEF LoggedRuns
<1>5. /\ SubSeq(list, 1, at) \in Seq(Runs) /\ Len(SubSeq(list, 1, at)) = at
      /\ \A k \in 1..at : SubSeq(list, 1, at)[k] = list[k] /\ k \in 1..Len(list)
  BY <1>2, <1>4, SubSeqFacts
<1>6. list[at].start = id
  BY <1>2, <1>4, RunFacts
<1> QED BY <1>2, <1>3, <1>4, <1>5, <1>6 DEF LoggedRuns

-----------------------------------------------------------------------------
(* What a new controller reads.                                            *)

\* The stacks hold logged runs; for every redo there is the manifest to write and
\* the undo that left the redo stack below it.
StackInv(es, undo, redo) ==
  /\ LoggedRuns(es, undo)
  /\ redo \in Seq(Undone)
  /\ \A k \in 1..Len(redo) : /\ Logged(es, redo[k].checkpoint)
                             /\ Covers(redo[k].target, redo[k].checkpoint)
                             /\ LeftByUndo(es, SubSeq(IdsOf(redo), 1, k))

\* A sequence is its own longest prefix.
LEMMA WholeSubSeq ==
  ASSUME NEW T, NEW s \in Seq(T)
  PROVE  SubSeq(s, 1, Len(s)) = s
OBVIOUS

\* The cursor of a leaf is an entry that is answered, up to every element of its
\* redo stack.
LEMMA CursorAtFacts ==
  ASSUME FileInv(entries), NEW l \in 0..Len(entries), CursorAt(l) /= None
  PROVE  /\ CursorAt(l) \in CursorEntries
         /\ CursorAt(l).head /= 0 => Named(entries, CursorAt(l).head)
         /\ \A k \in 1..Len(CursorAt(l).redo) :
              /\ Named(entries, CursorAt(l).redo[k])
              /\ LeftByUndo(entries, SubSeq(CursorAt(l).redo, 1, k))
<1> DEFINE own == {i \in Branch(l) : entries[i].kind \in Control}
           c == CursorAt(l)
<1>1. own \in SUBSET (0..Len(entries)) /\ own \subseteq Ids /\ Len(entries) \in Nat
  BY FileFacts
<1>2. own /= {} /\ entries[Largest(own)].kind = "cursor" /\ c = entries[Largest(own)]
  BY DEF CursorAt
<1>3. Largest(own) \in Ids
  <2> HIDE DEF own
  <2> QED BY <1>1, <1>2, LargestIs
<1> DEFINE i == Largest(own)
<1> HIDE DEF own, c, i
<1>4. i \in Ids /\ i \in 1..Len(entries) /\ entries[i].kind = "cursor" /\ c = entries[i]
  BY <1>2, <1>3, FileFacts DEF i
<1>5. c \in CursorEntries /\ CursorAnswered(entries, c)
  BY <1>4, FileFacts DEF FileInv, CursorsAnswered
<1>6. c.redo \in Seq(Nat)
  BY <1>5 DEF CursorEntries
<1>7. ASSUME NEW k \in 1..Len(c.redo)
      PROVE  Named(entries, c.redo[k]) /\ LeftByUndo(entries, SubSeq(c.redo, 1, k))
  <2>1. Named(entries, c.redo[k])
    BY <1>5 DEF CursorAnswered
  <2>2. CASE c.action = "undo" /\ k = Len(c.redo)
    <3>1. SubSeq(c.redo, 1, k) = c.redo
      BY <1>6, <2>2, WholeSubSeq
    <3> QED BY <1>4, <2>1, <2>2, <3>1 DEF LeftByUndo
  <2>3. CASE LeftByUndo(entries, SubSeq(c.redo, 1, k))
    BY <2>1, <2>3
  <2> QED BY <1>5, <2>2, <2>3 DEF CursorAnswered
<1>8. c.head /= 0 => Named(entries, c.head)
  BY <1>5 DEF CursorAnswered
<1> QED BY <1>5, <1>7, <1>8 DEF c

\* If an undo left that redo stack, the manifest a redo returns to covers the run.
LEMMA UndoOfFacts ==
  ASSUME FileInv(entries), NEW c, c.redo \in Seq(Nat), NEW k \in 1..Len(c.redo),
         LeftByUndo(entries, SubSeq(c.redo, 1, k))
  PROVE  /\ UndoOf(c, k) /= {}
         /\ entries[Largest(UndoOf(c, k))].rollback \in Snaps
         /\ \A run : Logged(entries, run) /\ run.start = c.redo[k] =>
              Covers(entries[Largest(UndoOf(c, k))].rollback, run)
<1> DEFINE us == UndoOf(c, k)
           j == Largest(us)
           ids == SubSeq(c.redo, 1, k)
<1>1. us \in SUBSET (0..Len(entries)) /\ us \subseteq Ids /\ Len(entries) \in Nat /\ us /= {}
  <2>1. us \subseteq Ids /\ us /= {}
    BY DEF UndoOf, OfKind, LeftByUndo, Ids
  <2> HIDE DEF us
  <2> QED BY <2>1, FileFacts
<1>2. j \in us
  <2> HIDE DEF us
  <2> QED BY <1>1, LargestIs
<1>3. j \in Ids /\ entries[j].kind = "cursor" /\ entries[j].action = "undo" /\ entries[j].redo = ids
  <2> HIDE DEF j, ids
  <2> QED BY <1>2 DEF UndoOf, OfKind, ids
<1> HIDE DEF j, us
<1>4. entries[j] \in CursorEntries /\ CursorAnswered(entries, entries[j]) /\ Ids = 1..Len(entries)
  BY <1>3, FileFacts DEF FileInv, CursorsAnswered
<1>5. Len(ids) = k /\ ids[k] = c.redo[k]
  BY SubSeqFacts
<1> HIDE DEF ids
<1>6. entries[j].rollback \in Snaps
  BY <1>4 DEF CursorEntries
<1>7. ASSUME NEW run, Logged(entries, run), run.start = c.redo[k]
      PROVE  Covers(entries[j].rollback, run)
  <2>1. PICK i \in 1..Len(entries) : entries[i].kind = "checkpoint" /\ entries[i].record = run
    BY <1>7 DEF Logged
  <2>2. entries[i].record.start = entries[j].redo[Len(entries[j].redo)]
    BY <1>3, <1>5, <1>7, <2>1
  <2> QED BY <1>3, <1>4, <2>1, <2>2 DEF CursorAnswered
<1> QED BY <1>1, <1>6, <1>7 DEF j, us

\* The stack that a cursor records holds logged runs (checkpointFrontierById).
LEMMA CursorStackFacts ==
  ASSUME FileInv(entries), NEW c, c.head /= 0 => Named(entries, c.head)
  PROVE  LoggedRuns(entries, CursorStack(c))
<1>1. CASE c.head = 0
  BY <1>1 DEF CursorStack, LoggedRuns
<1>2. CASE c.head /= 0
  BY <1>2, FrontierFacts DEF CursorStack
<1> QED BY <1>1, <1>2

(* The checkpoint a run hangs on beside its branch, the stack up to there, *)
(* and the checkpoints of the branch that are not on it.                   *)
Base(l) ==
  LET starts == OfKind(Branch(l), "start")
  IN  IF starts = {} THEN None ELSE FindByEnd(entries[Largest(starts)].source)
Inherited(l) == Frontier(Base(l).start)
NotInherited(l) ==
  {k \in 1..Len(Checkpoints(l)) :
     \A j \in 1..Len(Inherited(l)) : Inherited(l)[j].start /= Checkpoints(l)[k].start}

\* checkpointFrontierAfterDetachedRun gathers those behind that stack.
LEMMA AttachedGather ==
  ASSUME FileInv(entries), NEW l \in 0..Len(entries), Base(l) /= None
  PROVE  /\ LoggedRuns(entries, Inherited(l))
         /\ \E f : /\ Attached(l) = f[Len(Checkpoints(l))]
                  /\ Gathers(f, Len(Checkpoints(l)), Inherited(l), NotInherited(l), Checkpoints(l))
<1> DEFINE current == Checkpoints(l)
           inherited == Inherited(l)
           known == {inherited[k].start : k \in DOMAIN inherited}
           step(f) == [k \in 0..Len(current) |->
                         IF k = 0 THEN inherited
                         ELSE IF current[k].start \in known THEN f[k - 1]
                         ELSE Append(f[k - 1], current[k])]
           f == CHOOSE f : f = step(f)
           picked == NotInherited(l)
<1>1. Attached(l) = f[Len(current)]
  BY DEF Attached, Base, Inherited
<1>2. LoggedRuns(entries, inherited)
  <2>1. Logged(entries, Base(l))
    BY FoundFacts DEF Base
  <2> QED BY <2>1, LoggedFacts, FrontierFacts DEF Inherited
<1>3. \A k \in 1..Len(current) : k \in picked <=> current[k].start \notin known
  <2>1. DOMAIN inherited = 1..Len(inherited)
    BY <1>2 DEF LoggedRuns
  <2>2. \A k \in 1..Len(current) :
          k \in picked <=> \A j \in 1..Len(inherited) : inherited[j].start /= current[k].start
    BY DEF NotInherited
  <2> HIDE DEF picked, inherited, current
  <2> QED BY <2>1, <2>2
<1> HIDE DEF inherited, current, picked
<1>4. Len(current) \in Nat
  BY CheckpointsFacts DEF LoggedRuns, current
<1>5. \A g : step(g) = [i \in 0..Len(current) |-> Gather(g, inherited, picked, current, i)]
  <2> SUFFICES ASSUME NEW g, NEW i \in 0..Len(current)
               PROVE  step(g)[i] = Gather(g, inherited, picked, current, i)
    OBVIOUS
  <2>1. CASE i = 0
    BY <2>1 DEF Gather
  <2>2. CASE i /= 0
    <3>1. i \in 1..Len(current)
      BY <1>4, <2>2
    <3>2. step(g)[i] = IF current[i].start \in known THEN g[i - 1] ELSE Append(g[i - 1], current[i])
      BY <2>2
    <3> HIDE DEF step, known
    <3> QED BY <1>3, <2>2, <3>1, <3>2 DEF Gather
  <2> QED BY <2>1, <2>2
<1> HIDE DEF step
<1>6. PICK g : Gathers(g, Len(current), inherited, picked, current)
  BY <1>4, GatherExists
<1>7. f = step(f)
  <2>1. g = step(g)
    BY <1>5, <1>6, SMTT(60) DEF Gathers
  <2> QED BY <2>1
<1> HIDE DEF f
<1>8. Gathers(f, Len(current), inherited, picked, current)
  BY <1>5, <1>7 DEF Gathers
<1> QED BY <1>1, <1>2, <1>8, SMTT(60) DEF inherited, current, picked

\* So does the stack of a branch without a cursor
\* (checkpointFrontierAfterDetachedRun).
LEMMA AttachedFacts ==
  ASSUME FileInv(entries), NEW l \in 0..Len(entries)
  PROVE  LoggedRuns(entries, Attached(l))
<1> DEFINE current == Checkpoints(l)
<1>1. LoggedRuns(entries, current)
  BY CheckpointsFacts
<1>2. CASE Base(l) = None
  BY <1>1, <1>2 DEF Attached, Base
<1>3. CASE Base(l) /= None
  <2>1. PICK f : /\ Attached(l) = f[Len(current)]
                 /\ Gathers(f, Len(current), Inherited(l), NotInherited(l), current)
    BY <1>3, AttachedGather
  <2>2. LoggedRuns(entries, Inherited(l)) /\ NotInherited(l) \in SUBSET (1..Len(current))
    BY <1>3, AttachedGather DEF NotInherited
  <2> HIDE DEF current
  <2>3. /\ Len(current) \in Nat /\ Inherited(l) \in Seq(Runs)
        /\ \A i \in NotInherited(l) : current[i] \in Runs /\ Logged(entries, current[i])
    BY <1>1, <2>2 DEF LoggedRuns
  <2>4. Gathered(Attached(l), Runs, Inherited(l), NotInherited(l), current)
    BY <2>1, <2>2, <2>3, GatherFacts
  <2> QED BY <2>2, <2>3, <2>4 DEF Gathered, LoggedRuns
<1> QED BY <1>2, <1>3

\* rebuildControllerState finds all it looks for, at every entry of the file.
LEMMA AlwaysRebuildable ==
  ASSUME FileInv(entries), NEW l \in 0..Len(entries)
  PROVE  Rebuildable(l)
<1> DEFINE c == CursorAt(l)
<1>1. CASE c = None
  BY <1>1 DEF Rebuildable
<1>2. CASE c /= None
  <2>1. /\ c \in CursorEntries
        /\ c.head /= 0 => Named(entries, c.head)
        /\ \A k \in 1..Len(c.redo) :
             Named(entries, c.redo[k]) /\ LeftByUndo(entries, SubSeq(c.redo, 1, k))
    BY <1>2, CursorAtFacts
  <2>2. Rebuildable(l) <=> (/\ c.head # 0 => FindById(c.head) # None
                            /\ \A k \in DOMAIN c.redo :
                                 FindById(c.redo[k]) # None /\ UndoOf(c, k) # {})
    BY <1>2 DEF Rebuildable
  <2> HIDE DEF c
  <2>3. c.redo \in Seq(Nat) /\ DOMAIN c.redo = 1..Len(c.redo)
    BY <2>1 DEF CursorEntries
  <2>4. \A k \in DOMAIN c.redo : FindById(c.redo[k]) # None /\ UndoOf(c, k) # {}
    BY <2>1, <2>3, FindByIdFacts, UndoOfFacts
  <2> QED BY <2>1, <2>2, <2>4, FindByIdFacts
<1> QED BY <1>1, <1>2

\* The stacks it builds are ones the file answers for.
LEMMA RebuiltFacts ==
  ASSUME FileInv(entries), NEW l \in 0..Len(entries)
  PROVE  StackInv(entries, Rebuilt(l).undo, Rebuilt(l).redo) /\ Rebuilt(l).paused \in BOOLEAN
<1> DEFINE c == CursorAt(l)
           new == Rebuilt(l)
           undone(k) == [checkpoint |-> FindById(c.redo[k]),
                         target |-> entries[Largest(UndoOf(c, k))].rollback]
<1>1. new.paused \in BOOLEAN
  BY DEF Rebuilt
<1>2. CASE c = None
  <2>1. new.undo = Attached(l) /\ new.redo = <<>>
    BY <1>2 DEF Rebuilt
  <2> QED BY <1>1, <2>1, AttachedFacts DEF StackInv
<1>3. CASE c /= None
  <2>1. new.undo = CursorStack(c) /\ new.redo = [k \in DOMAIN c.redo |-> undone(k)]
    BY <1>3 DEF Rebuilt
  <2>2. /\ c \in CursorEntries
        /\ c.head /= 0 => Named(entries, c.head)
        /\ \A k \in 1..Len(c.redo) :
             Named(entries, c.redo[k]) /\ LeftByUndo(entries, SubSeq(c.redo, 1, k))
    BY <1>3, CursorAtFacts
  <2> HIDE DEF c, new
  <2>3. LoggedRuns(entries, new.undo)
    BY <2>1, <2>2, CursorStackFacts
  <2>4. c.redo \in Seq(Nat) /\ Len(c.redo) \in Nat /\ DOMAIN c.redo = 1..Len(c.redo)
    BY <2>2 DEF CursorEntries
  <2>5. ASSUME NEW k \in 1..Len(c.redo)
        PROVE  /\ undone(k) \in Undone /\ undone(k).checkpoint.start = c.redo[k]
               /\ Logged(entries, undone(k).checkpoint)
               /\ Covers(undone(k).target, undone(k).checkpoint)
    <3>1. Logged(entries, FindById(c.redo[k])) /\ FindById(c.redo[k]).start = c.redo[k]
      BY <2>2, FindByIdFacts
    <3>2. /\ entries[Largest(UndoOf(c, k))].rollback \in Snaps
          /\ Covers(entries[Largest(UndoOf(c, k))].rollback, FindById(c.redo[k]))
      BY <2>2, <2>4, <3>1, UndoOfFacts
    <3>3. FindById(c.redo[k]) \in Runs
      BY <3>1, LoggedFacts
    <3> QED BY <3>1, <3>2, <3>3 DEF Undone
  <2>6. /\ new.redo \in Seq(Undone) /\ Len(new.redo) = Len(c.redo)
        /\ \A k \in 1..Len(c.redo) : new.redo[k] = undone(k)
    <3> HIDE DEF undone
    <3> QED BY <2>1, <2>4, <2>5
  <2>7. IdsOf(new.redo) = c.redo
    <3>1. DOMAIN new.redo = DOMAIN c.redo /\ IdsOf(new.redo) = [k \in DOMAIN c.redo |-> new.redo[k].checkpoint.start]
      BY <2>1 DEF IdsOf
    <3>2. \A k \in DOMAIN c.redo : new.redo[k].checkpoint.start = c.redo[k]
      <4> HIDE DEF undone
      <4> QED BY <2>4, <2>5, <2>6
    <3>3. c.redo \in [1..Len(c.redo) -> Nat]
      BY <2>4, LenProperties
    <3>4. c.redo = [k \in DOMAIN c.redo |-> c.redo[k]]
      BY <3>3
    <3> QED BY <3>1, <3>2, <3>4
  <2> HIDE DEF undone
  <2> QED BY <1>1, <2>2, <2>3, <2>5, <2>6, <2>7 DEF StackInv, new
<1> QED BY <1>2, <1>3

\* An entry the user navigates to: a manifest and a stack of logged runs.
LEMMA TreeTargetFacts ==
  ASSUME FileInv(entries), NEW id \in Ids, TreeTarget(id) /= None
  PROVE  TreeTarget(id).manifest \in Snaps /\ LoggedRuns(entries, TreeTarget(id).undo)
<1> DEFINE isUser == entries[id].kind = "user"
           physical == IF isUser THEN entries[id].parent ELSE id
           logical == LogicalLeaf(physical)
           cursor == CursorAt(physical)
           exact == FindByEnd(logical)
           begun == {c \in UNION {Range(Checkpoints(i)) : i \in OfKind(Ids, "checkpoint")} :
                       LogicalLeaf(entries[c.user].parent) = logical}
           first == CHOOSE c \in begun : TRUE
           found(manifest, stack) == [leaf |-> logical, manifest |-> manifest, undo |-> stack]
           t == TreeTarget(id)
<1>1. physical \in 0..Len(entries)
  BY FileFacts
<1>2. \A c : Logged(entries, c) => c.before \in Snaps /\ c.after \in Snaps
  BY LoggedFacts DEF Runs, Snaps
<1>3. CASE isUser
  <2>1. FindByUser(id) /= None /\ t = found(FindByUser(id).before, Checkpoints(physical))
    BY <1>3 DEF TreeTarget
  <2>2. Logged(entries, FindByUser(id))
    BY <2>1, FoundFacts
  <2>3. LoggedRuns(entries, Checkpoints(physical))
    BY <1>1, CheckpointsFacts
  <2> QED BY <1>2, <2>1, <2>2, <2>3
<1>4. CASE ~isUser /\ exact /= None
  <2>1. t = found(exact.after, Frontier(exact.start))
    BY <1>4 DEF TreeTarget
  <2>2. Logged(entries, exact)
    BY <1>4, FoundFacts
  <2>3. LoggedRuns(entries, Frontier(exact.start))
    BY <2>2, LoggedFacts, FrontierFacts
  <2> QED BY <1>2, <2>1, <2>2, <2>3
<1>5. CASE ~isUser /\ exact = None /\ cursor /= None /\ cursor.to = logical
  <2>1. t = found(cursor.target, CursorStack(cursor))
    BY <1>5 DEF TreeTarget
  <2>2. cursor \in CursorEntries /\ (cursor.head /= 0 => Named(entries, cursor.head))
    BY <1>1, <1>5, CursorAtFacts
  <2>3. cursor.target \in Snaps /\ LoggedRuns(entries, CursorStack(cursor))
    BY <2>2, CursorStackFacts DEF CursorEntries
  <2> QED BY <2>1, <2>3, SMTT(60)
<1>6. CASE ~isUser /\ exact = None /\ (cursor = None \/ cursor.to /= logical)
  <2>1. Cardinality(begun) = 1 /\ t = found(first.before, Checkpoints(entries[first.user].parent))
    BY <1>6 DEF TreeTarget
  <2>2. begun /= {}
    <3> HIDE DEF begun
    <3> QED BY <2>1, FS_EmptySet
  <2>3. first \in begun
    <3> HIDE DEF begun
    <3> QED BY <2>2
  <2>4. PICK i \in OfKind(Ids, "checkpoint") : first \in Range(Checkpoints(i))
    <3> HIDE DEF first
    <3> QED BY <2>3
  <2> HIDE DEF first, begun
  <2>5. Logged(entries, first)
    <3>1. i \in 0..Len(entries)
      BY FileFacts DEF OfKind
    <3>2. LoggedRuns(entries, Checkpoints(i))
      BY <3>1, CheckpointsFacts
    <3> QED BY <2>4, <3>2 DEF LoggedRuns, Range
  <2>6. entries[first.user].parent \in 0..Len(entries)
    BY <2>5, LoggedFacts, FileFacts
  <2>7. LoggedRuns(entries, Checkpoints(entries[first.user].parent))
    BY <2>6, CheckpointsFacts
  <2> QED BY <1>2, <2>1, <2>5, <2>7, SMTT(60)
<1> QED BY <1>3, <1>4, <1>5, <1>6

-----------------------------------------------------------------------------
(* The inductive invariant.                                                *)

SessionTyped ==
  /\ leaf \in 0..Len(entries)
  /\ ws \in [Paths -> Contents]
  /\ paused \in BOOLEAN /\ locked \in BOOLEAN
  /\ missed \subseteq {"run", "gap"}
  /\ staged = None \/ staged \in [before : Full, source : 0..Len(entries), start : 0..Len(entries)]
  /\ agent \in AgentStates
  /\ spent \in [Disturbances -> Nat]

\* The start entry of the run that goes on: on the branch, not logged yet, and the
\* prompts that follow it are on the branch too.
StartedOn(es, l, s) ==
  /\ s \in Up(es, l) /\ es[s].kind = "start" /\ ~Named(es, s)
  /\ \A u \in 1..Len(es) : es[u].kind = "user" /\ es[u].parent = s => u \in Up(es, l)

RunInv ==
  ~Unrecorded /\ agent \in {"started", "running", "replied"} =>
    /\ StartedOn(entries, leaf, staged.start)
    /\ agent = "replied" => entries[leaf].kind \in Messages

HistInv ==
  FileInv(entries) /\ SessionTyped /\ StackInv(entries, undoStack, redoStack) /\ RunInv

\* The manifests of a session: whole ones and safety captures.
LEMMA SnapFacts ==
  ASSUME NEW m \in Snaps
  PROVE  /\ m \in Manifests
         /\ \A p \in DOMAIN m.files : m.files[p] \in Contents
         /\ m.complete => m \in Full
         /\ m \in Full => m.files \in [Paths -> Contents] /\ DOMAIN m.files = Paths
<1>1. CASE m \in Full
  <2>1. m.files \in [Paths -> Contents] /\ m.complete = TRUE
           /\ m = [files |-> m.files, complete |-> m.complete]
    BY <1>1 DEF Full
  <2>2. m.files \in UNION {[S -> Contents] : S \in SUBSET Paths}
    BY <2>1
  <2>3. m \in Manifests
    BY <2>1, <2>2 DEF Manifests
  <2> QED BY <1>1, <2>1, <2>3
<1>2. CASE m \in Partial
  <2>1. m.files \in UNION {[S -> Contents] : S \in SUBSET Paths} /\ m.complete = FALSE
           /\ m = [files |-> m.files, complete |-> m.complete]
    BY <1>2 DEF Partial
  <2>2. PICK S \in SUBSET Paths : m.files \in [S -> Contents]
    BY <2>1
  <2>3. m \in Manifests
    BY <2>1 DEF Manifests
  <2>4. m \notin Full
    BY <2>1 DEF Full
  <2> QED BY <2>1, <2>2, <2>3, <2>4
<1> QED BY <1>1, <1>2 DEF Snaps

\* What a capture and a safety capture give, and what a restore leaves.
LEMMA CaptureFacts ==
  ASSUME ws \in [Paths -> Contents]
  PROVE  /\ Capture \in Full /\ Capture \in Snaps
         /\ \A c \in Runs, m \in Snaps :
              /\ SafetyCapture(m, ChangedPaths(c)) \in Snaps
              /\ Covers(m, c) => Covers(SafetyCapture(m, ChangedPaths(c)), c)
              /\ Covers(m, c) => Overwritten(m, ChangedPaths(c)) \in [Paths -> Contents]
         /\ \A c \in Runs, m \in Full : Covers(m, c) /\ m \in Snaps
<1>1. Capture \in Full /\ Capture \in Snaps
  BY DEF Capture, Full, Snaps
<1>2. \A c \in Runs : ChangedPaths(c) \in SUBSET Paths
  BY DEF ChangedPaths
<1>3. ASSUME NEW c \in Runs, NEW m \in Full PROVE Covers(m, c) /\ m \in Snaps
  BY <1>2, <1>3, SnapFacts DEF Covers, Snaps
<1>4. ASSUME NEW c \in Runs, NEW m \in Snaps
      PROVE  /\ SafetyCapture(m, ChangedPaths(c)) \in Snaps
             /\ Covers(m, c) => Covers(SafetyCapture(m, ChangedPaths(c)), c)
             /\ Covers(m, c) => Overwritten(m, ChangedPaths(c)) \in [Paths -> Contents]
  <2> DEFINE S == ChangedPaths(c)
             new == ScopedCapture(S)
  <2>1. S \in SUBSET Paths
    BY <1>2
  <2> HIDE DEF S
  <2>2. new.files \in [S -> Contents] /\ new.complete = FALSE
           /\ new = [files |-> new.files, complete |-> FALSE]
    BY <2>1 DEF ScopedCapture
  <2>3. new.files \in UNION {[Q -> Contents] : Q \in SUBSET Paths}
    BY <2>1, <2>2
  <2>4. new \in Snaps
    BY <2>2, <2>3 DEF Partial, Snaps
  <2>5. SafetyCapture(m, S) = m \/ SafetyCapture(m, S) = new
    BY DEF SafetyCapture
  <2>6. Covers(new, c)
    BY <2>2 DEF Covers, S
  <2>7. ASSUME Covers(m, c) PROVE Overwritten(m, S) \in [Paths -> Contents]
    <3>1. \A p \in S : m.files[p] \in Contents
      BY <1>4, <2>7, SnapFacts DEF Covers, S
    <3> QED BY <3>1 DEF Overwritten
  <2> QED BY <1>4, <2>4, <2>5, <2>6, <2>7 DEF S
<1> QED BY <1>1, <1>3, <1>4

\* A disturbance is counted.
LEMMA SpentTyped ==
  ASSUME spent \in [Disturbances -> Nat],
         UNCHANGED spent \/ \E d \in Disturbances : Spend(d)
  PROVE  spent' \in [Disturbances -> Nat]
<1>1. ASSUME NEW d \in Disturbances, Spend(d) PROVE spent' = [spent EXCEPT ![d] = @ + 1]
  BY <1>1, Zenon DEF Spend
<1> QED BY <1>1

\* Logged runs stay logged.
LEMMA LoggedRunsAppend ==
  ASSUME NEW es \in Seq(EntryTypes), NEW e \in EntryTypes, NEW es2, es2 = Append(es, e),
         NEW s, LoggedRuns(es, s)
  PROVE  LoggedRuns(es2, s)
BY LogAppend DEF LoggedRuns

\* Stacks that the file answers for stay so.
LEMMA StacksAppend ==
  ASSUME NEW es \in Seq(EntryTypes), NEW e \in EntryTypes, NEW es2, es2 = Append(es, e),
         NEW undo, NEW redo, StackInv(es, undo, redo)
  PROVE  StackInv(es2, undo, redo)
<1>1. /\ \A c : Logged(es, c) => Logged(es2, c)
      /\ \A ids : LeftByUndo(es, ids) => LeftByUndo(es2, ids)
  BY LogAppend
<1>2. LoggedRuns(es2, undo)
  BY <1>1 DEF StackInv, LoggedRuns
<1> QED BY <1>1, <1>2 DEF StackInv

\* Empty stacks ask nothing of the file.
LEMMA EmptyStacks ==
  ASSUME NEW es
  PROVE  /\ LoggedRuns(es, <<>>) /\ StackInv(es, <<>>, <<>>)
         /\ \A u : LoggedRuns(es, u) => StackInv(es, u, <<>>)
<1> DEFINE none == <<>>
<1>1. none \in Seq(Runs) /\ none \in Seq(Undone) /\ Len(none) = 0
  OBVIOUS
<1> HIDE DEF none
<1>2. \A k \in 1..Len(none) : FALSE
  BY <1>1
<1>3. LoggedRuns(es, none)
  BY <1>1, <1>2 DEF LoggedRuns
<1>4. \A u : LoggedRuns(es, u) => StackInv(es, u, none)
  BY <1>1, <1>2 DEF StackInv
<1> QED BY <1>3, <1>4 DEF none

\* Steps that leave the file, the stacks and the leaf of a recorded run alone.
Quiet ==
  /\ UNCHANGED <<entries, undoStack, redoStack>>
  /\ \/ UNCHANGED <<leaf, agent, staged, locked>>
     \/ agent' \notin {"started", "running", "replied"}
     \/ staged' = None \/ locked'

\* Such a step keeps the invariant if it keeps the types.
LEMMA QuietStep ==
  ASSUME HistInv, Quiet, SessionTyped'
  PROVE  HistInv'
<1>1. FileInv(entries)' /\ StackInv(entries, undoStack, redoStack)'
  BY DEF HistInv, Quiet
<1>2. RunInv'
  BY DEF HistInv, Quiet, RunInv, Unrecorded
<1> QED BY <1>1, <1>2 DEF HistInv

-----------------------------------------------------------------------------
(* Steps that append nothing.                                              *)

\* beginInput.
LEMMA PromptKeeps ==
  ASSUME HistInv, Prompt
  PROVE  HistInv'
<1>1. UNCHANGED <<entries, leaf, ws, undoStack, redoStack, locked, missed>> /\ agent' = "accepted"
  BY Zenon DEF Prompt
<1>2. UNCHANGED spent \/ Spend("lost")
  BY Zenon DEF Prompt
<1>3. spent' \in [Disturbances -> Nat]
  BY <1>2, SpentTyped DEF HistInv, SessionTyped, Disturbances
<1>4. \/ staged' = [before |-> Capture, source |-> LogicalLeaf(leaf), start |-> 0] /\ paused' = FALSE
      \/ staged' = None /\ UNCHANGED paused
      \/ UNCHANGED <<staged, paused>>
  BY Zenon DEF Prompt
<1>5. /\ LogicalLeaf(leaf) \in 0..Len(entries) /\ 0 \in 0..Len(entries)
  BY FileFacts DEF HistInv, SessionTyped
<1>6. Capture \in Full
  BY CaptureFacts DEF HistInv, SessionTyped
<1>7. staged' = None \/ staged' \in [before : Full, source : 0..Len(entries), start : 0..Len(entries)]
  BY <1>4, <1>5, <1>6 DEF HistInv, SessionTyped
<1>8. paused' \in BOOLEAN
  BY <1>4 DEF HistInv, SessionTyped
<1>9. SessionTyped'
  BY <1>1, <1>3, <1>7, <1>8 DEF HistInv, SessionTyped, AgentStates
<1>10. Quiet
  BY <1>1 DEF Quiet
<1> QED BY <1>9, <1>10, QuietStep

\* A prompt that Pi refuses.
LEMMA AbandonKeeps ==
  ASSUME HistInv, Abandon
  PROVE  HistInv'
<1>1. SessionTyped'
  BY DEF HistInv, SessionTyped, Abandon, controller, AgentStates
<1>2. Quiet
  BY DEF Quiet, Abandon, controller
<1> QED BY <1>1, <1>2, QuietStep

\* startAgentRun when its entry can not be appended.
LEMMA StartFailsKeeps ==
  ASSUME HistInv, StartFails
  PROVE  HistInv'
<1>1. /\ agent' = "started" /\ locked' = TRUE /\ staged' = None
      /\ UNCHANGED <<entries, leaf, ws, undoStack, redoStack, paused, missed>>
  BY Zenon DEF StartFails
<1>2. spent' \in [Disturbances -> Nat]
  <2>1. Spend("lost")
    BY Zenon DEF StartFails
  <2> QED BY <2>1, SpentTyped DEF HistInv, SessionTyped, Disturbances
<1>3. SessionTyped'
  BY <1>1, <1>2 DEF HistInv, SessionTyped, AgentStates
<1>4. Quiet
  BY <1>1 DEF Quiet
<1> QED BY <1>3, <1>4, QuietStep

\* settleRun of a run that is not recorded.
LEMMA SettleUnrecordedKeeps ==
  ASSUME HistInv, SettleUnrecorded
  PROVE  HistInv'
<1>1. SessionTyped'
  BY DEF HistInv, SessionTyped, SettleUnrecorded, Settling, AgentStates
<1>2. Quiet
  BY DEF Quiet, SettleUnrecorded, Settling
<1> QED BY <1>1, <1>2, QuietStep

\* An undo of nothing.
LEMMA UndoNothingKeeps ==
  ASSUME HistInv, UndoNothing
  PROVE  HistInv'
<1>1. SessionTyped'
  BY DEF HistInv, SessionTyped, UndoNothing, Ready, AgentStates
<1>2. Quiet
  BY DEF Quiet, UndoNothing, Ready
<1> QED BY <1>1, <1>2, QuietStep

\* Where Pi puts the leaf, and where a compensation does, is in the file.
LEMMA LandingFacts ==
  ASSUME FileInv(entries), NEW id \in Ids
  PROVE  Landing(id) \in 0..Len(entries)
BY FileFacts DEF Landing

\* sessionNavigationEntry finds an entry of the file.
LEMMA NavigationFacts ==
  ASSUME FileInv(entries), NEW l \in 0..Len(entries), NavigationEntries(l) /= {}
  PROVE  Smallest(NavigationEntries(l)) \in Ids
<1>1. NavigationEntries(l) \subseteq Ids
  BY FileFacts DEF NavigationEntries, OfKind
<1>2. Ids \in SUBSET Nat
  BY FileFacts
<1> QED BY <1>1, <1>2, SmallestIs

\* An operation that was compensated.
LEMMA DeclinedKeeps ==
  ASSUME HistInv, Declined
  PROVE  HistInv'
<1>1. /\ UNCHANGED <<entries, ws, undoStack, redoStack, paused, locked, missed>>
      /\ staged' = None /\ agent' \in {"accepted", "idle"}
      /\ Spend("declined")
  BY Zenon DEF Declined, Fails, Ready
<1>2. spent' \in [Disturbances -> Nat]
  BY <1>1, SpentTyped DEF HistInv, SessionTyped, Disturbances
<1>3. leaf' \in 0..Len(entries)
  <2>1. CASE leaf' = leaf
    BY <2>1 DEF HistInv, SessionTyped
  <2>2. CASE /\ NavigationEntries(LogicalLeaf(leaf)) /= {}
             /\ leaf' = Landing(Smallest(NavigationEntries(LogicalLeaf(leaf))))
    <3>1. LogicalLeaf(leaf) \in 0..Len(entries)
      BY FileFacts DEF HistInv, SessionTyped
    <3> QED BY <2>2, <3>1, NavigationFacts, LandingFacts DEF HistInv
  <2> QED BY <2>1, <2>2 DEF Declined
<1>4. SessionTyped'
  BY <1>1, <1>2, <1>3 DEF HistInv, SessionTyped, AgentStates
<1>5. Quiet
  BY <1>1 DEF Quiet
<1> QED BY <1>4, <1>5, QuietStep

\* A finalization that fails.
LEMMA FinalizationFailsKeeps ==
  ASSUME HistInv, FinalizationFails
  PROVE  HistInv'
<1>1. /\ locked' = TRUE
      /\ UNCHANGED <<entries, leaf, ws, undoStack, redoStack, paused, staged, agent, missed>>
      /\ Spend("lost")
  BY Zenon DEF FinalizationFails
<1>2. spent' \in [Disturbances -> Nat]
  BY <1>1, SpentTyped DEF HistInv, SessionTyped, Disturbances
<1>3. SessionTyped'
  BY <1>1, <1>2 DEF HistInv, SessionTyped
<1>4. Quiet
  BY <1>1 DEF Quiet
<1> QED BY <1>3, <1>4, QuietStep

\* A write by another program.
LEMMA EditKeeps ==
  ASSUME HistInv, Edit
  PROVE  HistInv'
<1>1. /\ UNCHANGED <<entries, leaf, undoStack, redoStack, paused, locked, staged, agent, missed>>
      /\ Spend("edit")
  BY Zenon DEF Edit, controller
<1>2. spent' \in [Disturbances -> Nat]
  BY <1>1, SpentTyped DEF HistInv, SessionTyped, Disturbances
<1>3. PICK p \in Paths, c \in Contents : ws' = [ws EXCEPT ![p] = c]
  BY Zenon DEF Edit
<1>4. ws' \in [Paths -> Contents]
  BY <1>3 DEF HistInv, SessionTyped
<1>5. SessionTyped'
  BY <1>1, <1>2, <1>4 DEF HistInv, SessionTyped
<1>6. Quiet
  BY <1>1 DEF Quiet
<1> QED BY <1>5, <1>6, QuietStep

-----------------------------------------------------------------------------
(* Steps of a run that append to the file.                                 *)

\* The branch of an entry is the one it is appended to and the entry.
LEMMA UpNew ==
  ASSUME NEW es, FileTyped(es), NEW e \in EntryTypes, e.parent \in 0..Len(es),
         NEW es2, es2 = Append(es, e), FileTyped(es2)
  PROVE  Up(es2, Len(es2)) = {Len(es2)} \cup Up(es, e.parent)
<1>1. es \in Seq(EntryTypes) /\ Len(es) \in Nat /\ Ordered(es, Len(es))
        /\ Ordered(es2, Len(es2))
  BY DEF FileTyped
<1>2. /\ Len(es2) = Len(es) + 1 /\ Len(es2) \in Nat
      /\ \A i \in 1..Len(es) : i \in 1..Len(es2) /\ es2[i] = es[i]
      /\ Len(es2) \in 1..Len(es2) /\ es2[Len(es2)] = e
  BY <1>1, AppendFacts
<1>3. Up(es2, Len(es2)) = {Len(es2)} \cup Up(es2, e.parent)
  <2>1. Len(es2) \in 0..Len(es2) /\ Len(es2) /= 0
    BY <1>1, <1>2
  <2> DEFINE n == Len(es2)
  <2>2. n \in Nat /\ Ordered(es2, n) /\ n \in 0..n
    BY <1>1, <1>2
  <2> HIDE DEF n
  <2>3. Up(es2, n) = IF n = 0 THEN {} ELSE {n} \cup Up(es2, es2[n].parent)
    BY <2>2, UpSteps
  <2> QED BY <1>2, <2>1, <2>3 DEF n
<1>4. Up(es2, e.parent) = Up(es, e.parent)
  BY <1>1, <1>2, UpAppend
<1> QED BY <1>3, <1>4

\* A file with one more entry, whose branch is the one it was appended to.
Growth(es, e, es2) ==
  /\ Len(es) \in Nat /\ Len(es2) = Len(es) + 1 /\ Len(es2) \in 0..Len(es2)
  /\ \A i \in 0..Len(es) : i \in 0..Len(es2)
  /\ \A i \in 1..Len(es) : i \in 1..Len(es2) /\ es2[i] = es[i]
  /\ Len(es2) \in 1..Len(es2) /\ es2[Len(es2)] = e
  /\ \A i \in 1..Len(es2) : i \in 1..Len(es) \/ i = Len(es2)
  /\ Up(es2, Len(es2)) = {Len(es2)} \cup Up(es, e.parent)
  /\ \A u, r : StackInv(es, u, r) => StackInv(es2, u, r)
  /\ \A u : LoggedRuns(es, u) => LoggedRuns(es2, u)

\* What an append to a file gives.
LEMMA Grown ==
  ASSUME NEW es, FileInv(es), NEW e \in EntryTypes, e.parent \in 0..Len(es),
         NEW es2, es2 = Append(es, e), FileInv(es2)
  PROVE  Growth(es, e, es2)
<1>1. es \in Seq(EntryTypes) /\ Len(es) \in Nat /\ Ordered(es, Len(es))
        /\ Ordered(es2, Len(es2))
  BY DEF FileInv, FileTyped
<1>2. /\ Len(es2) = Len(es) + 1 /\ Len(es2) \in Nat
      /\ \A i \in 1..Len(es) : i \in 1..Len(es2) /\ es2[i] = es[i]
      /\ Len(es2) \in 1..Len(es2) /\ es2[Len(es2)] = e
      /\ \A i \in 1..Len(es2) : i \in 1..Len(es) \/ i = Len(es2)
  BY <1>1, AppendFacts
<1>3. Up(es2, Len(es2)) = {Len(es2)} \cup Up(es, e.parent)
  BY UpNew DEF FileInv
<1>4. \A u, r : StackInv(es, u, r) => StackInv(es2, u, r)
  BY <1>1, StacksAppend
<1>5. \A u : LoggedRuns(es, u) => LoggedRuns(es2, u)
  BY <1>1, LoggedRunsAppend
<1> QED BY <1>1, <1>2, <1>3, <1>4, <1>5 DEF Growth

\* The run that goes on moves up with the leaf.
LEMMA StartedMoves ==
  ASSUME NEW es, FileInv(es), NEW e \in EntryTypes, e.parent \in 0..Len(es),
         NEW es2, es2 = Append(es, e), FileInv(es2),
         NEW s \in Nat, StartedOn(es, e.parent, s), e.kind /= "checkpoint"
  PROVE  StartedOn(es2, Len(es2), s)
<1>1. /\ Len(es) \in Nat /\ Len(es2) = Len(es) + 1
      /\ \A i \in 1..Len(es) : i \in 1..Len(es2) /\ es2[i] = es[i]
      /\ Len(es2) \in 1..Len(es2) /\ es2[Len(es2)] = e
      /\ \A i \in 1..Len(es2) : i \in 1..Len(es) \/ i = Len(es2)
      /\ Up(es2, Len(es2)) = {Len(es2)} \cup Up(es, e.parent)
  <2>1. Growth(es, e, es2)
    BY Grown
  <2> QED BY <2>1 DEF Growth
<1>2. es \in Seq(EntryTypes) /\ Ordered(es, Len(es))
  BY DEF FileInv, FileTyped
<1>3. Up(es, e.parent) \subseteq 1..Len(es)
  <2>1. Up(es, e.parent) \subseteq 1..e.parent
    BY <1>1, <1>2, UpFacts
  <2> QED BY <1>1, <2>1
<1>4. s \in Up(es2, Len(es2)) /\ es2[s].kind = "start"
  BY <1>1, <1>3 DEF StartedOn
<1>5. ~Named(es2, s)
  BY <1>2, LogAppend DEF StartedOn
<1>6. ASSUME NEW u \in 1..Len(es2), es2[u].kind = "user", es2[u].parent = s
      PROVE  u \in Up(es2, Len(es2))
  BY <1>1, <1>6 DEF StartedOn
<1> QED BY <1>4, <1>5, <1>6 DEF StartedOn

\* Entries that record nothing can always be appended.
LEMMA PlainAppend ==
  ASSUME NEW es, FileInv(es), NEW e \in EntryTypes, e.parent \in 0..Len(es),
         NEW es2, es2 = Append(es, e), e.kind \notin {"checkpoint", "cursor"}
  PROVE  FileInv(es2)
BY FileAppend

\* startAgentRun: its start entry is new, so no checkpoint names it yet.
LEMMA StartRunKeeps ==
  ASSUME HistInv, StartRun
  PROVE  HistInv'
<1>1. agent' = "started" /\ UNCHANGED <<ws, undoStack, paused, locked, spent, missed>>
  BY Zenon DEF StartRun
<1>2. CASE Unrecorded
  <2>1. UNCHANGED <<entries, leaf, staged, redoStack>>
    BY <1>2, Zenon DEF StartRun
  <2>2. SessionTyped'
    BY <1>1, <2>1 DEF HistInv, SessionTyped, AgentStates
  <2>3. Quiet
    BY <1>1, <1>2, <2>1 DEF Quiet, Unrecorded
  <2> QED BY <2>2, <2>3, QuietStep
<1>3. CASE ~Unrecorded
  <2> DEFINE e == [kind |-> "start", parent |-> leaf, before |-> staged.before, source |-> staged.source]
  <2>1. /\ entries' = Append(entries, e) /\ leaf' = Len(entries')
        /\ staged' = [staged EXCEPT !.start = leaf'] /\ redoStack' = <<>>
    BY <1>3, Zenon DEF StartRun, Appended
  <2>2. staged \in [before : Full, source : 0..Len(entries), start : 0..Len(entries)]
    BY <1>3 DEF Unrecorded, HistInv, SessionTyped
  <2>3. Len(entries) \in Nat /\ leaf \in 0..Len(entries) /\ leaf \in Nat /\ staged.source \in Nat
    BY <2>2, FileFacts DEF HistInv, SessionTyped
  <2>4. e \in EntryTypes /\ e.parent = leaf /\ e.kind = "start"
    BY <2>2, <2>3 DEF EntryTypes, StartEntries
  <2> HIDE DEF e
  <2>5. FileInv(entries')
    BY <2>1, <2>3, <2>4, PlainAppend DEF HistInv
  <2>6. /\ Len(entries') = Len(entries) + 1 /\ Len(entries') \in 0..Len(entries')
        /\ \A i \in 0..Len(entries) : i \in 0..Len(entries')
        /\ \A i \in 1..Len(entries) : i \in 1..Len(entries') /\ entries'[i] = entries[i]
        /\ Len(entries') \in 1..Len(entries') /\ entries'[Len(entries')] = e
        /\ \A i \in 1..Len(entries') : i \in 1..Len(entries) \/ i = Len(entries')
        /\ Up(entries', Len(entries')) = {Len(entries')} \cup Up(entries, e.parent)
        /\ \A u : LoggedRuns(entries, u) => LoggedRuns(entries', u)
    <3>1. Growth(entries, e, entries')
      BY <2>1, <2>3, <2>4, <2>5, Grown DEF HistInv
    <3> QED BY <3>1 DEF Growth
  <2>7. StackInv(entries', undoStack', redoStack')
    BY <1>1, <2>1, <2>6, EmptyStacks DEF HistInv, StackInv
  <2>8. staged' \in [before : Full, source : 0..Len(entries'), start : 0..Len(entries')]
    BY <2>1, <2>2, <2>6
  <2>9. SessionTyped'
    BY <1>1, <2>1, <2>6, <2>8 DEF HistInv, SessionTyped, AgentStates
  <2>10. StartedOn(entries', Len(entries'), Len(entries'))
    <3>1. ~Named(entries', Len(entries'))
      <4>1. entries \in Seq(EntryTypes)
        BY DEF HistInv, FileInv, FileTyped
      <4>2. Named(entries', Len(entries')) => Named(entries, Len(entries'))
        BY <2>1, <2>4, <4>1, LogAppend
      <4>3. ASSUME Named(entries, Len(entries')) PROVE FALSE
        <5>1. PICK i \in 1..Len(entries) : entries[i].kind = "checkpoint" /\ entries[i].record.start = Len(entries')
          BY <4>3 DEF Named
        <5>2. Logged(entries, entries[i].record)
          BY <5>1 DEF Logged
        <5>3. Len(entries') \in Ids /\ Ids = 1..Len(entries)
          BY <5>1, <5>2, LoggedFacts, FileFacts DEF HistInv
        <5> QED BY <2>3, <2>6, <5>3
      <4> QED BY <4>2, <4>3
    <3>2. ASSUME NEW u \in 1..Len(entries'), entries'[u].parent = Len(entries') PROVE FALSE
      <4>1. entries'[u].parent \in 0..(u - 1)
        BY <2>5 DEF FileInv, FileTyped, Ordered
      <4> QED BY <2>3, <2>6, <3>2, <4>1
    <3> QED BY <2>4, <2>6, <3>1, <3>2 DEF StartedOn
  <2>11. staged'.start = Len(entries')
    BY <2>1, <2>2
  <2>12. RunInv'
    BY <1>1, <2>1, <2>10, <2>11 DEF RunInv
  <2> QED BY <2>5, <2>7, <2>9, <2>12 DEF HistInv
<1> QED BY <1>2, <1>3

\* Pi's own entries, and those of other extensions, are messages.
LEMMA MessageEntry ==
  ASSUME NEW kind \in Messages, NEW l \in Nat, NEW e, e = [kind |-> kind, parent |-> l]
  PROVE  /\ e \in EntryTypes /\ e.kind = kind /\ e.parent = l
         /\ e.kind \notin {"checkpoint", "cursor"}
BY DEF EntryTypes, MessageEntries, Messages

MessageGrowth(es, l, es2) ==
  /\ FileInv(es2) /\ Len(es2) \in 0..Len(es2) /\ Len(es2) = Len(es) + 1
  /\ \A i \in 0..Len(es) : i \in 0..Len(es2)
  /\ \A u, r : StackInv(es, u, r) => StackInv(es2, u, r)
  /\ \A s \in Nat : StartedOn(es, l, s) => StartedOn(es2, Len(es2), s)
  /\ es2[Len(es2)].kind \in Messages

\* A message moves the run that goes on up with the leaf.
LEMMA MessageStep ==
  ASSUME NEW es, FileInv(es), NEW l \in 0..Len(es), NEW kind \in Messages,
         NEW es2, es2 = Append(es, [kind |-> kind, parent |-> l])
  PROVE  MessageGrowth(es, l, es2)
<1> DEFINE e == [kind |-> kind, parent |-> l]
<1>1. l \in Nat
  BY DEF FileInv, FileTyped
<1>2. /\ e \in EntryTypes /\ e.kind = kind /\ e.parent = l /\ e.kind \notin {"checkpoint", "cursor"}
      /\ es2 = Append(es, e)
  BY <1>1, MessageEntry
<1> HIDE DEF e
<1>3. FileInv(es2)
  BY <1>2, PlainAppend
<1>4. /\ Len(es2) \in 0..Len(es2) /\ Len(es2) = Len(es) + 1
      /\ \A i \in 0..Len(es) : i \in 0..Len(es2)
      /\ \A u, r : StackInv(es, u, r) => StackInv(es2, u, r)
      /\ es2[Len(es2)] = e
  <2>1. Growth(es, e, es2)
    BY <1>2, <1>3, Grown
  <2> QED BY <2>1 DEF Growth
<1>5. \A s \in Nat : StartedOn(es, l, s) => StartedOn(es2, Len(es2), s)
  BY <1>2, <1>3, StartedMoves
<1> QED BY <1>2, <1>3, <1>4, <1>5 DEF MessageGrowth

\* What the invariant says of the session, by name.
LEMMA InvFacts ==
  ASSUME HistInv
  PROVE  /\ FileInv(entries) /\ SessionTyped /\ StackInv(entries, undoStack, redoStack) /\ RunInv
         /\ entries \in Seq(EntryTypes) /\ Len(entries) \in Nat /\ Ordered(entries, Len(entries))
         /\ leaf \in 0..Len(entries) /\ leaf \in Nat /\ ws \in [Paths -> Contents]
         /\ spent \in [Disturbances -> Nat]
         /\ staged /= None =>
              /\ staged \in [before : Full, source : 0..Len(entries), start : 0..Len(entries)]
              /\ staged.start \in Nat /\ staged.before \in Full
<1>1. Len(entries) \in Nat
  BY FileFacts DEF HistInv
<1>2. ASSUME staged /= None
      PROVE  /\ staged \in [before : Full, source : 0..Len(entries), start : 0..Len(entries)]
             /\ staged.start \in Nat /\ staged.before \in Full
  BY <1>2 DEF HistInv, SessionTyped
<1> QED BY <1>1, <1>2 DEF HistInv, SessionTyped, FileInv, FileTyped

\* The types after steps that only append, or that also clear the staged run.
LEMMA TypesGrow ==
  ASSUME SessionTyped, \A i \in 0..Len(entries) : i \in 0..Len(entries'),
         leaf' \in 0..Len(entries'), ws' \in [Paths -> Contents],
         paused' \in BOOLEAN, locked' \in BOOLEAN, missed' \subseteq {"run", "gap"},
         staged' = staged \/ staged' = None, agent' \in AgentStates,
         spent' \in [Disturbances -> Nat]
  PROVE  SessionTyped'
<1>1. staged' = None \/ staged' \in [before : Full, source : 0..Len(entries'), start : 0..Len(entries')]
  BY DEF SessionTyped
<1> QED BY <1>1 DEF SessionTyped

\* Pi appends the prompt, behind an entry of another extension or not.
LEMMA PiUserKeeps ==
  ASSUME HistInv, PiUser
  PROVE  HistInv'
<1>1. /\ agent = "started" /\ agent' = "running" /\ leaf' = Len(entries')
      /\ UNCHANGED <<ws, undoStack, redoStack, paused, locked, staged, missed>>
  BY Zenon DEF PiUser, controller
<1>2. /\ FileInv(entries) /\ SessionTyped /\ StackInv(entries, undoStack, redoStack)
      /\ leaf \in 0..Len(entries) /\ spent \in [Disturbances -> Nat] /\ Len(entries) \in Nat
      /\ entries \in Seq(EntryTypes)
  BY InvFacts
<1>3. /\ FileInv(entries') /\ Len(entries') \in 0..Len(entries')
      /\ \A i \in 0..Len(entries) : i \in 0..Len(entries')
      /\ StackInv(entries', undoStack, redoStack)
      /\ \A s \in Nat : StartedOn(entries, leaf, s) => StartedOn(entries', Len(entries'), s)
      /\ spent' \in [Disturbances -> Nat]
  <2>0. "user" \in Messages /\ "other" \in Messages
    BY DEF Messages
  <2>1. CASE entries' = Append(entries, [kind |-> "user", parent |-> leaf]) /\ UNCHANGED spent
    <3>1. MessageGrowth(entries, leaf, entries')
      BY <1>2, <2>0, <2>1, MessageStep
    <3> QED BY <1>2, <2>1, <3>1 DEF MessageGrowth
  <2>2. CASE /\ Spend("foreign")
             /\ entries' = Append(entries, [kind |-> "other", parent |-> leaf])
                             \o <<[kind |-> "user", parent |-> Len(entries) + 1]>>
    <3> DEFINE mid == Append(entries, [kind |-> "other", parent |-> leaf])
               e == [kind |-> "user", parent |-> Len(entries) + 1]
    <3>1. /\ FileInv(mid) /\ Len(mid) \in 0..Len(mid) /\ Len(mid) = Len(entries) + 1
          /\ \A i \in 0..Len(entries) : i \in 0..Len(mid)
          /\ StackInv(mid, undoStack, redoStack)
          /\ \A s \in Nat : StartedOn(entries, leaf, s) => StartedOn(mid, Len(mid), s)
      <4>1. MessageGrowth(entries, leaf, mid)
        BY <1>2, <2>0, MessageStep
      <4> QED BY <1>2, <4>1 DEF MessageGrowth
    <3>2. e \in EntryTypes
      BY <1>2, <2>0, MessageEntry
    <3>3. mid \in Seq(EntryTypes)
      <4> HIDE DEF mid
      <4> QED BY <3>1 DEF FileInv, FileTyped
    <3>4. entries' = mid \o <<e>>
      BY <2>2
    <3> HIDE DEF mid, e
    <3>5. entries' = Append(mid, e)
      BY <3>2, <3>3, <3>4, AppendIsConcat
    <3>6. entries' = Append(mid, [kind |-> "user", parent |-> Len(mid)])
      BY <3>1, <3>5 DEF e
    <3>7. /\ FileInv(entries') /\ Len(entries') \in 0..Len(entries')
          /\ \A i \in 0..Len(mid) : i \in 0..Len(entries')
          /\ StackInv(entries', undoStack, redoStack)
          /\ \A s \in Nat : StartedOn(mid, Len(mid), s) => StartedOn(entries', Len(entries'), s)
      <4>1. MessageGrowth(mid, Len(mid), entries')
        BY <2>0, <3>1, <3>6, MessageStep
      <4> QED BY <3>1, <4>1 DEF MessageGrowth
    <3>8. spent' \in [Disturbances -> Nat]
      BY <1>2, <2>2, SpentTyped DEF Disturbances
    <3> QED BY <3>1, <3>7, <3>8
  <2>3. \/ entries' = Append(entries, [kind |-> "user", parent |-> leaf]) /\ UNCHANGED spent
        \/ /\ Spend("foreign")
           /\ entries' = Append(entries, [kind |-> "other", parent |-> leaf])
                           \o <<[kind |-> "user", parent |-> Len(entries) + 1]>>
    BY Zenon DEF PiUser, Appended
  <2> QED BY <2>1, <2>2, <2>3
<1>4. SessionTyped'
  <2>1. paused' \in BOOLEAN /\ locked' \in BOOLEAN /\ missed' \subseteq {"run", "gap"}
           /\ ws' \in [Paths -> Contents] /\ agent' \in AgentStates
    BY <1>1, <1>2 DEF SessionTyped, AgentStates
  <2> QED BY <1>1, <1>2, <1>3, <2>1, TypesGrow
<1>5. RunInv'
  <2> SUFFICES ASSUME ~Unrecorded' PROVE StartedOn(entries', leaf', staged'.start)
    BY <1>1 DEF RunInv
  <2>1. ~Unrecorded /\ staged /= None
    BY <1>1 DEF Unrecorded
  <2>2. StartedOn(entries, leaf, staged.start) /\ staged.start \in Nat
    BY <1>1, <2>1, InvFacts DEF RunInv
  <2> QED BY <1>1, <1>3, <2>2
<1> QED BY <1>1, <1>3, <1>4, <1>5 DEF HistInv

\* Pi appends the reply.
LEMMA PiReplyKeeps ==
  ASSUME HistInv, PiReply
  PROVE  HistInv'
<1>1. /\ agent = "running" /\ agent' = "replied" /\ leaf' = Len(entries')
      /\ ws' \in [Paths -> Contents]
      /\ entries' = Append(entries, [kind |-> "reply", parent |-> leaf])
      /\ UNCHANGED <<undoStack, redoStack, paused, locked, staged, spent, missed>>
  BY Zenon DEF PiReply, controller, Appended
<1>2. /\ FileInv(entries) /\ SessionTyped /\ StackInv(entries, undoStack, redoStack)
      /\ leaf \in 0..Len(entries) /\ spent \in [Disturbances -> Nat]
  BY InvFacts
<1>3. /\ FileInv(entries') /\ Len(entries') \in 0..Len(entries')
      /\ \A i \in 0..Len(entries) : i \in 0..Len(entries')
      /\ StackInv(entries', undoStack, redoStack)
      /\ \A s \in Nat : StartedOn(entries, leaf, s) => StartedOn(entries', Len(entries'), s)
      /\ entries'[Len(entries')].kind \in Messages
  <2>1. "reply" \in Messages
    BY DEF Messages
  <2>2. MessageGrowth(entries, leaf, entries')
    BY <1>1, <1>2, <2>1, MessageStep
  <2> QED BY <1>2, <2>2 DEF MessageGrowth
<1>4. SessionTyped'
  <2>1. paused' \in BOOLEAN /\ locked' \in BOOLEAN /\ missed' \subseteq {"run", "gap"}
           /\ agent' \in AgentStates /\ spent' \in [Disturbances -> Nat]
    BY <1>1, <1>2 DEF SessionTyped, AgentStates
  <2> QED BY <1>1, <1>2, <1>3, <2>1, TypesGrow
<1>5. RunInv'
  <2> SUFFICES ASSUME ~Unrecorded' PROVE StartedOn(entries', leaf', staged'.start)
    BY <1>1, <1>3 DEF RunInv
  <2>1. ~Unrecorded /\ staged /= None
    BY <1>1 DEF Unrecorded
  <2>2. StartedOn(entries, leaf, staged.start) /\ staged.start \in Nat
    BY <1>1, <2>1, InvFacts DEF RunInv
  <2> QED BY <1>1, <1>3, <2>2
<1> QED BY <1>1, <1>3, <1>4, <1>5 DEF HistInv

\* A run that lies on a branch and ends there.
TrustedAt(es, l, c) ==
  /\ {c.start, c.user, c.end} \subseteq Up(es, l)
  /\ c.start < c.user /\ c.user <= c.end
  /\ es[c.start].kind = "start"
  /\ es[c.user].kind = "user" /\ es[c.user].parent = c.start
  /\ es[c.end].kind \in Messages
  /\ LogicalIn(es, l) = c.end

\* It is trusted in a checkpoint appended to that branch.
LEMMA TrustedNew ==
  ASSUME NEW es, FileTyped(es), NEW e \in EntryTypes, e.parent \in 0..Len(es),
         TrustedAt(es, e.parent, e.record), NEW es2, es2 = Append(es, e)
  PROVE  TrustedIn(es2, Len(es2))
<1> DEFINE c == e.record
           l == e.parent
           n == Len(es2)
<1>1. FileTyped(es2)
  BY OrderedAppend
<1>2. /\ es \in Seq(EntryTypes) /\ Ordered(es, Len(es)) /\ Len(es) \in Nat
      /\ n = Len(es) + 1 /\ es2[n] = e
      /\ \A i \in 1..Len(es) : i \in 1..Len(es2) /\ es2[i] = es[i]
  BY AppendFacts DEF FileTyped
<1>3. Up(es2, n) = {n} \cup Up(es, l)
  BY <1>1, UpNew
<1>4. LogicalIn(es2, l) = LogicalIn(es, l) /\ Up(es, l) \subseteq 1..l
  <2>1. l \in 0..Len(es)
    OBVIOUS
  <2> DEFINE m == Len(es)
  <2>2. /\ m \in Nat /\ Ordered(es, m) /\ l \in 0..m
        /\ \A i \in 1..m : es2[i] = es[i]
    BY <1>2, <2>1
  <2> HIDE DEF n, c, l, m
  <2>3. LogicalIn(es2, l) = LogicalIn(es, l)
    BY <2>2, LogicalAppend
  <2>4. Up(es, l) \subseteq 1..l
    BY <2>2, UpFacts
  <2> QED BY <2>3, <2>4
<1> HIDE DEF n, c, l
<1>5. /\ {c.start, c.user, c.end} \subseteq Up(es, l)
      /\ c.start < c.user /\ c.user <= c.end
      /\ es[c.start].kind = "start"
      /\ es[c.user].kind = "user" /\ es[c.user].parent = c.start
      /\ es[c.end].kind \in Messages /\ LogicalIn(es, l) = c.end
  BY DEF TrustedAt, c, l
<1>6. l \in 0..Len(es)
  BY DEF l
<1>7. \A i \in Up(es, l) : i \in 1..Len(es) /\ i < n /\ es2[i] = es[i]
  BY <1>2, <1>4, <1>6
<1>8. es2[n].record = c /\ es2[n].parent = l
  BY <1>2 DEF c, l
<1>9. TrustedIn(es2, n)
  BY <1>3, <1>4, <1>5, <1>7, <1>8 DEF TrustedIn
<1> QED BY <1>9 DEF n

\* The record of the run that ends is trusted where it is appended.
LEMMA RunRecorded ==
  ASSUME HistInv, ~Unrecorded, agent = "replied", UserAfter(staged.start) /= {},
         NEW r, r = [start |-> staged.start, user |-> Smallest(UserAfter(staged.start)),
                     end |-> LogicalLeaf(leaf), before |-> staged.before, after |-> Capture],
         NEW e, e = [kind |-> "checkpoint", parent |-> leaf, record |-> r],
         NEW es2, es2 = Append(entries, e)
  PROVE  /\ r \in Runs /\ e \in EntryTypes /\ e.kind = "checkpoint" /\ e.parent = leaf
         /\ e.record = r /\ ~Named(entries, r.start)
         /\ TrustedIn(es2, Len(es2))
<1> DEFINE s == staged.start
           users == UserAfter(s)
           u == Smallest(users)
<1>1. /\ FileInv(entries) /\ entries \in Seq(EntryTypes) /\ Len(entries) \in Nat
      /\ Ordered(entries, Len(entries)) /\ leaf \in 0..Len(entries) /\ leaf \in Nat
      /\ s \in Nat /\ staged.before \in Full /\ Capture \in Full
  BY InvFacts, CaptureFacts DEF Unrecorded
<1>2. StartedOn(entries, leaf, s) /\ entries[leaf].kind \in Messages
  BY InvFacts DEF RunInv
<1>3. /\ Up(entries, leaf) \subseteq 1..leaf /\ Up(entries, leaf) \subseteq Ids /\ s \in 1..leaf /\ leaf /= 0
      /\ leaf \in Up(entries, leaf)
  <2>1. Up(entries, leaf) \subseteq 1..leaf /\ (leaf /= 0 => leaf \in Up(entries, leaf))
    BY <1>1, UpFacts
  <2>2. s \in 1..leaf
    BY <1>2, <2>1 DEF StartedOn
  <2> QED BY <1>1, <2>1, <2>2, FileFacts
<1>4. u \in users
  <2>1. users \in SUBSET Nat
    BY <1>1, FileFacts DEF UserAfter, OfKind
  <2> HIDE DEF users
  <2> QED BY <2>1, SmallestIs DEF users
<1>5. u \in Ids /\ entries[u].kind = "user" /\ entries[u].parent = s
  <2> HIDE DEF u
  <2> QED BY <1>4 DEF UserAfter, OfKind
<1> HIDE DEF u, users, s
<1>6. u \in 1..Len(entries) /\ entries[u].parent \in 0..(u - 1)
  BY <1>1, <1>5, FileFacts
<1>7. u \in Up(entries, leaf) /\ s < u /\ u <= leaf /\ u \in Nat
  <2>1. u \in Up(entries, leaf)
    BY <1>2, <1>5, <1>6 DEF StartedOn
  <2> QED BY <1>1, <1>3, <1>5, <1>6, <2>1
<1>8. LogicalLeaf(leaf) = leaf /\ LogicalIn(entries, leaf) = leaf
  BY <1>1, <1>2, <1>3, LogicalFacts, OwnFile
<1>9. /\ r.start = s /\ r.user = u /\ r.end = leaf /\ r \in Runs
  BY <1>1, <1>7, <1>8 DEF Runs, s, u, users
<1>10. /\ e \in EntryTypes /\ e.kind = "checkpoint" /\ e.parent = leaf /\ e.record = r
  BY <1>1, <1>9 DEF EntryTypes, CheckpointEntries
<1>11. ~Named(entries, r.start)
  BY <1>2, <1>9 DEF StartedOn
<1>12. TrustedIn(es2, Len(es2))
  <2>1. s \in Up(entries, leaf) /\ entries[s].kind = "start"
    BY <1>2 DEF StartedOn
  <2>2. FileTyped(entries)
    BY <1>1 DEF FileTyped
  <2>3. TrustedAt(entries, leaf, r)
    BY <1>2, <1>3, <1>5, <1>7, <1>8, <1>9, <2>1 DEF TrustedAt
  <2> QED BY <1>1, <1>10, <2>2, <2>3, TrustedNew
<1> QED BY <1>9, <1>10, <1>11, <1>12

\* RunInv holds where no run is staged, and where none goes on.
LEMMA NothingStaged ==
  /\ staged' = None => RunInv'
  /\ agent' \notin {"started", "running", "replied"} => RunInv'
BY DEF RunInv, Unrecorded

\* settleRun: the run it records is trusted, and was not recorded before.
LEMMA SettleKeeps ==
  ASSUME HistInv, Settle
  PROVE  HistInv'
<1> DEFINE r == [start |-> staged.start, user |-> Smallest(UserAfter(staged.start)),
                 end |-> LogicalLeaf(leaf), before |-> staged.before, after |-> Capture]
           e == [kind |-> "checkpoint", parent |-> leaf, record |-> r]
<1>1. /\ agent = "replied" /\ agent' = "idle" /\ staged' = None /\ ~Unrecorded
      /\ UserAfter(staged.start) /= {}
      /\ entries' = Append(entries, e) /\ leaf' = Len(entries')
      /\ undoStack' = Append(undoStack, r)
      /\ UNCHANGED <<ws, redoStack, paused, locked, spent, missed>>
  BY DEF Settle, Settling, RecordRun, Appended
<1>2. /\ FileInv(entries) /\ SessionTyped /\ StackInv(entries, undoStack, redoStack)
      /\ leaf \in 0..Len(entries) /\ spent \in [Disturbances -> Nat]
      /\ entries \in Seq(EntryTypes)
  BY InvFacts
<1>3. /\ r \in Runs /\ e \in EntryTypes /\ e.kind = "checkpoint" /\ e.parent = leaf
      /\ e.record = r /\ ~Named(entries, r.start)
      /\ TrustedIn(entries', Len(entries'))
  BY <1>1, RunRecorded
<1> HIDE DEF r, e
<1>4. FileInv(entries')
  BY <1>1, <1>2, <1>3, FileAppend
<1>5. Growth(entries, e, entries')
  BY <1>1, <1>2, <1>3, <1>4, Grown
<1>6. /\ Len(entries') \in 0..Len(entries')
      /\ \A i \in 0..Len(entries) : i \in 0..Len(entries')
      /\ StackInv(entries', undoStack, redoStack)
  BY <1>2, <1>5 DEF Growth
<1>7. StackInv(entries', undoStack', redoStack')
  <2>1. Logged(entries', r)
    BY <1>1, <1>2, <1>3, LogAppend
  <2>2. LoggedRuns(entries', undoStack)
    BY <1>6 DEF StackInv
  <2>3. LoggedRuns(entries', undoStack')
    <3>1. /\ undoStack' \in Seq(Runs) /\ Len(undoStack') = Len(undoStack) + 1
          /\ Len(undoStack) \in Nat
          /\ undoStack'[Len(undoStack')] = r
          /\ \A k \in 1..Len(undoStack) : undoStack'[k] = undoStack[k]
      BY <1>1, <1>3, <2>2 DEF LoggedRuns
    <3>2. ASSUME NEW k \in 1..Len(undoStack') PROVE Logged(entries', undoStack'[k])
      <4>1. CASE k \in 1..Len(undoStack)
        BY <2>2, <3>1, <4>1 DEF LoggedRuns
      <4>2. CASE k = Len(undoStack')
        BY <2>1, <3>1, <4>2
      <4> QED BY <3>1, <4>1, <4>2
    <3> QED BY <3>1, <3>2 DEF LoggedRuns
  <2> QED BY <1>1, <1>6, <2>3 DEF StackInv
<1>8. SessionTyped'
  <2>1. paused' \in BOOLEAN /\ locked' \in BOOLEAN /\ missed' \subseteq {"run", "gap"}
           /\ agent' \in AgentStates /\ spent' \in [Disturbances -> Nat] /\ ws' \in [Paths -> Contents]
    BY <1>1, <1>2 DEF SessionTyped, AgentStates
  <2> QED BY <1>1, <1>2, <1>6, <2>1, TypesGrow
<1>9. RunInv'
  BY <1>1, NothingStaged
<1> QED BY <1>4, <1>7, <1>8, <1>9 DEF HistInv

\* A barrier ends the run that goes on.
LEMMA BarrierStep ==
  ASSUME HistInv, AppendBarrier, staged' = None, agent' = "idle",
         UNCHANGED ws, paused' \in BOOLEAN, locked' \in BOOLEAN,
         missed' \subseteq {"run", "gap"}, spent' \in [Disturbances -> Nat],
         \/ UNCHANGED <<undoStack, redoStack>>
         \/ undoStack' = <<>> /\ redoStack' = <<>>
  PROVE  HistInv'
<1> DEFINE e == [kind |-> "barrier", parent |-> leaf]
<1>1. /\ FileInv(entries) /\ SessionTyped /\ StackInv(entries, undoStack, redoStack)
      /\ leaf \in 0..Len(entries) /\ leaf \in Nat /\ ws \in [Paths -> Contents]
  BY InvFacts
<1>2. entries' = Append(entries, e) /\ leaf' = Len(entries')
  BY DEF AppendBarrier, Appended
<1>3. e \in EntryTypes /\ e.parent = leaf /\ e.kind \notin {"checkpoint", "cursor"}
  BY <1>1 DEF EntryTypes, BarrierEntries
<1> HIDE DEF e
<1>4. FileInv(entries')
  BY <1>1, <1>2, <1>3, PlainAppend
<1>5. Growth(entries, e, entries')
  BY <1>1, <1>2, <1>3, <1>4, Grown
<1>6. /\ Len(entries') \in 0..Len(entries')
      /\ \A i \in 0..Len(entries) : i \in 0..Len(entries')
      /\ StackInv(entries', undoStack, redoStack)
  BY <1>1, <1>5 DEF Growth
<1>7. StackInv(entries', undoStack', redoStack')
  BY <1>6, EmptyStacks
<1>8. SessionTyped'
  <2>1. agent' \in AgentStates /\ ws' \in [Paths -> Contents]
    BY <1>1 DEF AgentStates
  <2> QED BY <1>1, <1>2, <1>6, <2>1, TypesGrow
<1>9. RunInv'
  BY NothingStaged
<1> QED BY <1>4, <1>7, <1>8, <1>9 DEF HistInv

\* settleRun without the prompt.
LEMMA PromptMissingKeeps ==
  ASSUME HistInv, PromptMissing
  PROVE  HistInv'
<1>1. /\ AppendBarrier /\ staged' = None /\ agent' = "idle" /\ locked' = TRUE
      /\ missed' = missed \cup {"run"}
      /\ UNCHANGED <<ws, paused, spent, undoStack, redoStack>>
  BY DEF PromptMissing, Settling
<1>2. SessionTyped
  BY DEF HistInv
<1>3. paused' \in BOOLEAN /\ locked' \in BOOLEAN /\ missed' \subseteq {"run", "gap"}
        /\ spent' \in [Disturbances -> Nat]
  BY <1>1, <1>2 DEF SessionTyped
<1> QED BY <1>1, <1>3, BarrierStep

\* settleRun when the capture or the append fails.
LEMMA SettleFailsKeeps ==
  ASSUME HistInv, SettleFails
  PROVE  HistInv'
<1>1. /\ AppendBarrier /\ staged' = None /\ agent' = "idle" /\ paused' = TRUE
      /\ missed' = missed \cup {"run"} /\ Spend("lost")
      /\ undoStack' = <<>> /\ redoStack' = <<>>
      /\ UNCHANGED <<ws, locked>>
  BY Zenon DEF SettleFails, Settling
<1>2. SessionTyped
  BY DEF HistInv
<1>3. spent' \in [Disturbances -> Nat]
  BY <1>1, <1>2, SpentTyped DEF SessionTyped, Disturbances
<1>4. paused' \in BOOLEAN /\ locked' \in BOOLEAN /\ missed' \subseteq {"run", "gap"}
  BY <1>1, <1>2 DEF SessionTyped
<1> QED BY <1>1, <1>3, <1>4, BarrierStep

-----------------------------------------------------------------------------
(* Undo, redo and the navigation of the tree.                              *)

\* The last element of a sequence and the rest.
LEMMA FrontFacts ==
  ASSUME NEW T, NEW s \in Seq(T), s /= <<>>
  PROVE  /\ Len(s) \in Nat \ {0} /\ Last(s) = s[Len(s)] /\ Last(s) \in T
         /\ Front(s) \in Seq(T) /\ Len(Front(s)) = Len(s) - 1
         /\ \A k \in 1..(Len(s) - 1) : Front(s)[k] = s[k] /\ k \in 1..Len(s)
<1>1. Len(s) \in Nat \ {0}
  BY EmptySeq
<1>2. Last(s) = s[Len(s)] /\ Last(s) \in T
  BY <1>1 DEF Last
<1>3. /\ Front(s) \in Seq(T) /\ Len(Front(s)) = Len(s) - 1
      /\ \A k \in 1..(Len(s) - 1) : Front(s)[k] = s[k] /\ k \in 1..Len(s)
  <2> DEFINE n == Len(s)
             m == n - 1
  <2>1. n \in Nat \ {0}
    BY <1>1
  <2>2. Front(s) = SubSeq(s, 1, m)
    BY DEF Front
  <2> HIDE DEF n
  <2>3. m \in Nat /\ m = n - 1 /\ 1 \in 1..(n + 1) /\ m \in 0..n
    BY <2>1
  <2> HIDE DEF m
  <2>4. /\ SubSeq(s, 1, m) \in Seq(T)
        /\ Len(SubSeq(s, 1, m)) = IF 1 <= m THEN m - 1 + 1 ELSE 0
        /\ \A i \in 1..(m - 1 + 1) : SubSeq(s, 1, m)[i] = s[1 + i - 1]
    BY <2>3, SubSeqProperties DEF n
  <2>5. Len(SubSeq(s, 1, m)) = m /\ \A i \in 1..m : SubSeq(s, 1, m)[i] = s[i] /\ i \in 1..n
    BY <2>1, <2>3, <2>4
  <2> QED BY <2>2, <2>3, <2>4, <2>5 DEF n
<1> QED BY <1>1, <1>2, <1>3

\* The identifiers of a redo stack.
LEMMA IdsFacts ==
  ASSUME NEW r \in Seq(Undone)
  PROVE  /\ IdsOf(r) \in Seq(Nat) /\ Len(IdsOf(r)) = Len(r)
         /\ \A k \in 1..Len(r) : IdsOf(r)[k] = r[k].checkpoint.start
<1>1. DOMAIN r = 1..Len(r) /\ Len(r) \in Nat /\ \A k \in 1..Len(r) : r[k] \in Undone
  OBVIOUS
<1>2. \A k \in 1..Len(r) : r[k].checkpoint.start \in Nat
  BY <1>1 DEF Undone, Runs
<1>3. IdsOf(r) = [k \in 1..Len(r) |-> r[k].checkpoint.start]
  BY <1>1 DEF IdsOf
<1> QED BY <1>1, <1>2, <1>3

\* Equal elements make equal prefixes.
LEMMA PrefixEqual ==
  ASSUME NEW s \in Seq(Nat), NEW t \in Seq(Nat), NEW k \in Nat, k <= Len(s), k <= Len(t),
         \A i \in 1..k : s[i] = t[i]
  PROVE  SubSeq(s, 1, k) = SubSeq(t, 1, k)
<1>1. CASE k = 0
  BY <1>1
<1>2. CASE k /= 0
  <2>1. k \in 1..Len(s) /\ k \in 1..Len(t)
    BY <1>2
  <2>2. /\ SubSeq(s, 1, k) \in Seq(Nat) /\ Len(SubSeq(s, 1, k)) = k
        /\ \A i \in 1..k : SubSeq(s, 1, k)[i] = s[i]
    BY <2>1, SubSeqFacts, SMTT(60)
  <2>3. /\ SubSeq(t, 1, k) \in Seq(Nat) /\ Len(SubSeq(t, 1, k)) = k
        /\ \A i \in 1..k : SubSeq(t, 1, k)[i] = t[i]
    BY <2>1, SubSeqFacts, SMTT(60)
  <2> QED BY <2>2, <2>3, SeqEqual
<1> QED BY <1>1, <1>2

\* u is r with the run x on top.
Pushed(r, x, u) ==
  /\ u \in Seq(Undone) /\ Len(r) \in Nat /\ Len(u) = Len(r) + 1 /\ u[Len(u)] = x
  /\ \A k \in 1..Len(r) : u[k] = r[k]
  /\ IdsOf(u) \in Seq(Nat) /\ Len(IdsOf(u)) = Len(r) + 1
  /\ IdsOf(u)[Len(IdsOf(u))] = x.checkpoint.start
  /\ \A k \in 1..Len(r) : IdsOf(u)[k] = r[k].checkpoint.start
  /\ \A k \in 1..Len(r) : SubSeq(IdsOf(u), 1, k) = SubSeq(IdsOf(r), 1, k)

\* A run put on the redo stack leaves the identifiers below it alone.
LEMMA PushFacts ==
  ASSUME NEW r \in Seq(Undone), NEW x \in Undone, NEW u, u = Append(r, x)
  PROVE  Pushed(r, x, u)
<1>1. /\ u \in Seq(Undone) /\ Len(r) \in Nat /\ Len(u) = Len(r) + 1 /\ u[Len(u)] = x
      /\ \A k \in 1..Len(r) : u[k] = r[k]
  OBVIOUS
<1>2. /\ IdsOf(u) \in Seq(Nat) /\ Len(IdsOf(u)) = Len(u)
      /\ IdsOf(r) \in Seq(Nat) /\ Len(IdsOf(r)) = Len(r)
      /\ \A k \in 1..Len(u) : IdsOf(u)[k] = u[k].checkpoint.start
      /\ \A k \in 1..Len(r) : IdsOf(r)[k] = r[k].checkpoint.start
  BY <1>1, IdsFacts
<1>3. \A k \in 1..Len(r) : IdsOf(u)[k] = r[k].checkpoint.start /\ IdsOf(u)[k] = IdsOf(r)[k]
  BY <1>1, <1>2, SMTT(60)
<1>4. IdsOf(u)[Len(IdsOf(u))] = x.checkpoint.start
  <2>1. Len(u) \in 1..Len(u)
    BY <1>1
  <2> QED BY <1>1, <1>2, <2>1
<1>5. ASSUME NEW k \in 1..Len(r) PROVE SubSeq(IdsOf(u), 1, k) = SubSeq(IdsOf(r), 1, k)
  <2>1. k \in Nat /\ k <= Len(IdsOf(u)) /\ k <= Len(IdsOf(r))
    BY <1>1, <1>2
  <2>2. \A i \in 1..k : IdsOf(u)[i] = IdsOf(r)[i]
    BY <1>1, <1>3
  <2> QED BY <1>2, <2>1, <2>2, PrefixEqual
<1> QED BY <1>1, <1>2, <1>3, <1>4, <1>5 DEF Pushed

\* So does a run taken from it.
LEMMA PopFacts ==
  ASSUME NEW r \in Seq(Undone), r /= <<>>, NEW u, u = Front(r)
  PROVE  /\ u \in Seq(Undone) /\ Len(u) = Len(r) - 1 /\ Len(r) \in Nat \ {0}
         /\ \A k \in 1..Len(u) : u[k] = r[k] /\ k \in 1..Len(r)
         /\ IdsOf(u) \in Seq(Nat) /\ Len(IdsOf(u)) = Len(u)
         /\ \A k \in 1..Len(u) : IdsOf(u)[k] = r[k].checkpoint.start
         /\ \A k \in 1..Len(u) : SubSeq(IdsOf(u), 1, k) = SubSeq(IdsOf(r), 1, k)
<1>1. /\ u \in Seq(Undone) /\ Len(u) = Len(r) - 1 /\ Len(r) \in Nat \ {0}
      /\ \A k \in 1..Len(u) : u[k] = r[k] /\ k \in 1..Len(r)
  BY FrontFacts
<1>2. /\ IdsOf(u) \in Seq(Nat) /\ Len(IdsOf(u)) = Len(u)
      /\ IdsOf(r) \in Seq(Nat) /\ Len(IdsOf(r)) = Len(r)
      /\ \A k \in 1..Len(u) : IdsOf(u)[k] = u[k].checkpoint.start
      /\ \A k \in 1..Len(r) : IdsOf(r)[k] = r[k].checkpoint.start
  BY <1>1, IdsFacts
<1>3. \A k \in 1..Len(u) : IdsOf(u)[k] = r[k].checkpoint.start /\ IdsOf(u)[k] = IdsOf(r)[k]
  BY <1>1, <1>2, ZenonT(60)
<1>4. ASSUME NEW k \in 1..Len(u) PROVE SubSeq(IdsOf(u), 1, k) = SubSeq(IdsOf(r), 1, k)
  <2>1. k \in Nat /\ k <= Len(IdsOf(u)) /\ k <= Len(IdsOf(r))
    BY <1>1, <1>2
  <2>2. \A i \in 1..k : IdsOf(u)[i] = IdsOf(r)[i]
    BY <1>1, <1>3
  <2> QED BY <1>2, <2>1, <2>2, PrefixEqual
<1> QED BY <1>1, <1>2, <1>3, <1>4

\* The last run of a stack is logged, and so are those below it.
LEMMA LoggedLast ==
  ASSUME NEW es, NEW s, LoggedRuns(es, s), s /= <<>>
  PROVE  /\ Len(s) \in Nat \ {0} /\ Logged(es, Last(s)) /\ Last(s) = s[Len(s)]
         /\ LoggedRuns(es, Front(s)) /\ Len(Front(s)) = Len(s) - 1
<1>1. s \in Seq(Runs)
  BY DEF LoggedRuns
<1>2. /\ Len(s) \in Nat \ {0} /\ Last(s) = s[Len(s)]
      /\ Front(s) \in Seq(Runs) /\ Len(Front(s)) = Len(s) - 1
      /\ \A k \in 1..(Len(s) - 1) : Front(s)[k] = s[k] /\ k \in 1..Len(s)
  BY <1>1, FrontFacts
<1>3. Len(s) \in 1..Len(s)
  BY <1>2
<1> QED BY <1>2, <1>3 DEF LoggedRuns

\* A logged run can be pushed.
LEMMA LoggedPush ==
  ASSUME NEW es, NEW s, LoggedRuns(es, s), NEW c \in Runs, Logged(es, c)
  PROVE  LoggedRuns(es, Append(s, c))
<1> DEFINE t == Append(s, c)
<1>1. /\ t \in Seq(Runs) /\ Len(s) \in Nat /\ Len(t) = Len(s) + 1 /\ t[Len(t)] = c
      /\ \A k \in 1..Len(s) : t[k] = s[k]
  BY DEF LoggedRuns
<1> HIDE DEF t
<1>2. ASSUME NEW k \in 1..Len(t) PROVE Logged(es, t[k])
  <2>1. CASE k \in 1..Len(s)
    BY <1>1, <2>1 DEF LoggedRuns
  <2>2. CASE k = Len(t)
    BY <1>1, <2>2
  <2> QED BY <1>1, <2>1, <2>2
<1>3. LoggedRuns(es, t)
  BY <1>1, <1>2 DEF LoggedRuns
<1> QED BY <1>3 DEF t

\* The cursor of an operation is appended and becomes the leaf.
LEMMA CursorStep ==
  ASSUME HistInv, NEW e \in EntryTypes, e.kind = "cursor", e.parent \in 0..Len(entries),
         CursorAnswered(entries, e),
         entries' = Append(entries, e), leaf' = Len(entries'), staged' = None,
         agent' \in {"accepted", "idle"}, ws' \in [Paths -> Contents],
         UNCHANGED <<paused, locked>>, missed' \subseteq {"run", "gap"},
         spent' \in [Disturbances -> Nat]
  PROVE  FileInv(entries') /\ SessionTyped' /\ RunInv' /\ Growth(entries, e, entries')
<1>1. FileInv(entries) /\ SessionTyped
  BY DEF HistInv
<1>2. FileInv(entries')
  BY <1>1, FileAppend
<1>3. Growth(entries, e, entries')
  BY <1>1, <1>2, Grown
<1>4. Len(entries') \in 0..Len(entries') /\ \A i \in 0..Len(entries) : i \in 0..Len(entries')
  BY <1>3 DEF Growth
<1>5. paused' \in BOOLEAN /\ locked' \in BOOLEAN /\ agent' \in AgentStates
  BY <1>1 DEF SessionTyped, AgentStates
<1>6. SessionTyped'
  BY <1>1, <1>4, <1>5, TypesGrow
<1>7. RunInv'
  BY NothingStaged
<1> QED BY <1>2, <1>3, <1>6, <1>7

\* The fields of a cursor.
LEMMA CursorTyped ==
  ASSUME NEW action \in {"undo", "redo", "tree"}, NEW parent \in 0..Len(entries),
         NEW head \in Nat, NEW redo \in Seq(Nat), NEW rollback \in Snaps, NEW target \in Snaps,
         FileInv(entries), NEW e, e = Cursor(action, parent, head, redo, rollback, target)
  PROVE  /\ e \in EntryTypes /\ e.kind = "cursor" /\ e.parent = parent /\ e.action = action
         /\ e.head = head /\ e.redo = redo /\ e.rollback = rollback /\ e.target = target
<1>1. LogicalLeaf(parent) \in Nat /\ parent \in Nat
  BY FileFacts
<1> QED BY <1>1 DEF Cursor, EntryTypes, CursorEntries

\* undo: its cursor names the runs below the top and the redo stack with the run it
\* undid, and is itself the undo that a redo of that run looks for.
LEMMA UndoKeeps ==
  ASSUME HistInv, Undo
  PROVE  HistInv'
<1> DEFINE c == Last(undoStack)
           scope == ChangedPaths(c)
           safety == SafetyCapture(c.after, scope)
           x == [checkpoint |-> c, target |-> safety]
           undone == Append(redoStack, x)
           head == IF Len(undoStack) = 1 THEN 0 ELSE Last(Front(undoStack)).start
           parent == Landing(c.user)
           e == Cursor("undo", parent, head, IdsOf(undone), safety, c.before)
<1>1. /\ undoStack /= <<>> /\ entries' = Append(entries, e) /\ leaf' = Len(entries')
      /\ ws' = Overwritten(c.before, scope) /\ undoStack' = Front(undoStack)
      /\ redoStack' = undone /\ staged' = None /\ agent' \in {"accepted", "idle"}
      /\ UNCHANGED <<paused, locked, spent, missed>>
  BY DEF Undo, Ready, Appended
<1>2. /\ FileInv(entries) /\ SessionTyped /\ StackInv(entries, undoStack, redoStack)
      /\ entries \in Seq(EntryTypes) /\ ws \in [Paths -> Contents]
      /\ spent \in [Disturbances -> Nat]
      /\ LoggedRuns(entries, undoStack) /\ redoStack \in Seq(Undone)
  BY InvFacts DEF StackInv
<1>3. /\ Len(undoStack) \in Nat \ {0} /\ Logged(entries, c) /\ c \in Runs /\ c.user \in Ids
      /\ Named(entries, c.start) /\ c.before \in Full /\ c.after \in Full
      /\ LoggedRuns(entries, Front(undoStack)) /\ Len(Front(undoStack)) = Len(undoStack) - 1
  <2>1. /\ Len(undoStack) \in Nat \ {0} /\ Logged(entries, c)
        /\ LoggedRuns(entries, Front(undoStack)) /\ Len(Front(undoStack)) = Len(undoStack) - 1
    BY <1>1, <1>2, LoggedLast
  <2> HIDE DEF c
  <2> QED BY <1>2, <2>1, LoggedFacts, RunFacts
<1>4. /\ safety \in Snaps /\ Covers(safety, c) /\ c.before \in Snaps
      /\ Overwritten(c.before, scope) \in [Paths -> Contents]
  <2> HIDE DEF c
  <2>1. c.after \in Snaps /\ Covers(c.after, c) /\ c.before \in Snaps /\ Covers(c.before, c)
    BY <1>2, <1>3, CaptureFacts
  <2> QED BY <1>2, <1>3, <2>1, CaptureFacts
<1>5. x \in Undone /\ x.checkpoint = c /\ x.target = safety
  <2> HIDE DEF c, safety
  <2> QED BY <1>3, <1>4 DEF Undone
<1>6. head \in Nat /\ (head = 0 \/ Named(entries, head))
  <2>1. CASE Len(undoStack) = 1
    BY <2>1
  <2>2. CASE Len(undoStack) /= 1
    <3> DEFINE d == Last(Front(undoStack))
    <3>1. Front(undoStack) /= <<>>
      BY <1>3, <2>2, EmptySeq
    <3>2. Logged(entries, d)
      BY <1>3, <3>1, LoggedLast
    <3>3. head = d.start
      BY <2>2
    <3> HIDE DEF d, head
    <3> QED BY <1>2, <3>2, <3>3, LoggedFacts, RunFacts
  <2> QED BY <2>1, <2>2
<1>7. parent \in 0..Len(entries)
  <2> HIDE DEF c
  <2> QED BY <1>2, <1>3, LandingFacts
<1> HIDE DEF c, scope, safety, x, head, parent
<1>8. /\ undone \in Seq(Undone) /\ Len(redoStack) \in Nat /\ Len(undone) = Len(redoStack) + 1
      /\ undone[Len(undone)] = x
      /\ \A k \in 1..Len(redoStack) : undone[k] = redoStack[k]
      /\ IdsOf(undone) \in Seq(Nat) /\ Len(IdsOf(undone)) = Len(redoStack) + 1
      /\ IdsOf(undone)[Len(IdsOf(undone))] = x.checkpoint.start
      /\ \A k \in 1..Len(redoStack) : IdsOf(undone)[k] = redoStack[k].checkpoint.start
      /\ \A k \in 1..Len(redoStack) : SubSeq(IdsOf(undone), 1, k) = SubSeq(IdsOf(redoStack), 1, k)
  <2>1. Pushed(redoStack, x, undone)
    <3>1. undone = Append(redoStack, x)
      OBVIOUS
    <3> HIDE DEF undone
    <3> QED BY <1>2, <1>5, <3>1, PushFacts
  <2> HIDE DEF undone
  <2> QED BY <1>5, <2>1 DEF Pushed
<1> HIDE DEF undone
<1>9. /\ e \in EntryTypes /\ e.kind = "cursor" /\ e.parent = parent /\ e.action = "undo"
      /\ e.head = head /\ e.redo = IdsOf(undone) /\ e.rollback = safety
  BY <1>2, <1>4, <1>6, <1>7, <1>8, CursorTyped
<1> HIDE DEF e
<1>10. CursorAnswered(entries, e)
  <2>1. \A k \in 1..Len(redoStack) : Named(entries, redoStack[k].checkpoint.start)
    BY <1>2, LoggedFacts DEF StackInv
  <2>2. \A k \in 1..Len(redoStack) : LeftByUndo(entries, SubSeq(IdsOf(redoStack), 1, k))
    BY <1>2 DEF StackInv
  <2>3. ASSUME NEW k \in 1..Len(e.redo)
        PROVE  /\ Named(entries, e.redo[k])
               /\ (e.action = "undo" /\ k = Len(e.redo)) \/ LeftByUndo(entries, SubSeq(e.redo, 1, k))
    <3>1. CASE k \in 1..Len(redoStack)
      BY <1>8, <1>9, <2>1, <2>2, <3>1
    <3>2. CASE k = Len(e.redo)
      BY <1>3, <1>5, <1>8, <1>9, <3>2
    <3>3. k \in 1..Len(redoStack) \/ k = Len(e.redo)
      BY <1>8, <1>9
    <3> QED BY <3>1, <3>2, <3>3
  <2>4. Len(e.redo) /= 0
    BY <1>8, <1>9
  <2>5. ASSUME NEW i \in 1..Len(entries), entries[i].kind = "checkpoint",
               entries[i].record.start = e.redo[Len(e.redo)]
        PROVE  Covers(e.rollback, entries[i].record)
    <3>1. Logged(entries, entries[i].record)
      BY <2>5 DEF Logged
    <3>2. entries[i].record = c
      BY <1>2, <1>3, <1>5, <1>8, <1>9, <2>5, <3>1, LoggedOnce
    <3> QED BY <1>4, <1>9, <3>2
  <2>6. e.head = 0 \/ Named(entries, e.head)
    BY <1>6, <1>9
  <2> QED BY <2>3, <2>4, <2>5, <2>6 DEF CursorAnswered
<1>11. /\ FileInv(entries') /\ SessionTyped' /\ RunInv' /\ Growth(entries, e, entries')
  <2>1. missed' \subseteq {"run", "gap"} /\ spent' \in [Disturbances -> Nat]
    BY <1>1, <1>2 DEF SessionTyped
  <2>2. ws' \in [Paths -> Contents]
    BY <1>1, <1>4
  <2> QED BY <1>1, <1>7, <1>9, <1>10, <2>1, <2>2, CursorStep
<1>12. StackInv(entries', undoStack', redoStack')
  <2>1. LoggedRuns(entries', undoStack')
    BY <1>1, <1>3, <1>11 DEF Growth
  <2>2. StackInv(entries', undoStack, redoStack)
    BY <1>2, <1>11 DEF Growth
  <2>3. Logged(entries', c) /\ LeftByUndo(entries', IdsOf(undone))
    BY <1>1, <1>2, <1>3, <1>9, LogAppend, ZenonT(60)
  <2>4. ASSUME NEW k \in 1..Len(undone)
        PROVE  /\ Logged(entries', undone[k].checkpoint)
               /\ Covers(undone[k].target, undone[k].checkpoint)
               /\ LeftByUndo(entries', SubSeq(IdsOf(undone), 1, k))
    <3>1. CASE k \in 1..Len(redoStack)
      BY <1>8, <2>2, <3>1 DEF StackInv
    <3>2. CASE k = Len(undone)
      <4>1. SubSeq(IdsOf(undone), 1, k) = IdsOf(undone)
        BY <1>8, <3>2, WholeSubSeq
      <4> QED BY <1>4, <1>5, <1>8, <2>3, <3>2, <4>1
    <3>3. k \in 1..Len(redoStack) \/ k = Len(undone)
      BY <1>8
    <3> QED BY <3>1, <3>2, <3>3
  <2> QED BY <1>1, <1>8, <2>1, <2>4 DEF StackInv
<1> QED BY <1>11, <1>12 DEF HistInv

\* redo: the identifiers left on the redo stack are a prefix of those before, which an
\* earlier undo left.
LEMMA RedoKeeps ==
  ASSUME HistInv, Redo
  PROVE  HistInv'
<1> DEFINE x == Last(redoStack)
           c == x.checkpoint
           target == x.target
           scope == ChangedPaths(c)
           safety == SafetyCapture(c.before, scope)
           rest == Front(redoStack)
           parent == Landing(c.end)
           e == Cursor("redo", parent, c.start, IdsOf(rest), safety, target)
<1>1. /\ redoStack /= <<>> /\ entries' = Append(entries, e) /\ leaf' = Len(entries')
      /\ ws' = Overwritten(target, scope) /\ undoStack' = Append(undoStack, c)
      /\ redoStack' = rest /\ staged' = None /\ agent' \in {"accepted", "idle"}
      /\ UNCHANGED <<paused, locked, spent, missed>>
  BY DEF Redo, Ready, Appended
<1>2. /\ FileInv(entries) /\ SessionTyped /\ StackInv(entries, undoStack, redoStack)
      /\ entries \in Seq(EntryTypes) /\ ws \in [Paths -> Contents]
      /\ spent \in [Disturbances -> Nat]
      /\ LoggedRuns(entries, undoStack) /\ redoStack \in Seq(Undone)
  BY InvFacts DEF StackInv
<1>3. x \in Undone /\ Logged(entries, c) /\ Covers(target, c)
  <2>1. Len(redoStack) \in Nat \ {0} /\ x = redoStack[Len(redoStack)] /\ x \in Undone
    BY <1>1, <1>2, FrontFacts
  <2> HIDE DEF x
  <2>2. Len(redoStack) \in 1..Len(redoStack)
    BY <2>1
  <2> QED BY <1>2, <2>1, <2>2 DEF StackInv
<1>4. target \in Snaps
  <2> HIDE DEF x
  <2> QED BY <1>3 DEF Undone
<1> HIDE DEF x, c, target
<1>5. c \in Runs /\ c.end \in Ids /\ Named(entries, c.start) /\ c.before \in Full /\ c.start \in Nat
  BY <1>2, <1>3, LoggedFacts, RunFacts
<1>6. safety \in Snaps /\ Overwritten(target, scope) \in [Paths -> Contents]
  <2>1. c.before \in Snaps
    BY <1>2, <1>5, CaptureFacts
  <2> QED BY <1>2, <1>3, <1>4, <1>5, <2>1, CaptureFacts
<1>7. parent \in 0..Len(entries)
  BY <1>2, <1>5, LandingFacts
<1> HIDE DEF scope, safety, parent
<1>8. /\ rest \in Seq(Undone) /\ Len(rest) = Len(redoStack) - 1 /\ Len(redoStack) \in Nat \ {0}
      /\ \A k \in 1..Len(rest) : rest[k] = redoStack[k] /\ k \in 1..Len(redoStack)
      /\ IdsOf(rest) \in Seq(Nat) /\ Len(IdsOf(rest)) = Len(rest)
      /\ \A k \in 1..Len(rest) : IdsOf(rest)[k] = redoStack[k].checkpoint.start
      /\ \A k \in 1..Len(rest) : SubSeq(IdsOf(rest), 1, k) = SubSeq(IdsOf(redoStack), 1, k)
  BY <1>1, <1>2, PopFacts
<1> HIDE DEF rest
<1>9. /\ e \in EntryTypes /\ e.kind = "cursor" /\ e.parent = parent /\ e.action = "redo"
      /\ e.head = c.start /\ e.redo = IdsOf(rest)
  BY <1>2, <1>4, <1>5, <1>6, <1>7, <1>8, CursorTyped
<1> HIDE DEF e
<1>10. CursorAnswered(entries, e)
  <2>1. \A k \in 1..Len(redoStack) : Named(entries, redoStack[k].checkpoint.start)
    BY <1>2, LoggedFacts DEF StackInv
  <2>2. \A k \in 1..Len(redoStack) : LeftByUndo(entries, SubSeq(IdsOf(redoStack), 1, k))
    BY <1>2 DEF StackInv
  <2>3. \A k \in 1..Len(e.redo) : Named(entries, e.redo[k]) /\ LeftByUndo(entries, SubSeq(e.redo, 1, k))
    BY <1>8, <1>9, <2>1, <2>2
  <2>4. e.action /= "undo"
    BY <1>9
  <2>5. Named(entries, e.head)
    BY <1>5, <1>9
  <2> QED BY <2>3, <2>4, <2>5 DEF CursorAnswered
<1>11. /\ FileInv(entries') /\ SessionTyped' /\ RunInv' /\ Growth(entries, e, entries')
  <2>1. missed' \subseteq {"run", "gap"} /\ spent' \in [Disturbances -> Nat]
    BY <1>1, <1>2 DEF SessionTyped
  <2>2. ws' \in [Paths -> Contents]
    BY <1>1, <1>6
  <2> QED BY <1>1, <1>7, <1>9, <1>10, <2>1, <2>2, CursorStep
<1>12. StackInv(entries', undoStack', redoStack')
  <2>1. StackInv(entries', undoStack, redoStack)
    BY <1>2, <1>11 DEF Growth
  <2>2. LoggedRuns(entries', undoStack')
    <3>1. Logged(entries', c)
      BY <1>1, <1>2, <1>3, <1>9, LogAppend
    <3> QED BY <1>1, <1>5, <2>1, <3>1, LoggedPush DEF StackInv
  <2>3. \A k \in 1..Len(rest) : /\ Logged(entries', rest[k].checkpoint)
                                /\ Covers(rest[k].target, rest[k].checkpoint)
                                /\ LeftByUndo(entries', SubSeq(IdsOf(rest), 1, k))
    BY <1>8, <2>1 DEF StackInv
  <2> QED BY <1>1, <1>8, <2>2, <2>3 DEF StackInv
<1> QED BY <1>11, <1>12 DEF HistInv

\* prepareTree and applyPreparedTree: the stack of the target becomes the undo stack.
LEMMA TreeKeeps ==
  ASSUME HistInv, Tree
  PROVE  HistInv'
<1>1. /\ agent = "idle" /\ staged = None /\ redoStack' = <<>> /\ leaf' = Len(entries')
      /\ UNCHANGED <<paused, locked, staged, agent>> /\ Spend("tree")
  BY Zenon DEF Tree
<1>2. PICK id \in Ids :
        /\ TreeTarget(id) /= None /\ TreeTarget(id).manifest.complete
        /\ entries' = Append(entries,
             Cursor("tree", Landing(id),
                    IF TreeTarget(id).undo = <<>> THEN 0 ELSE Last(TreeTarget(id).undo).start,
                    <<>>, Capture, TreeTarget(id).manifest))
        /\ ws' = TreeTarget(id).manifest.files
        /\ undoStack' = TreeTarget(id).undo
        /\ missed' = missed \cup GapIn(TreeTarget(id).undo, TreeTarget(id).leaf)
  BY Zenon DEF Tree, Appended
<1> DEFINE t == TreeTarget(id)
           head == IF t.undo = <<>> THEN 0 ELSE Last(t.undo).start
           redo == <<>>
           parent == Landing(id)
           e == Cursor("tree", parent, head, redo, Capture, t.manifest)
<1>3. /\ FileInv(entries) /\ SessionTyped /\ ws \in [Paths -> Contents]
      /\ spent \in [Disturbances -> Nat] /\ entries \in Seq(EntryTypes)
  BY InvFacts
<1>4. t.manifest \in Snaps /\ LoggedRuns(entries, t.undo)
  BY <1>2, <1>3, TreeTargetFacts
<1>5. /\ entries' = Append(entries, e) /\ ws' = t.manifest.files /\ undoStack' = t.undo
      /\ t.manifest.complete /\ missed' = missed \cup GapIn(t.undo, t.leaf)
  BY <1>2
<1> HIDE DEF t
<1>6. ws' \in [Paths -> Contents]
  BY <1>4, <1>5, SnapFacts
<1>7. head \in Nat /\ (head = 0 \/ Named(entries, head))
  <2>1. CASE t.undo = <<>>
    BY <2>1
  <2>2. CASE t.undo /= <<>>
    <3> DEFINE d == Last(t.undo)
    <3>1. Logged(entries, d)
      BY <1>4, <2>2, LoggedLast
    <3>2. head = d.start
      BY <2>2
    <3> HIDE DEF d, head
    <3> QED BY <1>3, <3>1, <3>2, LoggedFacts, RunFacts
  <2> QED BY <2>1, <2>2
<1>8. parent \in 0..Len(entries)
  BY <1>2, <1>3, LandingFacts
<1>9. redo \in Seq(Nat) /\ Len(redo) = 0
  OBVIOUS
<1>10. Capture \in Snaps
  BY <1>3, CaptureFacts
<1> HIDE DEF head, parent, redo
<1>11. /\ e \in EntryTypes /\ e.kind = "cursor" /\ e.parent = parent /\ e.action = "tree"
       /\ e.head = head /\ e.redo = redo
  <2>1. e = Cursor("tree", parent, head, redo, Capture, t.manifest)
    OBVIOUS
  <2> DEFINE s == Capture
             m == t.manifest
  <2>2. s \in Snaps /\ m \in Snaps
    BY <1>4, <1>10
  <2> HIDE DEF s, m, e
  <2>3. e = Cursor("tree", parent, head, redo, s, m)
    BY <2>1 DEF s, m
  <2>4. FileInv(entries) /\ head \in Nat /\ redo \in Seq(Nat) /\ "tree" \in {"undo", "redo", "tree"}
    BY <1>3, <1>7, <1>9
  <2> QED BY ONLY <1>8, <2>2, <2>3, <2>4, CursorTyped
<1> HIDE DEF e
<1>12. CursorAnswered(entries, e)
  BY <1>7, <1>9, <1>11 DEF CursorAnswered
<1>13. missed' \subseteq {"run", "gap"}
  BY <1>3, <1>5 DEF SessionTyped, GapIn
<1>14. spent' \in [Disturbances -> Nat]
  BY <1>1, <1>3, SpentTyped DEF Disturbances
<1>15. /\ FileInv(entries') /\ SessionTyped' /\ RunInv' /\ Growth(entries, e, entries')
  BY <1>1, <1>5, <1>6, <1>8, <1>11, <1>12, <1>13, <1>14, CursorStep
<1>16. StackInv(entries', undoStack', redoStack')
  <2>1. LoggedRuns(entries', undoStack')
    BY <1>4, <1>5, <1>15 DEF Growth
  <2> QED BY <1>1, <2>1, EmptyStacks
<1> QED BY <1>15, <1>16 DEF HistInv

\* A new controller takes its stacks from the file and stages no run.
LEMMA RebuildKeeps ==
  ASSUME HistInv, NEW at \in 0..Len(entries), RebuildAt(at), UNCHANGED <<entries, ws>>,
         leaf' \in 0..Len(entries), agent' \in AgentStates, spent' \in [Disturbances -> Nat]
  PROVE  HistInv'
<1>1. FileInv(entries) /\ SessionTyped
  BY InvFacts
<1> DEFINE new == Rebuilt(at)
<1>2. /\ undoStack' = new.undo /\ redoStack' = new.redo /\ paused' = new.paused
      /\ missed' = missed \cup GapIn(new.undo, LogicalLeaf(at))
      /\ locked' = FALSE /\ staged' = None
  BY Zenon DEF RebuildAt
<1>3. StackInv(entries, new.undo, new.redo) /\ new.paused \in BOOLEAN
  BY <1>1, RebuiltFacts
<1> HIDE DEF new
<1>4. SessionTyped'
  BY <1>1, <1>2, <1>3 DEF SessionTyped, GapIn
<1>5. StackInv(entries', undoStack', redoStack')
  BY <1>2, <1>3
<1> QED BY <1>1, <1>2, <1>4, <1>5, NothingStaged DEF HistInv

\* /undo-recover.
LEMMA RecoverKeeps ==
  ASSUME HistInv, Recover
  PROVE  HistInv'
<1>1. /\ Spend("recover") /\ RebuildAt(leaf) /\ UNCHANGED <<entries, leaf, ws>>
      /\ agent' = IF agent = "abandoned" THEN "idle" ELSE agent
  BY Zenon DEF Recover
<1>2. leaf \in 0..Len(entries) /\ SessionTyped /\ spent \in [Disturbances -> Nat]
  BY InvFacts
<1>3. spent' \in [Disturbances -> Nat]
  BY <1>1, <1>2, SpentTyped DEF Disturbances
<1>4. agent' \in AgentStates
  BY <1>1, <1>2 DEF SessionTyped, AgentStates
<1> QED BY <1>1, <1>2, <1>3, <1>4, RebuildKeeps

\* A new process.
LEMMA RestartKeeps ==
  ASSUME HistInv, Restart
  PROVE  HistInv'
<1>1. /\ Spend("restart") \/ Spend("crash")
      /\ RebuildAt(Len(entries)) /\ UNCHANGED <<entries, ws>>
      /\ leaf' = Len(entries) /\ agent' = "idle"
  <2>1. Spend(IF Waiting THEN "restart" ELSE "crash")
    BY Zenon DEF Restart
  <2>2. CASE Waiting
    BY <2>1, <2>2, Zenon DEF Restart
  <2>3. CASE ~Waiting
    BY <2>1, <2>3, Zenon DEF Restart
  <2> QED BY <2>2, <2>3
<1>2. Len(entries) \in 0..Len(entries) /\ spent \in [Disturbances -> Nat]
  BY InvFacts
<1>3. spent' \in [Disturbances -> Nat]
  BY <1>1, <1>2, SpentTyped DEF Disturbances
<1>4. agent' \in AgentStates
  BY <1>1 DEF AgentStates
<1> QED BY <1>1, <1>2, <1>3, <1>4, RebuildKeeps

-----------------------------------------------------------------------------
(* HistInv is an invariant.                                                *)

\* A new session.
LEMMA HistInit == Init => HistInv
<1> SUFFICES ASSUME Init PROVE HistInv
  OBVIOUS
<1> DEFINE none == <<>>
           e == [kind |-> "system", parent |-> 0]
<1>1. none \in Seq(EntryTypes) /\ Len(none) = 0
  OBVIOUS
<1>2. <<e>> = Append(none, e)
  OBVIOUS
<1>3. e \in EntryTypes /\ e.kind = "system" /\ e.parent = 0
  BY DEF EntryTypes, MessageEntries, Messages
<1>4. entries = none \/ entries = Append(none, e)
  BY <1>2 DEF Init
<1> HIDE DEF none, e
<1>5. FileInv(none)
  <2>1. \A i \in 1..Len(none) : FALSE
    BY <1>1
  <2>2. FileTyped(none)
    BY <1>1, <2>1 DEF FileTyped, Ordered
  <2>3. RunsTrusted(none) /\ CursorsAnswered(none)
    BY <2>1 DEF RunsTrusted, CursorsAnswered
  <2>4. RunsNamedOnce(none)
    BY <2>1 DEF RunsNamedOnce
  <2> QED BY <2>2, <2>3, <2>4 DEF FileInv
<1>6. FileInv(Append(none, e))
  <2> DEFINE f == Append(none, e)
  <2>1. f = Append(none, e) /\ e.parent \in 0..Len(none) /\ e.kind \notin {"checkpoint", "cursor"}
    BY <1>1, <1>3
  <2> HIDE DEF f
  <2>2. FileInv(f)
    BY <1>3, <1>5, <2>1, PlainAppend
  <2> QED BY <2>1, <2>2
<1>7. FileInv(entries)
  BY <1>4, <1>5, <1>6
<1>8. SessionTyped
  <2>1. Len(entries) \in 0..Len(entries)
    BY <1>7, FileFacts
  <2> QED BY <2>1 DEF Init, SessionTyped, AgentStates
<1>9. StackInv(entries, undoStack, redoStack)
  BY EmptyStacks DEF Init
<1>10. RunInv
  BY DEF Init, RunInv
<1> QED BY <1>7, <1>8, <1>9, <1>10 DEF HistInv

\* One step per action.
LEMMA HistStep == HistInv /\ [Next]_vars => HistInv'
<1> SUFFICES ASSUME HistInv, [Next]_vars PROVE HistInv'
  OBVIOUS
<1>1. CASE Prompt
  BY <1>1, PromptKeeps
<1>2. CASE Abandon
  BY <1>2, AbandonKeeps
<1>3. CASE StartRun
  BY <1>3, StartRunKeeps
<1>4. CASE StartFails
  BY <1>4, StartFailsKeeps
<1>5. CASE PiUser
  BY <1>5, PiUserKeeps
<1>6. CASE PiReply
  BY <1>6, PiReplyKeeps
<1>7. CASE SettleUnrecorded
  BY <1>7, SettleUnrecordedKeeps
<1>8. CASE Settle
  BY <1>8, SettleKeeps
<1>9. CASE PromptMissing
  BY <1>9, PromptMissingKeeps
<1>10. CASE SettleFails
  BY <1>10, SettleFailsKeeps
<1>11. CASE Undo
  BY <1>11, UndoKeeps
<1>12. CASE Redo
  BY <1>12, RedoKeeps
<1>13. CASE UndoNothing
  BY <1>13, UndoNothingKeeps
<1>14. CASE Declined
  BY <1>14, DeclinedKeeps
<1>15. CASE Tree
  BY <1>15, TreeKeeps
<1>16. CASE Recover
  BY <1>16, RecoverKeeps
<1>17. CASE Restart
  BY <1>17, RestartKeeps
<1>18. CASE FinalizationFails
  BY <1>18, FinalizationFailsKeeps
<1>19. CASE Edit
  BY <1>19, EditKeeps
<1>20. CASE UNCHANGED vars
  <2>1. UNCHANGED <<entries, leaf, ws, undoStack, redoStack, paused, locked, staged, agent,
                    spent, missed>>
    BY <1>20, Zenon DEF vars, controller
  <2>2. SessionTyped'
    BY <2>1 DEF HistInv, SessionTyped
  <2>3. Quiet
    BY <2>1 DEF Quiet
  <2> QED BY <2>2, <2>3, QuietStep
<1> QED BY <1>1, <1>2, <1>3, <1>4, <1>5, <1>6, <1>7, <1>8, <1>9, <1>10, <1>11, <1>12, <1>13,
           <1>14, <1>15, <1>16, <1>17, <1>18, <1>19, <1>20, Zenon DEF Next

\* The invariant holds in every behaviour.
LEMMA HistInvAlways == Spec => []HistInv
<1>1. QED BY HistInit, HistStep, PTL DEF Spec

\* It implies the types the runs check.
LEMMA TypedByInv == HistInv => HistoryTypeOK
<1> SUFFICES ASSUME HistInv PROVE HistoryTypeOK
  OBVIOUS
<1>1. /\ FileInv(entries) /\ SessionTyped /\ StackInv(entries, undoStack, redoStack)
      /\ leaf \in 0..Len(entries) /\ Len(entries) \in Nat
  BY InvFacts
<1>2. Ids = 1..Len(entries) /\ 0..Len(entries) = {0} \cup Ids
  BY <1>1 DEF Ids
<1>3. \A i \in Ids : /\ entries[i].kind \in Messages \cup Control
                     /\ entries[i].parent \in 0..(i - 1)
  BY <1>1, FileFacts
<1>4. ASSUME NEW c, Logged(entries, c) PROVE c \in Records
  <2>1. /\ c \in Runs /\ c.start \in Ids /\ c.user \in Ids /\ c.end \in Ids
    BY <1>1, <1>4, LoggedFacts
  <2>2. c.before \in Manifests /\ c.after \in Manifests
    BY <2>1, RunFacts, SnapFacts DEF Snaps
  <2> QED BY <2>1, <2>2 DEF Runs, Records
<1>5. \A k \in DOMAIN undoStack : undoStack[k] \in Records
  <2>1. DOMAIN undoStack = 1..Len(undoStack) /\ \A k \in 1..Len(undoStack) : Logged(entries, undoStack[k])
    BY <1>1 DEF StackInv, LoggedRuns
  <2> QED BY <1>4, <2>1
<1>6. ASSUME NEW k \in DOMAIN redoStack
      PROVE  redoStack[k] \in [checkpoint : Records, target : Manifests]
  <2>1. redoStack[k] \in Undone /\ Logged(entries, redoStack[k].checkpoint)
    BY <1>1, <1>6 DEF StackInv
  <2>2. redoStack[k].target \in Manifests
    BY <2>1, SnapFacts DEF Undone
  <2> QED BY <1>4, <2>1, <2>2 DEF Undone
<1>7. staged = None \/ staged \in [before : Manifests, source : {0} \cup Ids, start : {0} \cup Ids]
  <2> SUFFICES ASSUME staged /= None
               PROVE staged \in [before : Manifests, source : {0} \cup Ids, start : {0} \cup Ids]
    OBVIOUS
  <2>1. staged \in [before : Full, source : 0..Len(entries), start : 0..Len(entries)]
    BY InvFacts
  <2>2. staged.before \in Manifests
    BY <2>1, SnapFacts DEF Snaps
  <2> QED BY <1>2, <2>1, <2>2
<1> QED BY <1>1, <1>2, <1>3, <1>5, <1>6, <1>7 DEF SessionTyped, HistoryTypeOK

\* It implies that a controller can be made.
LEMMA RebuildableByInv == HistInv => RebuildNeverFails
<1> SUFFICES ASSUME HistInv PROVE RebuildNeverFails
  OBVIOUS
<1>1. FileInv(entries) /\ leaf \in 0..Len(entries) /\ Len(entries) \in 0..Len(entries)
  BY InvFacts
<1> QED BY <1>1, AlwaysRebuildable DEF RebuildNeverFails

-----------------------------------------------------------------------------
(* Logical leaves, and the stacks that meet at one.                        *)

Running == agent \in {"started", "running", "replied"}

(* The logical leaf from which a run began (Boundary), in a file es.       *)
BoundaryIn(es, c) == LogicalIn(es, es[c.user].parent)

(* The undo stack leads from a logical leaf back, the redo stack onwards.  *)
Meets(es, s, l) ==
  \A k \in 1..Len(s) : s[k].end = IF k = Len(s) THEN l ELSE BoundaryIn(es, s[k + 1])
RedoMeets(es, r, l) ==
  \A k \in 1..Len(r) :
    BoundaryIn(es, r[k].checkpoint) = IF k = Len(r) THEN l ELSE r[k + 1].checkpoint.end

\* Where a logged run lies in the file.
LEMMA LoggedRange ==
  ASSUME NEW es, FileInv(es), NEW c, Logged(es, c)
  PROVE  /\ c \in Runs /\ c.start \in 1..Len(es) /\ c.user \in 1..Len(es) /\ c.end \in 1..Len(es)
         /\ c.start < c.user /\ c.user <= c.end /\ c.end < Len(es)
         /\ es[c.start].kind = "start" /\ es[c.end].kind \in Messages
         /\ es[c.user].kind = "user" /\ es[c.user].parent = c.start
         /\ BoundaryIn(es, c) = LogicalIn(es, c.start) /\ BoundaryIn(es, c) \in 0..c.start
<1>1. PICK i \in 1..Len(es) : es[i].kind = "checkpoint" /\ es[i].record = c
  BY DEF Logged
<1>2. es \in Seq(EntryTypes) /\ Len(es) \in Nat /\ Ordered(es, Len(es)) /\ TrustedIn(es, i)
  BY <1>1 DEF FileInv, FileTyped, RunsTrusted
<1>3. c \in Runs
  <2>1. es[i] \in EntryTypes
    BY <1>1, <1>2
  <2> QED BY <1>1, <2>1, EntryFacts DEF CheckpointEntries
<1>4. c.start \in Nat /\ c.user \in Nat /\ c.end \in Nat
  BY <1>3, RunFacts
<1>5. Up(es, i) \subseteq 1..i
  <2>1. i \in 0..Len(es)
    BY <1>1, <1>2
  <2> QED BY <1>2, <2>1, UpFacts
<1>6. /\ {c.start, c.user, c.end} \subseteq Up(es, i)
      /\ c.start < c.user /\ c.user <= c.end /\ c.end < i
      /\ es[c.start].kind = "start"
      /\ es[c.user].kind = "user" /\ es[c.user].parent = c.start
      /\ es[c.end].kind \in Messages
  BY <1>1, <1>2 DEF TrustedIn
<1>7. /\ c.start \in 1..Len(es) /\ c.user \in 1..Len(es) /\ c.end \in 1..Len(es)
      /\ c.end < Len(es) /\ c.start \in 0..Len(es)
  BY <1>1, <1>2, <1>4, <1>5, <1>6
<1>8. BoundaryIn(es, c) = LogicalIn(es, c.start)
  BY <1>6 DEF BoundaryIn
<1>9. LogicalIn(es, c.start) \in 0..c.start
  BY <1>2, <1>7, LogicalFacts
<1> QED BY <1>3, <1>6, <1>7, <1>8, <1>9

(* A file with one more entry: no branch, no logical leaf and no boundary   *)
(* there was has changed.                                                  *)
Extends(es, e, es2) ==
  /\ Len(es) \in Nat /\ Len(es2) = Len(es) + 1 /\ es2[Len(es2)] = e
  /\ \A i \in 1..Len(es) : i \in 1..Len(es2) /\ es2[i] = es[i] /\ i < Len(es2)
  /\ \A i \in 1..Len(es2) : i \in 1..Len(es) \/ i = Len(es2)
  /\ \A l \in 0..Len(es) : /\ Up(es2, l) = Up(es, l) /\ Up(es, l) \subseteq 1..Len(es)
                           /\ Up(es, l) \subseteq 1..l
                           /\ LogicalIn(es2, l) = LogicalIn(es, l)
  /\ \A c : Logged(es, c) => Logged(es2, c) /\ BoundaryIn(es2, c) = BoundaryIn(es, c)
  /\ \A c : Logged(es2, c) => Logged(es, c) \/ (e.kind = "checkpoint" /\ e.record = c)

\* What an append leaves alone.
LEMMA OldStays ==
  ASSUME NEW es, FileInv(es), NEW e \in EntryTypes, NEW es2, es2 = Append(es, e)
  PROVE  Extends(es, e, es2)
<1>1. /\ es \in Seq(EntryTypes) /\ Len(es) \in Nat /\ Ordered(es, Len(es))
  BY DEF FileInv, FileTyped
<1>2. /\ Len(es2) = Len(es) + 1
      /\ \A i \in 1..Len(es) : i \in 1..Len(es2) /\ es2[i] = es[i]
      /\ Len(es2) \in 1..Len(es2) /\ es2[Len(es2)] = e
      /\ \A i \in 1..Len(es2) : i \in 1..Len(es) \/ i = Len(es2)
  BY <1>1, AppendFacts
<1>3. \A i \in 1..Len(es) : i < Len(es2)
  BY <1>1, <1>2
<1>4. \A i \in 1..Len(es) : es2[i] = es[i]
  BY <1>2
<1>5. ASSUME NEW l \in 0..Len(es)
      PROVE  /\ Up(es2, l) = Up(es, l) /\ Up(es, l) \subseteq 1..Len(es)
             /\ Up(es, l) \subseteq 1..l /\ LogicalIn(es2, l) = LogicalIn(es, l)
  <2>1. Up(es2, l) = Up(es, l) /\ LogicalIn(es2, l) = LogicalIn(es, l)
    BY <1>1, <1>4, UpAppend, LogicalAppend
  <2>2. Up(es, l) \subseteq 1..l
    BY <1>1, UpFacts
  <2> QED BY <1>1, <2>1, <2>2
<1>6. ASSUME NEW c, Logged(es, c)
      PROVE  Logged(es2, c) /\ BoundaryIn(es2, c) = BoundaryIn(es, c)
  <2>1. Logged(es2, c)
    BY <1>1, <1>6, LogAppend
  <2>2. /\ c.user \in 1..Len(es) /\ es[c.user].parent = c.start /\ c.start \in 1..Len(es)
    BY <1>6, LoggedRange
  <2>3. es2[c.user].parent = c.start /\ c.start \in 0..Len(es)
    BY <1>1, <1>4, <2>2
  <2> QED BY <1>5, <2>1, <2>2, <2>3 DEF BoundaryIn
<1>7. ASSUME NEW c, Logged(es2, c)
      PROVE  Logged(es, c) \/ (e.kind = "checkpoint" /\ e.record = c)
  BY <1>2, <1>7 DEF Logged
<1> QED BY <1>1, <1>2, <1>3, <1>5, <1>6, <1>7 DEF Extends

\* Stacks that met at a logical leaf of the file still do.
LEMMA MeetingStays ==
  ASSUME NEW es, FileInv(es), NEW e \in EntryTypes, NEW es2, es2 = Append(es, e), NEW l
  PROVE  /\ \A s : LoggedRuns(es, s) /\ Meets(es, s, l) => Meets(es2, s, l)
         /\ \A r \in Seq(Undone) :
              (\A k \in 1..Len(r) : Logged(es, r[k].checkpoint)) /\ RedoMeets(es, r, l) =>
                RedoMeets(es2, r, l)
<1>1. \A c : Logged(es, c) => BoundaryIn(es2, c) = BoundaryIn(es, c)
  <2>1. Extends(es, e, es2)
    BY OldStays
  <2> QED BY <2>1 DEF Extends
<1>2. ASSUME NEW s, LoggedRuns(es, s), Meets(es, s, l) PROVE Meets(es2, s, l)
  <2> SUFFICES ASSUME NEW k \in 1..Len(s)
               PROVE  s[k].end = IF k = Len(s) THEN l ELSE BoundaryIn(es2, s[k + 1])
    BY DEF Meets
  <2>1. s[k].end = IF k = Len(s) THEN l ELSE BoundaryIn(es, s[k + 1])
    BY <1>2 DEF Meets
  <2>2. ASSUME k /= Len(s) PROVE Logged(es, s[k + 1])
    <3>1. Len(s) \in Nat
      BY <1>2 DEF LoggedRuns
    <3>2. k + 1 \in 1..Len(s)
      BY <2>2, <3>1
    <3> QED BY <1>2, <3>2 DEF LoggedRuns
  <2> QED BY <1>1, <2>1, <2>2
<1>3. ASSUME NEW r \in Seq(Undone), \A k \in 1..Len(r) : Logged(es, r[k].checkpoint),
             RedoMeets(es, r, l)
      PROVE  RedoMeets(es2, r, l)
  BY <1>1, <1>3 DEF RedoMeets
<1> QED BY <1>2, <1>3

-----------------------------------------------------------------------------
(* A session nobody disturbed: what the file then says of the workspace.   *)

(* A branch on which a run began after its last cursor.                    *)
InRun(es, l) ==
  \A j \in Up(es, l) : es[j].kind = "cursor" =>
    \E m \in Up(es, l) : m > j /\ es[m].kind = "start"
MessagesInRuns(es) == \A i \in 1..Len(es) : es[i].kind \in Messages => InRun(es, i)

(* What the workspace was where a run began and where it ended.            *)
StoodAs(es, c, l, f) ==
  \/ c.end = l /\ c.after.files = f
  \/ BoundaryIn(es, c) = l /\ c.before.files = f
StoodIn(es, l, f) == \E c : Logged(es, c) /\ StoodAs(es, c, l, f)
StoodOnce(es) == \A l, f, g : StoodIn(es, l, f) /\ StoodIn(es, l, g) => f = g
At(es, l, f) == \A g : StoodIn(es, l, g) => g = f

(* What a cursor says of the runs on its redo stack, of the workspace it   *)
(* restored and of the one to return to.                                   *)
Recalls(es, e) ==
  \E r \in Seq(Undone) :
    /\ IdsOf(r) = e.redo
    /\ \A k \in 1..Len(r) : Logged(es, r[k].checkpoint)
    /\ RedoMeets(es, r, LogicalIn(es, e.parent))
RollsBack(es, e) ==
  e.action = "undo" =>
    \A c : Logged(es, c) /\ c.start = e.redo[Len(e.redo)] => e.rollback = c.after
CursorCalm(es, e) ==
  Recalls(es, e) /\ StoodIn(es, e.to, e.target.files) /\ RollsBack(es, e)

CalmFile(es) ==
  /\ MessagesInRuns(es) /\ StoodOnce(es)
  /\ \A i \in 1..Len(es) : es[i].kind = "cursor" => CursorCalm(es, es[i])

\* What the workspace was stays known.
LEMMA StoodStays ==
  ASSUME NEW es, FileInv(es), NEW e \in EntryTypes, NEW es2, es2 = Append(es, e)
  PROVE  /\ \A l, f : StoodIn(es, l, f) => StoodIn(es2, l, f)
         /\ e.kind /= "checkpoint" =>
              \A l, f : StoodIn(es2, l, f) => StoodIn(es, l, f)
         /\ e.kind = "checkpoint" =>
              \A l, f : StoodIn(es2, l, f) => StoodIn(es, l, f) \/ StoodAs(es2, e.record, l, f)
<1>0. Extends(es, e, es2)
  BY OldStays
<1>1. /\ \A c : Logged(es, c) => Logged(es2, c) /\ BoundaryIn(es2, c) = BoundaryIn(es, c)
      /\ \A c : Logged(es2, c) => Logged(es, c) \/ (e.kind = "checkpoint" /\ e.record = c)
  BY <1>0 DEF Extends
<1>2. \A c, l, f : Logged(es, c) => (StoodAs(es2, c, l, f) <=> StoodAs(es, c, l, f))
  BY <1>1 DEF StoodAs
<1>3. \A l, f : StoodIn(es, l, f) => StoodIn(es2, l, f)
  BY <1>1, <1>2 DEF StoodIn
<1>4. ASSUME NEW l, NEW f, StoodIn(es2, l, f)
      PROVE  StoodIn(es, l, f) \/ (e.kind = "checkpoint" /\ StoodAs(es2, e.record, l, f))
  <2>1. PICK c : Logged(es2, c) /\ StoodAs(es2, c, l, f)
    BY <1>4 DEF StoodIn
  <2>2. CASE Logged(es, c)
    BY <1>2, <2>1, <2>2 DEF StoodIn
  <2>3. CASE e.kind = "checkpoint" /\ e.record = c
    BY <2>1, <2>3
  <2> QED BY <1>1, <2>1, <2>2, <2>3
<1> QED BY <1>3, <1>4

\* What a cursor says stays true.
LEMMA CursorStays ==
  ASSUME NEW es, FileInv(es), NEW e \in EntryTypes, NEW es2, es2 = Append(es, e),
         NEW d \in CursorEntries, d.parent \in 0..Len(es), CursorCalm(es, d),
         e.kind = "checkpoint" => ~Named(es, e.record.start) /\ CursorAnswered(es, d)
  PROVE  CursorCalm(es2, d)
<1>0. Extends(es, e, es2)
  BY OldStays
<1>1. /\ \A c : Logged(es, c) => Logged(es2, c)
      /\ \A c : Logged(es2, c) => Logged(es, c) \/ (e.kind = "checkpoint" /\ e.record = c)
      /\ LogicalIn(es2, d.parent) = LogicalIn(es, d.parent)
  BY <1>0 DEF Extends
<1>2. Recalls(es2, d)
  <2>1. PICK r \in Seq(Undone) :
           /\ IdsOf(r) = d.redo
           /\ \A k \in 1..Len(r) : Logged(es, r[k].checkpoint)
           /\ RedoMeets(es, r, LogicalIn(es, d.parent))
    BY DEF CursorCalm, Recalls
  <2>2. RedoMeets(es2, r, LogicalIn(es, d.parent))
    BY <2>1, MeetingStays
  <2> QED BY <1>1, <2>1, <2>2 DEF Recalls
<1>3. StoodIn(es2, d.to, d.target.files)
  BY StoodStays DEF CursorCalm
<1>4. RollsBack(es2, d)
  <2> SUFFICES ASSUME d.action = "undo", NEW c, Logged(es2, c), c.start = d.redo[Len(d.redo)]
               PROVE  d.rollback = c.after
    BY DEF RollsBack
  <2>1. CASE Logged(es, c)
    BY <2>1 DEF CursorCalm, RollsBack
  <2>2. CASE e.kind = "checkpoint" /\ e.record = c
    <3>1. d.redo \in Seq(Nat) /\ Len(d.redo) /= 0
      BY <2>2 DEF CursorEntries, CursorAnswered
    <3>2. Len(d.redo) \in 1..Len(d.redo)
      BY <3>1
    <3>3. Named(es, d.redo[Len(d.redo)])
      BY <2>2, <3>2 DEF CursorAnswered
    <3> QED BY <2>2, <3>3
  <2> QED BY <1>1, <2>1, <2>2
<1> QED BY <1>2, <1>3, <1>4 DEF CursorCalm

\* The workspace was one thing at a time, also with a new entry of another kind.
LEMMA StoodOnceStays ==
  ASSUME NEW es, FileInv(es), NEW e \in EntryTypes, NEW es2, es2 = Append(es, e),
         StoodOnce(es), e.kind /= "checkpoint"
  PROVE  StoodOnce(es2)
BY StoodStays DEF StoodOnce

\* An entry that is appended in a calm session.
LEMMA CalmFileAppend ==
  ASSUME NEW es, FileInv(es), NEW e \in EntryTypes, e.parent \in 0..Len(es),
         NEW es2, es2 = Append(es, e), FileInv(es2), CalmFile(es),
         e.kind \in Messages => InRun(es, e.parent),
         e.kind = "cursor" => CursorCalm(es, e),
         e.kind = "checkpoint" => ~Named(es, e.record.start) /\ StoodOnce(es2)
  PROVE  CalmFile(es2)
<1>0. Extends(es, e, es2)
  BY OldStays
<1>1. /\ Len(es) \in Nat /\ Len(es2) = Len(es) + 1 /\ es2[Len(es2)] = e
      /\ \A i \in 1..Len(es) : i \in 1..Len(es2) /\ es2[i] = es[i] /\ i < Len(es2)
      /\ \A i \in 1..Len(es2) : i \in 1..Len(es) \/ i = Len(es2)
      /\ \A l \in 0..Len(es) : Up(es2, l) = Up(es, l) /\ Up(es, l) \subseteq 1..Len(es)
  BY <1>0 DEF Extends
<1>2. Up(es2, Len(es2)) = {Len(es2)} \cup Up(es, e.parent)
  <2>1. Growth(es, e, es2)
    BY Grown
  <2> QED BY <2>1 DEF Growth
<1>3. MessagesInRuns(es2)
  <2> SUFFICES ASSUME NEW i \in 1..Len(es2), es2[i].kind \in Messages PROVE InRun(es2, i)
    BY DEF MessagesInRuns
  <2>1. CASE i \in 1..Len(es)
    <3>1. InRun(es, i)
      BY <1>1, <2>1 DEF CalmFile, MessagesInRuns
    <3>2. i \in 0..Len(es)
      BY <1>1, <2>1
    <3>3. Up(es2, i) = Up(es, i) /\ \A j \in Up(es, i) : es2[j] = es[j]
      BY <1>1, <3>2
    <3>4. ASSUME NEW j \in Up(es2, i), es2[j].kind = "cursor"
          PROVE  \E m \in Up(es2, i) : m > j /\ es2[m].kind = "start"
      <4>1. PICK m \in Up(es, i) : m > j /\ es[m].kind = "start"
        BY <3>1, <3>3, <3>4 DEF InRun
      <4> QED BY <3>3, <4>1
    <3> QED BY <3>4 DEF InRun
  <2>2. CASE i = Len(es2)
    <3>1. InRun(es, e.parent) /\ e.kind /= "cursor"
      BY <1>1, <2>2 DEF Messages
    <3>2. \A j \in Up(es, e.parent) : es2[j] = es[j]
      BY <1>1
    <3>3. ASSUME NEW j \in Up(es2, i), es2[j].kind = "cursor"
          PROVE  \E m \in Up(es2, i) : m > j /\ es2[m].kind = "start"
      <4>1. j \in Up(es, e.parent) /\ es[j].kind = "cursor"
        BY <1>1, <1>2, <2>2, <3>1, <3>2, <3>3
      <4>2. PICK m \in Up(es, e.parent) : m > j /\ es[m].kind = "start"
        BY <3>1, <4>1 DEF InRun
      <4> QED BY <1>2, <2>2, <3>2, <4>2
    <3> QED BY <3>3 DEF InRun
  <2> QED BY <1>1, <2>1, <2>2
<1>4. StoodOnce(es2)
  BY StoodOnceStays DEF CalmFile
<1>5. ASSUME NEW i \in 1..Len(es2), es2[i].kind = "cursor" PROVE CursorCalm(es2, es2[i])
  <2>1. es2[i] \in CursorEntries
    BY <1>5, EntryFacts DEF FileInv, FileTyped
  <2>2. CASE i \in 1..Len(es)
    <3>1. es2[i] = es[i] /\ CursorCalm(es, es[i]) /\ CursorAnswered(es, es[i])
      BY <1>1, <1>5, <2>2 DEF CalmFile, FileInv, CursorsAnswered
    <3>2. es[i].parent \in 0..Len(es)
      BY <1>1, <2>2 DEF FileInv, FileTyped, Ordered
    <3> QED BY <2>1, <3>1, <3>2, CursorStays
  <2>3. CASE i = Len(es2)
    <3>1. es2[i] = e /\ CursorCalm(es, e) /\ e.kind /= "checkpoint"
      BY <1>1, <1>5, <2>3
    <3> QED BY <2>1, <3>1, CursorStays
  <2> QED BY <1>1, <2>2, <2>3
<1> QED BY <1>3, <1>4, <1>5 DEF CalmFile

-----------------------------------------------------------------------------
(* What a run that goes on and the redo stack owe to the file (FollowInv). *)

OnlyMessages(es, s) == \A i \in 1..Len(es) : i > s => es[i].kind \in Messages

(* What is so of every session. A recorded run goes on at the end of the   *)
(* file, nothing but messages follows its start entry.                     *)
RunFollowed ==
  ~Unrecorded /\ Running =>
    /\ leaf = Len(entries) /\ redoStack = <<>>
    /\ OnlyMessages(entries, staged.start)
    /\ agent = "replied" => entries[leaf].kind = "reply"

(* A recorded run ended in a reply, and its start entry names a leaf       *)
(* before it.                                                              *)
EndsReplied(es) == \A c : Logged(es, c) => es[c.end].kind = "reply"
SourcesBefore(es) == \A i \in 1..Len(es) : es[i].kind = "start" => es[i].source < i

(* The manifests on the redo stack are the ones a new controller finds.    *)
UndosIn(es, ids) ==
  {i \in 1..Len(es) : es[i].kind = "cursor" /\ es[i].action = "undo" /\ es[i].redo = ids}
RedoKept(es, r) ==
  \A k \in 1..Len(r) :
    r[k].target = es[Largest(UndosIn(es, SubSeq(IdsOf(r), 1, k)))].rollback

LeafLast == spent["declined"] = 0 => leaf = Len(entries)

FollowFile(es, r) == EndsReplied(es) /\ SourcesBefore(es) /\ RedoKept(es, r)

FollowInv == RunFollowed /\ FollowFile(entries, redoStack) /\ LeafLast

\* A disturbance that was spent stays spent.
LEMMA SpentStays ==
  ASSUME spent \in [Disturbances -> Nat],
         UNCHANGED spent \/ \E d \in Disturbances : Spend(d)
  PROVE  \A d \in Disturbances : spent'[d] = 0 => spent[d] = 0
<1>1. ASSUME NEW d \in Disturbances, Spend(d) PROVE spent' = [spent EXCEPT ![d] = @ + 1]
  BY <1>1, Zenon DEF Spend
<1> QED BY <1>1

Spends == UNCHANGED spent \/ \E d \in Disturbances : Spend(d)

\* No action takes back what was spent or missed.
LEMMA NothingForgotten ==
  ASSUME HistInv, [Next]_vars
  PROVE  /\ \A d \in Disturbances : spent'[d] = 0 => spent[d] = 0
         /\ missed \subseteq missed'
<1>0. /\ "edit" \in Disturbances /\ "lost" \in Disturbances /\ "foreign" \in Disturbances
      /\ "declined" \in Disturbances /\ "tree" \in Disturbances /\ "recover" \in Disturbances
      /\ "restart" \in Disturbances /\ "crash" \in Disturbances
      /\ spent \in [Disturbances -> Nat]
  BY InvFacts DEF Disturbances
<1> SUFFICES Spends /\ missed \subseteq missed'
  BY <1>0, SpentStays DEF Spends
<1>1. CASE Prompt
  BY <1>0, <1>1, Zenon DEF Prompt, Spends
<1>2. CASE Abandon
  BY <1>0, <1>2, Zenon DEF Abandon, Spends
<1>3. CASE StartRun
  BY <1>0, <1>3, Zenon DEF StartRun, Spends
<1>4. CASE StartFails
  BY <1>0, <1>4, Zenon DEF StartFails, Spends
<1>5. CASE PiUser
  BY <1>0, <1>5, Zenon DEF PiUser, Spends
<1>6. CASE PiReply
  BY <1>0, <1>6, Zenon DEF PiReply, Spends
<1>7. CASE SettleUnrecorded
  BY <1>0, <1>7, Zenon DEF SettleUnrecorded, Spends
<1>8. CASE Settle
  BY <1>0, <1>8, Zenon DEF Settle, RecordRun, Spends
<1>9. CASE PromptMissing
  BY <1>0, <1>9, Zenon DEF PromptMissing, Spends
<1>10. CASE SettleFails
  BY <1>0, <1>10, Zenon DEF SettleFails, Spends
<1>11. CASE Undo
  BY <1>0, <1>11, Zenon DEF Undo, Spends
<1>12. CASE Redo
  BY <1>0, <1>12, Zenon DEF Redo, Spends
<1>13. CASE UndoNothing
  BY <1>0, <1>13, Zenon DEF UndoNothing, Spends
<1>14. CASE Declined
  BY <1>0, <1>14, Zenon DEF Declined, Fails, Spends
<1>15. CASE Tree
  <2>1. Spend("tree") /\ \E gap : missed' = missed \cup gap
    BY <1>15, Zenon DEF Tree
  <2> QED BY <1>0, <2>1, Zenon DEF Spends
<1>16. CASE Recover
  <2>1. Spend("recover") /\ \E gap : missed' = missed \cup gap
    BY <1>16, Zenon DEF Recover, RebuildAt
  <2> QED BY <1>0, <2>1, Zenon DEF Spends
<1>17. CASE Restart
  <2>1. Spend(IF Waiting THEN "restart" ELSE "crash") /\ \E gap : missed' = missed \cup gap
    BY <1>17, Zenon DEF Restart, RebuildAt
  <2> QED BY <1>0, <2>1, Zenon DEF Spends
<1>18. CASE FinalizationFails
  BY <1>0, <1>18, Zenon DEF FinalizationFails, Spends
<1>19. CASE Edit
  BY <1>0, <1>19, Zenon DEF Edit, Spends
<1>20. CASE UNCHANGED vars
  BY <1>0, <1>20, Zenon DEF vars, Spends
<1> QED BY <1>1, <1>2, <1>3, <1>4, <1>5, <1>6, <1>7, <1>8, <1>9, <1>10, <1>11, <1>12, <1>13,
           <1>14, <1>15, <1>16, <1>17, <1>18, <1>19, <1>20, Zenon DEF Next

\* The runs and the start entries of a file with one more entry.
LEMMA FollowAppend ==
  ASSUME NEW es, FileInv(es), NEW e \in EntryTypes, NEW es2, es2 = Append(es, e),
         EndsReplied(es), SourcesBefore(es),
         e.kind = "checkpoint" => e.record.end \in 1..Len(es) /\ es[e.record.end].kind = "reply",
         e.kind = "start" => e.source \in 0..Len(es)
  PROVE  EndsReplied(es2) /\ SourcesBefore(es2)
<1>0. Extends(es, e, es2)
  BY OldStays
<1>1. /\ Len(es) \in Nat /\ Len(es2) = Len(es) + 1 /\ es2[Len(es2)] = e
      /\ \A i \in 1..Len(es) : i \in 1..Len(es2) /\ es2[i] = es[i] /\ i < Len(es2)
      /\ \A i \in 1..Len(es2) : i \in 1..Len(es) \/ i = Len(es2)
      /\ \A c : Logged(es2, c) => Logged(es, c) \/ (e.kind = "checkpoint" /\ e.record = c)
  BY <1>0 DEF Extends
<1>2. ASSUME NEW c, Logged(es2, c) PROVE es2[c.end].kind = "reply"
  <2>1. CASE Logged(es, c)
    <3>1. c.end \in 1..Len(es) /\ es[c.end].kind = "reply"
      BY <2>1, LoggedRange DEF EndsReplied
    <3> QED BY <1>1, <3>1
  <2>2. CASE e.kind = "checkpoint" /\ e.record = c
    BY <1>1, <2>2
  <2> QED BY <1>1, <1>2, <2>1, <2>2
<1>3. ASSUME NEW i \in 1..Len(es2), es2[i].kind = "start" PROVE es2[i].source < i
  <2>1. CASE i \in 1..Len(es)
    BY <1>1, <1>3, <2>1 DEF SourcesBefore
  <2>2. CASE i = Len(es2)
    BY <1>1, <1>3, <2>2
  <2> QED BY <1>1, <2>1, <2>2
<1> QED BY <1>2, <1>3 DEF EndsReplied, SourcesBefore

\* The undo that left a redo stack, in a file with one more entry that is not one.
LEMMA UndosStay ==
  ASSUME NEW es \in Seq(EntryTypes), NEW e \in EntryTypes, NEW es2, es2 = Append(es, e),
         NEW ids, LeftByUndo(es, ids),
         ~(e.kind = "cursor" /\ e.action = "undo" /\ e.redo = ids)
  PROVE  /\ UndosIn(es2, ids) = UndosIn(es, ids)
         /\ Largest(UndosIn(es, ids)) \in 1..Len(es)
         /\ es2[Largest(UndosIn(es2, ids))] = es[Largest(UndosIn(es, ids))]
<1> DEFINE us == UndosIn(es, ids)
<1>1. /\ Len(es) \in Nat /\ Len(es2) = Len(es) + 1 /\ es2[Len(es2)] = e
      /\ \A i \in 1..Len(es) : i \in 1..Len(es2) /\ es2[i] = es[i]
      /\ \A i \in 1..Len(es2) : i \in 1..Len(es) \/ i = Len(es2)
  BY AppendFacts
<1>2. UndosIn(es2, ids) = us
  BY <1>1 DEF UndosIn
<1>3. us \in SUBSET (0..Len(es)) /\ us \subseteq 1..Len(es) /\ us /= {}
  BY <1>1 DEF UndosIn, LeftByUndo
<1> HIDE DEF us
<1>4. Largest(us) \in us
  BY <1>1, <1>3, LargestIs
<1> QED BY <1>1, <1>2, <1>3, <1>4 DEF us

\* The redo stack keeps its manifests when no undo is appended, and when one is that
\* leaves a longer redo stack.
LEMMA RedoKeptAppend ==
  ASSUME NEW es \in Seq(EntryTypes), NEW e \in EntryTypes, NEW es2, es2 = Append(es, e),
         NEW r \in Seq(Undone), RedoKept(es, r),
         \A k \in 1..Len(r) : LeftByUndo(es, SubSeq(IdsOf(r), 1, k)),
         e.kind = "cursor" /\ e.action = "undo" => Len(e.redo) > Len(r)
  PROVE  RedoKept(es2, r)
<1> SUFFICES ASSUME NEW k \in 1..Len(r)
             PROVE  r[k].target = es2[Largest(UndosIn(es2, SubSeq(IdsOf(r), 1, k)))].rollback
  BY DEF RedoKept
<1> DEFINE ids == SubSeq(IdsOf(r), 1, k)
<1>1. IdsOf(r) \in Seq(Nat) /\ Len(IdsOf(r)) = Len(r) /\ Len(r) \in Nat
  BY IdsFacts
<1>2. Len(ids) = k
  BY <1>1, SubSeqFacts
<1>3. r[k].target = es[Largest(UndosIn(es, ids))].rollback /\ LeftByUndo(es, ids)
  BY DEF RedoKept
<1> HIDE DEF ids
<1>4. ~(e.kind = "cursor" /\ e.action = "undo" /\ e.redo = ids)
  BY <1>1, <1>2
<1>5. es2[Largest(UndosIn(es2, ids))] = es[Largest(UndosIn(es, ids))]
  BY <1>3, <1>4, UndosStay, ZenonT(60)
<1> QED BY <1>3, <1>5 DEF ids

\* An empty redo stack keeps nothing.
LEMMA EmptyRedo ==
  ASSUME NEW es
  PROVE  RedoKept(es, <<>>)
<1> DEFINE none == <<>>
<1>1. Len(none) = 0
  OBVIOUS
<1> HIDE DEF none
<1>2. \A k \in 1..Len(none) : FALSE
  BY <1>1
<1>3. RedoKept(es, none)
  BY <1>2 DEF RedoKept
<1> QED BY <1>3 DEF none

\* A file with one more entry that records no run and is no cursor.
LEMMA FollowPlain ==
  ASSUME NEW es, FileInv(es), NEW e \in EntryTypes, NEW es2, es2 = Append(es, e),
         e.kind \notin {"checkpoint", "cursor"}, e.kind = "start" => e.source \in 0..Len(es),
         NEW u, NEW r, StackInv(es, u, r), FollowFile(es, r)
  PROVE  FollowFile(es2, r)
<1>1. EndsReplied(es2) /\ SourcesBefore(es2)
  BY FollowAppend DEF FollowFile
<1>2. es \in Seq(EntryTypes)
  BY DEF FileInv, FileTyped
<1>3. r \in Seq(Undone) /\ \A k \in 1..Len(r) : LeftByUndo(es, SubSeq(IdsOf(r), 1, k))
  BY DEF StackInv
<1>4. RedoKept(es2, r)
  BY <1>2, <1>3, RedoKeptAppend DEF FollowFile
<1> QED BY <1>1, <1>4 DEF FollowFile

(* The file es2 with a message is followed like es was.                    *)
MessageFollows(es, es2, r, kind) ==
  /\ FollowFile(es2, r)
  /\ \A s : OnlyMessages(es, s) => OnlyMessages(es2, s)
  /\ es2[Len(es2)].kind = kind

\* A message goes with the run that goes on.
LEMMA FollowMessage ==
  ASSUME NEW es, FileInv(es), NEW l \in 0..Len(es), NEW kind \in Messages,
         NEW es2, es2 = Append(es, [kind |-> kind, parent |-> l]),
         NEW u, NEW r, StackInv(es, u, r), FollowFile(es, r)
  PROVE  MessageFollows(es, es2, r, kind)
<1> DEFINE e == [kind |-> kind, parent |-> l]
<1>1. l \in Nat
  BY DEF FileInv, FileTyped
<1>2. /\ e \in EntryTypes /\ e.kind = kind /\ e.parent = l /\ e.kind \notin {"checkpoint", "cursor"}
      /\ es2 = Append(es, e)
  BY <1>1, MessageEntry
<1> HIDE DEF e
<1>3. e.kind /= "start"
  BY <1>2 DEF Messages
<1>4. FollowFile(es2, r)
  BY <1>2, <1>3, FollowPlain
<1>5. es \in Seq(EntryTypes)
  BY DEF FileInv, FileTyped
<1>6. /\ \A i \in 1..Len(es) : es2[i] = es[i]
      /\ es2[Len(es2)] = e
      /\ \A i \in 1..Len(es2) : i \in 1..Len(es) \/ i = Len(es2)
  BY <1>2, <1>5, AppendFacts
<1>7. \A s : OnlyMessages(es, s) => OnlyMessages(es2, s)
  BY <1>2, <1>6 DEF OnlyMessages
<1> QED BY <1>2, <1>4, <1>6, <1>7 DEF MessageFollows

\* The prompt, and the entry of another extension that may come first.
LEMMA PiUserFile ==
  ASSUME HistInv, PiUser
  PROVE  \/ entries' = Append(entries, [kind |-> "user", parent |-> leaf])
         \/ \E mid : /\ mid = Append(entries, [kind |-> "other", parent |-> leaf])
                     /\ entries' = Append(mid, [kind |-> "user", parent |-> Len(mid)])
                     /\ Len(mid) \in 0..Len(mid)
<1>1. /\ FileInv(entries) /\ leaf \in 0..Len(entries) /\ Len(entries) \in Nat
  BY InvFacts
<1>2. "user" \in Messages /\ "other" \in Messages
  BY DEF Messages
<1>3. CASE entries' = Append(entries, [kind |-> "other", parent |-> leaf])
                        \o <<[kind |-> "user", parent |-> Len(entries) + 1]>>
  <2> DEFINE mid == Append(entries, [kind |-> "other", parent |-> leaf])
             e == [kind |-> "user", parent |-> Len(entries) + 1]
  <2>1. FileInv(mid) /\ Len(mid) \in 0..Len(mid) /\ Len(mid) = Len(entries) + 1
    <3>1. MessageGrowth(entries, leaf, mid)
      BY <1>1, <1>2, MessageStep
    <3> QED BY <3>1 DEF MessageGrowth
  <2>2. e \in EntryTypes
    BY <1>1, <1>2, MessageEntry
  <2>3. mid \in Seq(EntryTypes)
    <3> HIDE DEF mid
    <3> QED BY <2>1 DEF FileInv, FileTyped
  <2>4. entries' = mid \o <<e>> /\ mid = Append(entries, [kind |-> "other", parent |-> leaf])
    BY <1>3
  <2> HIDE DEF mid, e
  <2>5. entries' = Append(mid, e)
    BY <2>2, <2>3, <2>4, AppendIsConcat
  <2>6. entries' = Append(mid, [kind |-> "user", parent |-> Len(mid)])
    BY <2>1, <2>5 DEF e
  <2> QED BY <2>1, <2>4, <2>6
<1>4. \/ entries' = Append(entries, [kind |-> "user", parent |-> leaf])
      \/ entries' = Append(entries, [kind |-> "other", parent |-> leaf])
                      \o <<[kind |-> "user", parent |-> Len(entries) + 1]>>
  BY Zenon DEF PiUser, Appended
<1> QED BY <1>3, <1>4

\* A step that appends nothing and leaves the redo stack and the leaf alone.
LEMMA FollowQuiet ==
  ASSUME FollowInv, \A d \in Disturbances : spent'[d] = 0 => spent[d] = 0,
         UNCHANGED <<entries, redoStack, leaf>>,
         UNCHANGED <<agent, staged, locked>> \/ ~Running' \/ staged' = None \/ locked'
  PROVE  FollowInv'
<1>1. RunFollowed'
  BY DEF FollowInv, RunFollowed, Unrecorded, Running
<1>2. FollowFile(entries, redoStack)'
  BY DEF FollowInv
<1>3. LeafLast'
  BY DEF FollowInv, LeafLast, Disturbances
<1> QED BY <1>1, <1>2, <1>3 DEF FollowInv

\* Nothing follows a run that does not go on.
LEMMA NotRunning ==
  /\ agent' \notin {"started", "running", "replied"} => ~Running' /\ RunFollowed'
  /\ staged' = None => RunFollowed'
BY DEF Running, RunFollowed, Unrecorded

-----------------------------------------------------------------------------
(* What undo, redo, tree and settleRun append.                             *)

(* An undo of the run c appends the cursor e and puts x on the redo stack. *)
Undoes(c, x, e) ==
  /\ undoStack /= <<>> /\ c = Last(undoStack) /\ c \in Runs /\ Logged(entries, c)
  /\ x \in Undone /\ x.checkpoint = c /\ x.target = SafetyCapture(c.after, ChangedPaths(c))
  /\ e \in EntryTypes /\ e.kind = "cursor" /\ e.action = "undo"
  /\ e.parent = c.start /\ e.parent \in 0..Len(entries) /\ e.to = LogicalIn(entries, c.start)
  /\ e.head = IF Len(undoStack) = 1 THEN 0 ELSE Last(Front(undoStack)).start
  /\ e.redo = IdsOf(redoStack') /\ e.rollback = x.target /\ e.target = c.before
  /\ entries' = Append(entries, e) /\ leaf' = Len(entries')
  /\ ws' = Overwritten(c.before, ChangedPaths(c))
  /\ undoStack' = Front(undoStack)
  /\ redoStack' = Append(redoStack, x) /\ Pushed(redoStack, x, redoStack')
  /\ staged' = None /\ agent' \in {"accepted", "idle"}
  /\ UNCHANGED <<paused, locked, spent, missed>>

\* What the action says, with the types the invariant gives.
LEMMA UndoShape ==
  ASSUME HistInv, Undo
  PROVE  \E c, x, e : Undoes(c, x, e)
<1> DEFINE c == Last(undoStack)
           scope == ChangedPaths(c)
           safety == SafetyCapture(c.after, scope)
           x == [checkpoint |-> c, target |-> safety]
           undone == Append(redoStack, x)
           head == IF Len(undoStack) = 1 THEN 0 ELSE Last(Front(undoStack)).start
           parent == Landing(c.user)
           e == Cursor("undo", parent, head, IdsOf(undone), safety, c.before)
<1>1. /\ undoStack /= <<>> /\ entries' = Append(entries, e) /\ leaf' = Len(entries')
      /\ ws' = Overwritten(c.before, scope) /\ undoStack' = Front(undoStack)
      /\ redoStack' = undone /\ staged' = None /\ agent' \in {"accepted", "idle"}
      /\ UNCHANGED <<paused, locked, spent, missed>>
  BY DEF Undo, Ready, Appended
<1>2. /\ FileInv(entries) /\ SessionTyped /\ StackInv(entries, undoStack, redoStack)
      /\ entries \in Seq(EntryTypes) /\ ws \in [Paths -> Contents] /\ Len(entries) \in Nat
      /\ LoggedRuns(entries, undoStack) /\ redoStack \in Seq(Undone)
  BY InvFacts DEF StackInv
<1>3. /\ Len(undoStack) \in Nat \ {0} /\ Logged(entries, c)
      /\ LoggedRuns(entries, Front(undoStack)) /\ Len(Front(undoStack)) = Len(undoStack) - 1
  BY <1>1, <1>2, LoggedLast
<1>4. /\ c \in Runs /\ c.before \in Full /\ c.after \in Full
      /\ c.start \in 1..Len(entries) /\ c.user \in 1..Len(entries)
      /\ entries[c.user].kind = "user" /\ entries[c.user].parent = c.start
  <2> HIDE DEF c
  <2> QED BY <1>2, <1>3, LoggedRange, RunFacts
<1>5. safety \in Snaps /\ c.before \in Snaps
  <2> HIDE DEF c
  <2>1. c.after \in Snaps /\ c.before \in Snaps
    BY <1>2, <1>4, CaptureFacts
  <2> QED BY <1>2, <1>4, <2>1, CaptureFacts
<1>6. x \in Undone /\ x.checkpoint = c /\ x.target = safety
  <2> HIDE DEF c, safety
  <2> QED BY <1>4, <1>5 DEF Undone
<1>7. head \in Nat
  <2>1. CASE Len(undoStack) = 1
    BY <2>1
  <2>2. CASE Len(undoStack) /= 1
    <3> DEFINE d == Last(Front(undoStack))
    <3>1. Front(undoStack) /= <<>>
      BY <1>3, <2>2, EmptySeq
    <3>2. Logged(entries, d)
      BY <1>3, <3>1, LoggedLast
    <3>3. head = d.start
      BY <2>2
    <3> HIDE DEF d, head
    <3> QED BY <1>2, <3>2, <3>3, LoggedFacts, RunFacts
  <2> QED BY <2>1, <2>2
<1>8. parent = c.start /\ parent \in 0..Len(entries)
  <2> HIDE DEF c
  <2> QED BY <1>2, <1>4 DEF Landing
<1> HIDE DEF c, scope, safety, x, head, parent
<1>9. Pushed(redoStack, x, undone) /\ IdsOf(undone) \in Seq(Nat)
  <2>1. Pushed(redoStack, x, undone)
    BY <1>2, <1>6, PushFacts
  <2> HIDE DEF undone
  <2> QED BY <2>1 DEF Pushed
<1> HIDE DEF undone
<1>10. /\ e \in EntryTypes /\ e.kind = "cursor" /\ e.parent = parent /\ e.action = "undo"
       /\ e.head = head /\ e.redo = IdsOf(undone) /\ e.rollback = safety /\ e.target = c.before
  BY <1>2, <1>5, <1>7, <1>8, <1>9, CursorTyped, SMTT(60)
<1>11. e.to = LogicalIn(entries, parent)
  BY OwnFile DEF Cursor
<1> HIDE DEF e
<1>12. /\ c = Last(undoStack) /\ safety = SafetyCapture(c.after, ChangedPaths(c))
       /\ scope = ChangedPaths(c)
       /\ head = IF Len(undoStack) = 1 THEN 0 ELSE Last(Front(undoStack)).start
       /\ undone = Append(redoStack, x)
  BY DEF c, safety, scope, head, undone
<1>13. Undoes(c, x, e)
  BY ONLY <1>1, <1>3, <1>4, <1>6, <1>8, <1>9, <1>10, <1>11, <1>12 DEF Undoes
<1> QED BY <1>13

(* A redo of the run c returns to target.                                  *)
Redoes(c, target, e) ==
  /\ redoStack /= <<>> /\ Last(redoStack) = redoStack[Len(redoStack)]
  /\ c = Last(redoStack).checkpoint /\ target = Last(redoStack).target
  /\ c \in Runs /\ Logged(entries, c) /\ target \in Snaps
  /\ e \in EntryTypes /\ e.kind = "cursor" /\ e.action = "redo"
  /\ e.parent = Landing(c.end) /\ e.parent \in 0..Len(entries)
  /\ e.to = LogicalIn(entries, e.parent) /\ e.head = c.start
  /\ e.redo = IdsOf(redoStack') /\ e.target = target
  /\ entries' = Append(entries, e) /\ leaf' = Len(entries')
  /\ ws' = Overwritten(target, ChangedPaths(c))
  /\ undoStack' = Append(undoStack, c)
  /\ redoStack' = Front(redoStack)
  /\ staged' = None /\ agent' \in {"accepted", "idle"}
  /\ UNCHANGED <<paused, locked, spent, missed>>

\* What the action says, with the types the invariant gives.
LEMMA RedoShape ==
  ASSUME HistInv, Redo
  PROVE  \E c, target, e : Redoes(c, target, e)
<1> DEFINE x == Last(redoStack)
           c == x.checkpoint
           target == x.target
           scope == ChangedPaths(c)
           safety == SafetyCapture(c.before, scope)
           rest == Front(redoStack)
           parent == Landing(c.end)
           e == Cursor("redo", parent, c.start, IdsOf(rest), safety, target)
<1>1. /\ redoStack /= <<>> /\ entries' = Append(entries, e) /\ leaf' = Len(entries')
      /\ ws' = Overwritten(target, scope) /\ undoStack' = Append(undoStack, c)
      /\ redoStack' = rest /\ staged' = None /\ agent' \in {"accepted", "idle"}
      /\ UNCHANGED <<paused, locked, spent, missed>>
  BY DEF Redo, Ready, Appended
<1>2. /\ FileInv(entries) /\ SessionTyped /\ StackInv(entries, undoStack, redoStack)
      /\ entries \in Seq(EntryTypes) /\ ws \in [Paths -> Contents]
      /\ LoggedRuns(entries, undoStack) /\ redoStack \in Seq(Undone)
  BY InvFacts DEF StackInv
<1>3. x \in Undone /\ Logged(entries, c) /\ x = redoStack[Len(redoStack)]
  <2>1. Len(redoStack) \in Nat \ {0} /\ x = redoStack[Len(redoStack)] /\ x \in Undone
    BY <1>1, <1>2, FrontFacts
  <2> HIDE DEF x
  <2>2. Len(redoStack) \in 1..Len(redoStack)
    BY <2>1
  <2> QED BY <1>2, <2>1, <2>2 DEF StackInv
<1>4. target \in Snaps
  <2> HIDE DEF x
  <2> QED BY <1>3 DEF Undone
<1>5. x = Last(redoStack) /\ c = x.checkpoint /\ target = x.target
  OBVIOUS
<1> HIDE DEF x, c, target
<1>6. c \in Runs /\ c.end \in Ids /\ c.before \in Full /\ c.start \in Nat
  BY <1>2, <1>3, LoggedFacts, RunFacts
<1>7. safety \in Snaps
  <2>1. c.before \in Snaps
    BY <1>2, <1>6, CaptureFacts
  <2> QED BY <1>2, <1>6, <2>1, CaptureFacts
<1>8. parent \in 0..Len(entries) /\ parent = Landing(c.end) /\ scope = ChangedPaths(c)
  BY <1>2, <1>6, LandingFacts
<1> HIDE DEF scope, safety, parent
<1>9. IdsOf(rest) \in Seq(Nat) /\ rest = Front(redoStack)
  BY <1>1, <1>2, PopFacts
<1> HIDE DEF rest
<1>10. /\ e \in EntryTypes /\ e.kind = "cursor" /\ e.parent = parent /\ e.action = "redo"
       /\ e.head = c.start /\ e.redo = IdsOf(rest) /\ e.target = target
  BY <1>2, <1>4, <1>6, <1>7, <1>8, <1>9, CursorTyped
<1>11. e.to = LogicalIn(entries, parent)
  BY OwnFile DEF Cursor
<1> HIDE DEF e
<1>12. Redoes(c, target, e)
  BY ONLY <1>1, <1>3, <1>4, <1>5, <1>6, <1>8, <1>9, <1>10, <1>11 DEF Redoes
<1> QED BY <1>12

(* A navigation to the entry id, whose target is t.                        *)
Navigates(id, t, e) ==
  /\ id \in Ids /\ t = TreeTarget(id) /\ t /= None
  /\ t.manifest \in Full /\ LoggedRuns(entries, t.undo)
  /\ e \in EntryTypes /\ e.kind = "cursor" /\ e.action = "tree"
  /\ e.parent = Landing(id) /\ e.parent \in 0..Len(entries)
  /\ e.to = LogicalIn(entries, e.parent)
  /\ e.head = IF t.undo = <<>> THEN 0 ELSE Last(t.undo).start
  /\ e.redo = <<>> /\ e.target = t.manifest
  /\ entries' = Append(entries, e) /\ leaf' = Len(entries')
  /\ ws' = t.manifest.files /\ undoStack' = t.undo /\ redoStack' = <<>>
  /\ missed' = missed \cup GapIn(t.undo, t.leaf)
  /\ agent = "idle" /\ staged = None
  /\ UNCHANGED <<paused, locked, staged, agent>>

\* What the action says, with the types the invariant gives.
LEMMA TreeShape ==
  ASSUME HistInv, Tree
  PROVE  \E id, t, e : Navigates(id, t, e)
<1>1. /\ agent = "idle" /\ staged = None /\ redoStack' = <<>> /\ leaf' = Len(entries')
      /\ UNCHANGED <<paused, locked, staged, agent>>
  BY Zenon DEF Tree
<1>2. PICK id \in Ids :
        /\ TreeTarget(id) /= None /\ TreeTarget(id).manifest.complete
        /\ entries' = Append(entries,
             Cursor("tree", Landing(id),
                    IF TreeTarget(id).undo = <<>> THEN 0 ELSE Last(TreeTarget(id).undo).start,
                    <<>>, Capture, TreeTarget(id).manifest))
        /\ ws' = TreeTarget(id).manifest.files
        /\ undoStack' = TreeTarget(id).undo
        /\ missed' = missed \cup GapIn(TreeTarget(id).undo, TreeTarget(id).leaf)
  BY Zenon DEF Tree, Appended
<1> DEFINE t == TreeTarget(id)
           head == IF t.undo = <<>> THEN 0 ELSE Last(t.undo).start
           redo == <<>>
           parent == Landing(id)
           e == Cursor("tree", parent, head, redo, Capture, t.manifest)
<1>3. FileInv(entries) /\ SessionTyped /\ ws \in [Paths -> Contents]
  BY InvFacts
<1>4. t.manifest \in Snaps /\ LoggedRuns(entries, t.undo) /\ t /= None
  BY <1>2, <1>3, TreeTargetFacts
<1>5. /\ entries' = Append(entries, e) /\ ws' = t.manifest.files /\ undoStack' = t.undo
      /\ t.manifest.complete /\ missed' = missed \cup GapIn(t.undo, t.leaf)
      /\ t = TreeTarget(id)
  BY <1>2
<1> HIDE DEF t
<1>6. t.manifest \in Full
  BY <1>4, <1>5, SnapFacts
<1>7. head \in Nat
  <2>1. CASE t.undo = <<>>
    BY <2>1
  <2>2. CASE t.undo /= <<>>
    <3> DEFINE d == Last(t.undo)
    <3>1. Logged(entries, d)
      BY <1>4, <2>2, LoggedLast
    <3>2. head = d.start
      BY <2>2
    <3> HIDE DEF d, head
    <3> QED BY <1>3, <3>1, <3>2, LoggedFacts, RunFacts
  <2> QED BY <2>1, <2>2
<1>8. parent \in 0..Len(entries) /\ parent = Landing(id)
  BY <1>2, <1>3, LandingFacts
<1>9. redo \in Seq(Nat) /\ redo = <<>> /\ head = IF t.undo = <<>> THEN 0 ELSE Last(t.undo).start
  OBVIOUS
<1>10. Capture \in Snaps
  BY <1>3, CaptureFacts
<1> HIDE DEF head, parent, redo
<1>11. /\ e \in EntryTypes /\ e.kind = "cursor" /\ e.parent = parent /\ e.action = "tree"
       /\ e.head = head /\ e.redo = redo /\ e.target = t.manifest
  <2>1. e = Cursor("tree", parent, head, redo, Capture, t.manifest)
    OBVIOUS
  <2> DEFINE s == Capture
             m == t.manifest
  <2>2. s \in Snaps /\ m \in Snaps
    BY <1>4, <1>10
  <2> HIDE DEF s, e
  <2>3. e = Cursor("tree", parent, head, redo, s, m)
    BY <2>1 DEF s
  <2>4. FileInv(entries) /\ head \in Nat /\ redo \in Seq(Nat) /\ "tree" \in {"undo", "redo", "tree"}
    BY <1>3, <1>7, <1>9
  <2> HIDE DEF m
  <2>5. /\ e \in EntryTypes /\ e.kind = "cursor" /\ e.parent = parent /\ e.action = "tree"
        /\ e.head = head /\ e.redo = redo /\ e.target = m
    BY ONLY <1>8, <2>2, <2>3, <2>4, CursorTyped
  <2> QED BY <2>5 DEF m
<1>12. e.to = LogicalIn(entries, parent)
  BY OwnFile DEF Cursor
<1> HIDE DEF e
<1>13. Navigates(id, t, e)
  BY ONLY <1>1, <1>2, <1>4, <1>5, <1>6, <1>8, <1>9, <1>11, <1>12 DEF Navigates
<1> QED BY <1>13

-----------------------------------------------------------------------------
(* FollowInv is an invariant.                                              *)

\* startAgentRun clears the redo stack and starts at the end of the file.
LEMMA FollowStartRun ==
  ASSUME HistInv, FollowInv, StartRun, \A d \in Disturbances : spent'[d] = 0 => spent[d] = 0
  PROVE  FollowInv'
<1>1. CASE Unrecorded
  <2>1. UNCHANGED <<entries, leaf, staged, redoStack, locked>>
    BY <1>1, Zenon DEF StartRun
  <2>2. staged' = None \/ locked'
    BY <1>1, <2>1 DEF Unrecorded
  <2> QED BY <2>1, <2>2, FollowQuiet
<1>2. CASE ~Unrecorded
  <2> DEFINE e == [kind |-> "start", parent |-> leaf, before |-> staged.before, source |-> staged.source]
  <2>1. /\ entries' = Append(entries, e) /\ leaf' = Len(entries')
        /\ staged' = [staged EXCEPT !.start = leaf'] /\ redoStack' = <<>> /\ agent' = "started"
    BY <1>2, Zenon DEF StartRun, Appended
  <2>2. /\ FileInv(entries) /\ entries \in Seq(EntryTypes) /\ leaf \in Nat
        /\ staged \in [before : Full, source : 0..Len(entries), start : 0..Len(entries)]
        /\ Len(entries) \in Nat
    BY <1>2, InvFacts DEF Unrecorded
  <2>3. e \in EntryTypes /\ e.kind = "start" /\ e.source \in 0..Len(entries)
    BY <2>2 DEF EntryTypes, StartEntries
  <2> HIDE DEF e
  <2>4. FollowFile(entries', redoStack')
    <3>1. EndsReplied(entries') /\ SourcesBefore(entries')
      BY <2>1, <2>2, <2>3, FollowAppend DEF FollowInv, FollowFile
    <3> QED BY <2>1, <3>1, EmptyRedo DEF FollowFile
  <2>5. RunFollowed'
    <3>1. staged'.start = Len(entries') /\ Len(entries') \in Nat
      BY <2>1, <2>2, <2>3
    <3>2. OnlyMessages(entries', staged'.start)
      BY <3>1 DEF OnlyMessages
    <3> QED BY <2>1, <3>2 DEF RunFollowed
  <2>6. LeafLast'
    BY <2>1 DEF LeafLast
  <2> QED BY <2>4, <2>5, <2>6 DEF FollowInv
<1> QED BY <1>1, <1>2

\* Pi's prompt goes with the run.
LEMMA FollowPiUser ==
  ASSUME HistInv, FollowInv, PiUser
  PROVE  FollowInv'
<1>1. /\ agent = "started" /\ agent' = "running" /\ leaf' = Len(entries')
      /\ UNCHANGED <<undoStack, redoStack, locked, staged>>
  BY Zenon DEF PiUser, controller
<1>2. /\ FileInv(entries) /\ StackInv(entries, undoStack, redoStack) /\ leaf \in 0..Len(entries)
      /\ FollowFile(entries, redoStack)
  BY InvFacts DEF FollowInv
<1>3. "user" \in Messages /\ "other" \in Messages
  BY DEF Messages
<1>4. /\ FollowFile(entries', redoStack)
      /\ \A s : OnlyMessages(entries, s) => OnlyMessages(entries', s)
  <2>1. ASSUME entries' = Append(entries, [kind |-> "user", parent |-> leaf])
        PROVE  /\ FollowFile(entries', redoStack)
               /\ \A s : OnlyMessages(entries, s) => OnlyMessages(entries', s)
    <3>1. MessageFollows(entries, entries', redoStack, "user")
      BY <1>2, <1>3, <2>1, FollowMessage
    <3> QED BY <3>1 DEF MessageFollows
  <2>2. ASSUME NEW mid, mid = Append(entries, [kind |-> "other", parent |-> leaf]),
               entries' = Append(mid, [kind |-> "user", parent |-> Len(mid)]),
               Len(mid) \in 0..Len(mid)
        PROVE  /\ FollowFile(entries', redoStack)
               /\ \A s : OnlyMessages(entries, s) => OnlyMessages(entries', s)
    <3>1. MessageFollows(entries, mid, redoStack, "other")
      BY <1>2, <1>3, <2>2, FollowMessage
    <3>2. FileInv(mid) /\ StackInv(mid, undoStack, redoStack) /\ FollowFile(mid, redoStack)
      <4>1. MessageGrowth(entries, leaf, mid)
        BY <1>2, <1>3, <2>2, MessageStep
      <4> QED BY <1>2, <3>1, <4>1 DEF MessageGrowth, MessageFollows
    <3>3. MessageFollows(mid, entries', redoStack, "user")
      BY <1>3, <2>2, <3>2, FollowMessage
    <3> QED BY <3>1, <3>3 DEF MessageFollows
  <2> QED BY <2>1, <2>2, PiUserFile
<1>5. RunFollowed'
  <2> SUFFICES ASSUME ~Unrecorded' PROVE redoStack' = <<>> /\ OnlyMessages(entries', staged'.start)
    BY <1>1 DEF RunFollowed
  <2>1. ~Unrecorded
    BY <1>1 DEF Unrecorded
  <2> QED BY <1>1, <1>4, <2>1 DEF FollowInv, RunFollowed, Running
<1>6. LeafLast'
  BY <1>1 DEF LeafLast
<1> QED BY <1>1, <1>4, <1>5, <1>6 DEF FollowInv

\* So does the reply.
LEMMA FollowPiReply ==
  ASSUME HistInv, FollowInv, PiReply
  PROVE  FollowInv'
<1>1. /\ agent = "running" /\ agent' = "replied" /\ leaf' = Len(entries')
      /\ entries' = Append(entries, [kind |-> "reply", parent |-> leaf])
      /\ UNCHANGED <<undoStack, redoStack, locked, staged>>
  BY Zenon DEF PiReply, controller, Appended
<1>2. /\ FileInv(entries) /\ StackInv(entries, undoStack, redoStack) /\ leaf \in 0..Len(entries)
      /\ FollowFile(entries, redoStack)
  BY InvFacts DEF FollowInv
<1>3. "reply" \in Messages
  BY DEF Messages
<1>4. /\ FollowFile(entries', redoStack)
      /\ \A s : OnlyMessages(entries, s) => OnlyMessages(entries', s)
      /\ entries'[Len(entries')].kind = "reply"
  <2>1. MessageFollows(entries, entries', redoStack, "reply")
    BY <1>1, <1>2, <1>3, FollowMessage
  <2> QED BY <2>1 DEF MessageFollows
<1>5. RunFollowed'
  <2> SUFFICES ASSUME ~Unrecorded' PROVE redoStack' = <<>> /\ OnlyMessages(entries', staged'.start)
    BY <1>1, <1>4 DEF RunFollowed
  <2>1. ~Unrecorded
    BY <1>1 DEF Unrecorded
  <2> QED BY <1>1, <1>4, <2>1 DEF FollowInv, RunFollowed, Running
<1>6. LeafLast'
  BY <1>1 DEF LeafLast
<1> QED BY <1>1, <1>4, <1>5, <1>6 DEF FollowInv

(* settleRun appends the checkpoint e of the run r.                        *)
Settles(r, e) ==
  /\ ~Unrecorded /\ agent = "replied" /\ agent' = "idle" /\ staged' = None
  /\ r \in Runs /\ ~Named(entries, r.start)
  /\ r.start = staged.start /\ r.end = Len(entries) /\ r.before = staged.before
  /\ r.after = Capture /\ entries[r.user].parent = r.start
  /\ e \in EntryTypes /\ e.kind = "checkpoint" /\ e.parent = Len(entries) /\ e.record = r
  /\ Len(entries) \in 1..Len(entries) /\ entries[Len(entries)].kind = "reply"
  /\ entries' = Append(entries, e) /\ leaf' = Len(entries')
  /\ undoStack' = Append(undoStack, r)
  /\ redoStack = <<>> /\ OnlyMessages(entries, r.start)
  /\ UNCHANGED <<ws, redoStack, paused, locked, spent, missed>>

\* What the action says, with the types the invariant gives.
LEMMA SettleShape ==
  ASSUME HistInv, FollowInv, Settle
  PROVE  \E r, e : Settles(r, e)
<1> DEFINE r == [start |-> staged.start, user |-> Smallest(UserAfter(staged.start)),
                 end |-> LogicalLeaf(leaf), before |-> staged.before, after |-> Capture]
           e == [kind |-> "checkpoint", parent |-> leaf, record |-> r]
<1>1. /\ agent = "replied" /\ agent' = "idle" /\ staged' = None /\ ~Unrecorded
      /\ UserAfter(staged.start) /= {}
      /\ entries' = Append(entries, e) /\ leaf' = Len(entries')
      /\ undoStack' = Append(undoStack, r)
      /\ UNCHANGED <<ws, redoStack, paused, locked, spent, missed>>
  BY DEF Settle, Settling, RecordRun, Appended
<1>2. /\ r \in Runs /\ e \in EntryTypes /\ e.kind = "checkpoint" /\ e.parent = leaf
      /\ e.record = r /\ ~Named(entries, r.start)
  BY <1>1, RunRecorded
<1>3. /\ leaf = Len(entries) /\ redoStack = <<>> /\ OnlyMessages(entries, staged.start)
      /\ entries[leaf].kind = "reply"
  BY <1>1 DEF FollowInv, RunFollowed, Running
<1>4. FileInv(entries) /\ Len(entries) \in Nat /\ Ordered(entries, Len(entries))
  BY InvFacts
<1>5. leaf \in 1..Len(entries)
  <2>1. StartedOn(entries, leaf, staged.start)
    BY <1>1, InvFacts DEF RunInv
  <2>2. leaf \in 0..Len(entries)
    BY <1>3, <1>4
  <2>3. Up(entries, leaf) \subseteq 1..leaf
    BY <1>4, <2>2, UpFacts
  <2> QED BY <2>1, <2>2, <2>3 DEF StartedOn
<1>6. r.end = leaf
  <2>1. LogicalIn(entries, leaf) = leaf
    BY <1>3, <1>4, <1>5, LogicalFacts DEF Messages
  <2> QED BY <2>1, OwnFile
<1>7. entries[r.user].parent = r.start
  <2> DEFINE users == UserAfter(staged.start)
  <2>1. users \in SUBSET Nat /\ users /= {}
    BY <1>1, <1>4, FileFacts DEF UserAfter, OfKind
  <2>2. Smallest(users) \in users
    <3> HIDE DEF users
    <3> QED BY <2>1, SmallestIs
  <2>3. entries[Smallest(users)].parent = staged.start
    BY <2>2 DEF UserAfter
  <2> QED BY <2>3
<1>8. /\ r.start = staged.start /\ r.before = staged.before /\ r.after = Capture
  OBVIOUS
<1> HIDE DEF r, e
<1>9. Settles(r, e)
  BY <1>1, <1>2, <1>3, <1>5, <1>6, <1>7, <1>8 DEF Settles
<1> QED BY <1>9

\* The checkpoint of a run.
LEMMA FollowSettle ==
  ASSUME HistInv, FollowInv, Settle
  PROVE  FollowInv'
<1>1. PICK r, e : Settles(r, e)
  BY SettleShape
<1>2. /\ e \in EntryTypes /\ e.kind = "checkpoint" /\ e.record.end \in 1..Len(entries)
      /\ entries[e.record.end].kind = "reply"
      /\ entries' = Append(entries, e) /\ leaf' = Len(entries')
      /\ agent' = "idle" /\ redoStack' = <<>>
  BY <1>1 DEF Settles
<1>3. EndsReplied(entries') /\ SourcesBefore(entries')
  BY <1>2, InvFacts, FollowAppend DEF FollowInv, FollowFile
<1>4. RunFollowed'
  BY <1>2, NotRunning
<1> QED BY <1>2, <1>3, <1>4, EmptyRedo DEF FollowInv, FollowFile, LeafLast

\* A barrier.
LEMMA FollowBarrier ==
  ASSUME HistInv, FollowInv, AppendBarrier, agent' = "idle",
         UNCHANGED redoStack \/ redoStack' = <<>>
  PROVE  FollowInv'
<1> DEFINE e == [kind |-> "barrier", parent |-> leaf]
<1>1. /\ FileInv(entries) /\ StackInv(entries, undoStack, redoStack) /\ leaf \in Nat
  BY InvFacts
<1>2. entries' = Append(entries, e) /\ leaf' = Len(entries')
  BY DEF AppendBarrier, Appended
<1>3. e \in EntryTypes /\ e.kind = "barrier"
  BY <1>1 DEF EntryTypes, BarrierEntries
<1> HIDE DEF e
<1>4. FollowFile(entries', redoStack)
  BY <1>1, <1>2, <1>3, FollowPlain DEF FollowInv
<1>5. FollowFile(entries', redoStack')
  BY <1>4, EmptyRedo DEF FollowFile
<1>6. RunFollowed'
  BY NotRunning
<1> QED BY <1>2, <1>5, <1>6 DEF FollowInv, LeafLast

\* A cursor records no run and begins none.
LEMMA FollowCursor ==
  ASSUME HistInv, FollowInv, NEW e \in EntryTypes, e.kind = "cursor",
         entries' = Append(entries, e), leaf' = Len(entries'),
         staged' = None \/ agent' \in {"accepted", "idle"},
         RedoKept(entries', redoStack')
  PROVE  FollowInv'
<1>1. FileInv(entries)
  BY InvFacts
<1>2. EndsReplied(entries') /\ SourcesBefore(entries')
  BY <1>1, FollowAppend DEF FollowInv, FollowFile
<1>3. RunFollowed'
  BY NotRunning
<1> QED BY <1>2, <1>3 DEF FollowInv, FollowFile, LeafLast

\* undo: its own manifest is the one a redo returns to.
LEMMA FollowUndo ==
  ASSUME HistInv, FollowInv, Undo
  PROVE  FollowInv'
<1>1. PICK c, x, e : Undoes(c, x, e)
  BY UndoShape
<1>2. /\ e \in EntryTypes /\ e.kind = "cursor" /\ e.action = "undo"
      /\ e.redo = IdsOf(redoStack') /\ e.rollback = x.target
      /\ entries' = Append(entries, e) /\ leaf' = Len(entries')
      /\ Pushed(redoStack, x, redoStack')
      /\ agent' \in {"accepted", "idle"}
  BY <1>1 DEF Undoes
<1>3. /\ redoStack' \in Seq(Undone) /\ Len(redoStack) \in Nat
      /\ Len(redoStack') = Len(redoStack) + 1 /\ redoStack'[Len(redoStack')] = x
      /\ \A k \in 1..Len(redoStack) : redoStack'[k] = redoStack[k]
      /\ IdsOf(redoStack') \in Seq(Nat) /\ Len(IdsOf(redoStack')) = Len(redoStack) + 1
      /\ \A k \in 1..Len(redoStack) :
           SubSeq(IdsOf(redoStack'), 1, k) = SubSeq(IdsOf(redoStack), 1, k)
  BY <1>2 DEF Pushed
<1>4. /\ entries \in Seq(EntryTypes) /\ redoStack \in Seq(Undone)
      /\ \A k \in 1..Len(redoStack) : LeftByUndo(entries, SubSeq(IdsOf(redoStack), 1, k))
      /\ RedoKept(entries, redoStack) /\ Len(entries) \in Nat
  BY InvFacts DEF StackInv, FollowInv, FollowFile
<1>5. RedoKept(entries', redoStack)
  <2>1. Len(e.redo) > Len(redoStack)
    BY <1>2, <1>3
  <2> QED BY <1>2, <1>4, <2>1, RedoKeptAppend
<1>6. ASSUME NEW k \in 1..Len(redoStack')
      PROVE  redoStack'[k].target =
               entries'[Largest(UndosIn(entries', SubSeq(IdsOf(redoStack'), 1, k)))].rollback
  <2>1. CASE k \in 1..Len(redoStack)
    BY <1>3, <1>5, <2>1 DEF RedoKept
  <2>2. CASE k = Len(redoStack')
    <3> DEFINE us == UndosIn(entries', SubSeq(IdsOf(redoStack'), 1, k))
               n == Len(entries')
    <3>1. SubSeq(IdsOf(redoStack'), 1, k) = e.redo
      BY <1>2, <1>3, <2>2, WholeSubSeq
    <3>2. n \in Nat /\ n \in 1..n /\ entries'[n] = e
      BY <1>2, <1>4, AppendFacts
    <3>3. n \in us /\ us \subseteq 1..n
      BY <1>2, <3>1, <3>2 DEF UndosIn
    <3>4. us \in SUBSET (0..n) /\ us /= {}
      BY <3>2, <3>3
    <3> HIDE DEF us, n
    <3>5. Largest(us) \in us /\ \A i \in us : i <= Largest(us)
      BY <3>2, <3>4, LargestIs
    <3>6. Largest(us) = n
      <4> DEFINE m == Largest(us)
      <4>1. m \in 1..n /\ n <= m
        BY <3>3, <3>5
      <4> HIDE DEF m
      <4>2. m = n
        BY <3>2, <4>1
      <4> QED BY <4>2 DEF m
    <3> QED BY <1>2, <1>3, <2>2, <3>2, <3>6 DEF us
  <2>3. k \in 1..Len(redoStack) \/ k = Len(redoStack')
    BY <1>3
  <2> QED BY <2>1, <2>2, <2>3
<1>7. RedoKept(entries', redoStack')
  BY <1>6 DEF RedoKept
<1> QED BY <1>2, <1>7, FollowCursor

\* redo.
LEMMA FollowRedo ==
  ASSUME HistInv, FollowInv, Redo
  PROVE  FollowInv'
<1>1. PICK c, target, e : Redoes(c, target, e)
  BY RedoShape
<1>2. /\ e \in EntryTypes /\ e.kind = "cursor" /\ e.action = "redo"
      /\ entries' = Append(entries, e) /\ leaf' = Len(entries')
      /\ redoStack /= <<>> /\ redoStack' = Front(redoStack)
      /\ agent' \in {"accepted", "idle"}
  BY <1>1 DEF Redoes
<1>3. /\ entries \in Seq(EntryTypes) /\ redoStack \in Seq(Undone)
      /\ \A k \in 1..Len(redoStack) : LeftByUndo(entries, SubSeq(IdsOf(redoStack), 1, k))
      /\ RedoKept(entries, redoStack)
  BY InvFacts DEF StackInv, FollowInv, FollowFile
<1>4. RedoKept(entries', redoStack)
  BY <1>2, <1>3, RedoKeptAppend
<1>5. /\ \A k \in 1..Len(redoStack') : redoStack'[k] = redoStack[k] /\ k \in 1..Len(redoStack)
      /\ \A k \in 1..Len(redoStack') :
           SubSeq(IdsOf(redoStack'), 1, k) = SubSeq(IdsOf(redoStack), 1, k)
  BY <1>2, <1>3, PopFacts, SMTT(60)
<1>6. RedoKept(entries', redoStack')
  BY <1>4, <1>5 DEF RedoKept
<1> QED BY <1>2, <1>6, FollowCursor

\* A navigation drops the redo stack.
LEMMA FollowTree ==
  ASSUME HistInv, FollowInv, Tree
  PROVE  FollowInv'
<1>1. PICK id, t, e : Navigates(id, t, e)
  BY TreeShape
<1>2. /\ e \in EntryTypes /\ e.kind = "cursor"
      /\ entries' = Append(entries, e) /\ leaf' = Len(entries')
      /\ redoStack' = <<>> /\ agent' \in {"accepted", "idle"}
  BY <1>1 DEF Navigates
<1>3. RedoKept(entries', redoStack')
  BY <1>2, EmptyRedo
<1> QED BY <1>2, <1>3, FollowCursor

(* The redo stack r answers the cursor c.                                  *)
Answers(r, c) ==
  /\ r \in Seq(Undone) /\ Len(r) = Len(c.redo) /\ IdsOf(r) = c.redo
  /\ \A k \in 1..Len(r) :
       /\ r[k].checkpoint.start = c.redo[k]
       /\ r[k].target = entries[Largest(UndosIn(entries, SubSeq(c.redo, 1, k)))].rollback

\* The stacks of a new controller, from the cursor of its leaf.
LEMMA RebuiltShape ==
  ASSUME FileInv(entries), NEW l \in 0..Len(entries)
  PROVE  /\ CursorAt(l) = None => Rebuilt(l).undo = Attached(l) /\ Rebuilt(l).redo = <<>>
         /\ CursorAt(l) /= None =>
              Rebuilt(l).undo = CursorStack(CursorAt(l)) /\ Answers(Rebuilt(l).redo, CursorAt(l))
         /\ RedoKept(entries, Rebuilt(l).redo)
<1> DEFINE c == CursorAt(l)
           new == Rebuilt(l)
           undone(k) == [checkpoint |-> FindById(c.redo[k]),
                         target |-> entries[Largest(UndoOf(c, k))].rollback]
<1>1. CASE c = None
  <2>1. new.undo = Attached(l) /\ new.redo = <<>>
    BY <1>1 DEF Rebuilt
  <2> QED BY <1>1, <2>1, EmptyRedo
<1>2. CASE c /= None
  <2>1. new.undo = CursorStack(c) /\ new.redo = [k \in DOMAIN c.redo |-> undone(k)]
    BY <1>2 DEF Rebuilt
  <2>2. /\ c \in CursorEntries
        /\ \A k \in 1..Len(c.redo) : Named(entries, c.redo[k])
    BY <1>2, CursorAtFacts
  <2>3. new.redo \in Seq(Undone)
    BY RebuiltFacts DEF StackInv
  <2> HIDE DEF c, new
  <2>4. c.redo \in Seq(Nat) /\ Len(c.redo) \in Nat /\ DOMAIN c.redo = 1..Len(c.redo)
    BY <2>2 DEF CursorEntries
  <2>5. ASSUME NEW k \in 1..Len(c.redo)
        PROVE  /\ undone(k).checkpoint.start = c.redo[k]
               /\ undone(k).target = entries[Largest(UndosIn(entries, SubSeq(c.redo, 1, k)))].rollback
    <3>1. FindById(c.redo[k]).start = c.redo[k]
      BY <2>2, FindByIdFacts
    <3>2. UndoOf(c, k) = UndosIn(entries, SubSeq(c.redo, 1, k))
      BY DEF UndoOf, UndosIn, OfKind, Ids
    <3> QED BY <3>1, <3>2
  <2>6. Len(new.redo) = Len(c.redo) /\ \A k \in 1..Len(c.redo) : new.redo[k] = undone(k)
    <3> HIDE DEF undone
    <3> QED BY <2>1, <2>3, <2>4
  <2>7. IdsOf(new.redo) = c.redo
    <3>1. DOMAIN new.redo = DOMAIN c.redo /\ IdsOf(new.redo) = [k \in DOMAIN c.redo |-> new.redo[k].checkpoint.start]
      BY <2>1 DEF IdsOf
    <3>2. \A k \in DOMAIN c.redo : new.redo[k].checkpoint.start = c.redo[k]
      <4> HIDE DEF undone
      <4> QED BY <2>4, <2>5, <2>6
    <3>3. c.redo \in [1..Len(c.redo) -> Nat]
      BY <2>4, LenProperties
    <3>4. c.redo = [k \in DOMAIN c.redo |-> c.redo[k]]
      BY <3>3
    <3> QED BY <3>1, <3>2, <3>4
  <2> HIDE DEF undone
  <2>8. Answers(new.redo, c)
    BY <2>3, <2>5, <2>6, <2>7 DEF Answers
  <2>9. RedoKept(entries, new.redo)
    BY <2>8 DEF Answers, RedoKept
  <2> QED BY <1>2, <2>1, <2>8, <2>9 DEF c, new
<1> QED BY <1>1, <1>2

\* A new controller finds the manifests its redo stack keeps.
LEMMA FollowRebuild ==
  ASSUME HistInv, FollowInv, NEW at \in 0..Len(entries), RebuildAt(at), UNCHANGED entries,
         leaf' = Len(entries) \/ leaf' = leaf, \A d \in Disturbances : spent'[d] = 0 => spent[d] = 0
  PROVE  FollowInv'
<1>1. redoStack' = Rebuilt(at).redo /\ staged' = None
  BY DEF RebuildAt
<1>2. RedoKept(entries, redoStack') /\ Len(entries) \in Nat
  BY <1>1, InvFacts, RebuiltShape
<1>3. FollowFile(entries', redoStack')
  BY <1>2 DEF FollowInv, FollowFile
<1>4. LeafLast'
  BY DEF FollowInv, LeafLast, Disturbances
<1> QED BY <1>1, <1>3, <1>4, NotRunning DEF FollowInv

\* A compensation is spent, and then the leaf may be elsewhere.
LEMMA FollowDeclined ==
  ASSUME HistInv, FollowInv, Declined
  PROVE  FollowInv'
<1>1. /\ UNCHANGED <<entries, redoStack>> /\ staged' = None
      /\ Spend("declined")
  BY Zenon DEF Declined, Fails, Ready
<1>2. spent'["declined"] /= 0
  <2>1. spent' = [spent EXCEPT !["declined"] = @ + 1]
    BY <1>1, Zenon DEF Spend
  <2>2. spent \in [Disturbances -> Nat] /\ "declined" \in Disturbances
    BY InvFacts DEF Disturbances
  <2> QED BY <2>1, <2>2
<1>3. FollowFile(entries', redoStack')
  BY <1>1 DEF FollowInv
<1> QED BY <1>1, <1>2, <1>3, NotRunning DEF FollowInv, LeafLast

\* No run, no start entry and no stack at first.
LEMMA FollowInit == Init => FollowInv
<1> SUFFICES ASSUME Init PROVE FollowInv
  OBVIOUS
<1> DEFINE none == <<>>
           e == [kind |-> "system", parent |-> 0]
           f == <<e>>
<1>1. Len(none) = 0 /\ Len(f) = 1 /\ f[1] = e /\ (entries = none \/ entries = f)
      /\ redoStack = none
  BY DEF Init
<1>2. e.kind = "system"
  OBVIOUS
<1> HIDE DEF none, f, e
<1>3. \A i \in 1..Len(entries) : entries[i].kind = "system"
  BY <1>1, <1>2
<1>4. EndsReplied(entries)
  BY <1>3 DEF EndsReplied, Logged
<1>5. SourcesBefore(entries)
  BY <1>3 DEF SourcesBefore
<1>6. RedoKept(entries, redoStack)
  BY <1>1 DEF RedoKept
<1>7. RunFollowed /\ LeafLast
  BY DEF Init, RunFollowed, Running, LeafLast
<1> QED BY <1>4, <1>5, <1>6, <1>7 DEF FollowInv, FollowFile

\* One step per action.
LEMMA FollowStep == HistInv /\ FollowInv /\ [Next]_vars => FollowInv'
<1> SUFFICES ASSUME HistInv, FollowInv, [Next]_vars PROVE FollowInv'
  OBVIOUS
<1>0. \A d \in Disturbances : spent'[d] = 0 => spent[d] = 0
  BY NothingForgotten
<1>1. CASE Prompt
  <2>1. agent' \notin {"started", "running", "replied"} /\ UNCHANGED <<entries, redoStack, leaf>>
    BY <1>1 DEF Prompt
  <2> QED BY <1>0, <2>1, FollowQuiet, NotRunning
<1>2. CASE Abandon
  <2>1. agent' \notin {"started", "running", "replied"} /\ UNCHANGED <<entries, redoStack, leaf>>
    BY <1>2 DEF Abandon, controller
  <2> QED BY <1>0, <2>1, FollowQuiet, NotRunning
<1>3. CASE StartRun
  BY <1>0, <1>3, FollowStartRun
<1>4. CASE StartFails
  <2>1. staged' = None /\ UNCHANGED <<entries, redoStack, leaf>>
    BY <1>4 DEF StartFails
  <2> QED BY <1>0, <2>1, FollowQuiet
<1>5. CASE PiUser
  BY <1>5, FollowPiUser
<1>6. CASE PiReply
  BY <1>6, FollowPiReply
<1>7. CASE SettleUnrecorded
  <2>1. staged' = None /\ UNCHANGED <<entries, redoStack, leaf>>
    BY <1>7 DEF SettleUnrecorded, Settling
  <2> QED BY <1>0, <2>1, FollowQuiet
<1>8. CASE Settle
  BY <1>8, FollowSettle
<1>9. CASE PromptMissing
  <2>1. AppendBarrier /\ agent' = "idle" /\ UNCHANGED redoStack
    BY <1>9 DEF PromptMissing, Settling
  <2> QED BY <2>1, FollowBarrier
<1>10. CASE SettleFails
  <2>1. AppendBarrier /\ agent' = "idle" /\ redoStack' = <<>>
    BY <1>10 DEF SettleFails, Settling
  <2> QED BY <2>1, FollowBarrier
<1>11. CASE Undo
  BY <1>11, FollowUndo
<1>12. CASE Redo
  BY <1>12, FollowRedo
<1>13. CASE UndoNothing
  <2>1. staged' = None /\ UNCHANGED <<entries, redoStack, leaf>>
    BY <1>13 DEF UndoNothing, Ready
  <2> QED BY <1>0, <2>1, FollowQuiet
<1>14. CASE Declined
  BY <1>14, FollowDeclined
<1>15. CASE Tree
  BY <1>15, FollowTree
<1>16. CASE Recover
  <2>1. RebuildAt(leaf) /\ UNCHANGED <<entries, leaf>>
    BY <1>16 DEF Recover
  <2> QED BY <1>0, <2>1, InvFacts, FollowRebuild
<1>17. CASE Restart
  <2>1. RebuildAt(Len(entries)) /\ UNCHANGED entries /\ leaf' = Len(entries)
    BY <1>17 DEF Restart
  <2>2. Len(entries) \in 0..Len(entries)
    BY InvFacts
  <2> QED BY <1>0, <2>1, <2>2, FollowRebuild
<1>18. CASE FinalizationFails
  <2>1. locked' /\ UNCHANGED <<entries, redoStack, leaf>>
    BY <1>18 DEF FinalizationFails
  <2> QED BY <1>0, <2>1, FollowQuiet
<1>19. CASE Edit
  <2>1. UNCHANGED <<entries, redoStack, leaf>> /\ UNCHANGED <<agent, staged, locked>>
    BY <1>19, Zenon DEF Edit, controller
  <2> QED BY <1>0, <2>1, FollowQuiet
<1>20. CASE UNCHANGED vars
  <2>1. UNCHANGED <<entries, redoStack, leaf>> /\ UNCHANGED <<agent, staged, locked>>
    BY <1>20, Zenon DEF vars, controller
  <2> QED BY <1>0, <2>1, FollowQuiet
<1> QED BY <1>1, <1>2, <1>3, <1>4, <1>5, <1>6, <1>7, <1>8, <1>9, <1>10, <1>11, <1>12, <1>13,
           <1>14, <1>15, <1>16, <1>17, <1>18, <1>19, <1>20, Zenon DEF Next

\* Both invariants hold in every behaviour.
LEMMA FollowInvAlways == Spec => [](HistInv /\ FollowInv)
<1>1. HistInv /\ FollowInv /\ [Next]_vars => (HistInv /\ FollowInv)'
  BY HistStep, FollowStep
<1>2. QED BY <1>1, HistInit, FollowInit, PTL DEF Spec

-----------------------------------------------------------------------------
(* The workspace and the stacks of a session nobody disturbed (CalmInv).   *)

(* Nobody else wrote, nothing failed, no run goes on unrecorded.           *)
Calm == Undisturbed /\ missed = {} /\ ~(Running /\ Unrecorded)

(* The stacks meet at the leaf l, where the workspace was f.               *)
Standing(es, u, r, l, f) ==
  /\ Meets(es, u, LogicalIn(es, l)) /\ RedoMeets(es, r, LogicalIn(es, l))
  /\ At(es, LogicalIn(es, l), f)
  /\ LogicalIn(es, l) = LogicalIn(es, Len(es))

(* So it was where the run s that goes on began.                           *)
RunStanding(es, u, s) ==
  Meets(es, u, LogicalIn(es, s.start)) /\ At(es, LogicalIn(es, s.start), s.before.files)

AfterKept(r) == \A k \in 1..Len(r) : r[k].target = r[k].checkpoint.after

Stands ==
  /\ Running => RunStanding(entries, undoStack, staged)
  /\ ~Running => /\ Standing(entries, undoStack, redoStack, leaf, ws)
                 /\ staged /= None => staged.before.files = ws

CalmSession == CalmFile(entries) /\ AfterKept(redoStack) /\ Stands
CalmInv == Calm => CalmSession

\* The logical leaf of a new entry.
LEMMA LogicalNew ==
  ASSUME NEW es, FileInv(es), NEW e \in EntryTypes, e.parent \in 0..Len(es),
         NEW es2, es2 = Append(es, e), FileInv(es2)
  PROVE  LogicalIn(es2, Len(es2)) = IF e.kind \in Messages THEN Len(es2) ELSE LogicalIn(es, e.parent)
<1>0. Extends(es, e, es2)
  BY OldStays
<1>1. /\ Len(es) \in Nat /\ Len(es2) = Len(es) + 1 /\ es2[Len(es2)] = e
      /\ \A i \in 1..Len(es) : es2[i] = es[i]
      /\ Up(es, e.parent) \subseteq 1..Len(es)
  BY <1>0 DEF Extends
<1>2. Up(es2, Len(es2)) = {Len(es2)} \cup Up(es, e.parent)
  <2>1. Growth(es, e, es2)
    BY Grown
  <2> QED BY <2>1 DEF Growth
<1>3. CASE e.kind \in Messages
  <2> DEFINE n == Len(es2)
  <2>1. Ordered(es2, n)
    BY DEF FileInv, FileTyped
  <2>2. n \in Nat /\ n \in 0..n /\ n /= 0 /\ es2[n].kind \in Messages
    BY <1>1, <1>3
  <2> HIDE DEF n
  <2>3. LogicalIn(es2, n) = n
    BY <2>1, <2>2, LogicalFacts
  <2> QED BY <1>3, <2>3 DEF n
<1>4. CASE e.kind \notin Messages
  <2>1. {0} \cup {i \in Up(es2, Len(es2)) : es2[i].kind \in Messages} =
          {0} \cup {i \in Up(es, e.parent) : es[i].kind \in Messages}
    BY <1>1, <1>2, <1>4
  <2> QED BY <1>4, <2>1 DEF LogicalIn
<1> QED BY <1>3, <1>4

\* What the workspace is said to have been at a leaf stays so, but for a new run.
LEMMA AtStays ==
  ASSUME NEW es, FileInv(es), NEW e \in EntryTypes, NEW es2, es2 = Append(es, e),
         e.kind /= "checkpoint", NEW l, NEW f, At(es, l, f)
  PROVE  At(es2, l, f)
BY StoodStays DEF At

\* A run that goes on stands where it stood.
LEMMA RunStandingStays ==
  ASSUME NEW es, FileInv(es), NEW e \in EntryTypes, NEW es2, es2 = Append(es, e),
         e.kind /= "checkpoint", NEW u, LoggedRuns(es, u), NEW s, s.start \in 0..Len(es),
         RunStanding(es, u, s)
  PROVE  RunStanding(es2, u, s)
<1> DEFINE l == LogicalIn(es, s.start)
<1>1. LogicalIn(es2, s.start) = l
  <2>1. Extends(es, e, es2)
    BY OldStays
  <2> QED BY <2>1 DEF Extends
<1>2. Meets(es, u, l) /\ At(es, l, s.before.files)
  BY DEF RunStanding
<1> HIDE DEF l
<1>3. Meets(es2, u, l)
  BY <1>2, MeetingStays
<1>4. At(es2, l, s.before.files)
  BY <1>2, AtStays
<1> QED BY <1>1, <1>3, <1>4 DEF RunStanding

(* The run s goes on at the leaf l.                                        *)
RunCalm(es, l, u, s) ==
  /\ CalmFile(es) /\ InRun(es, l) /\ RunStanding(es, u, s)
  /\ LoggedRuns(es, u) /\ s.start \in 0..Len(es)

\* A message of a run.
LEMMA CalmMessage ==
  ASSUME NEW es, FileInv(es), NEW e \in EntryTypes, e.kind \in Messages,
         e.parent \in 0..Len(es), NEW es2, es2 = Append(es, e),
         NEW u, NEW s, RunCalm(es, e.parent, u, s)
  PROVE  RunCalm(es2, Len(es2), u, s)
<1>0. /\ CalmFile(es) /\ InRun(es, e.parent) /\ RunStanding(es, u, s)
      /\ LoggedRuns(es, u) /\ s.start \in 0..Len(es)
  BY DEF RunCalm
<1>2. e.kind \notin {"checkpoint", "cursor"}
  BY DEF Messages
<1>3. FileInv(es2)
  BY <1>2, PlainAppend
<1>4. CalmFile(es2)
  BY <1>0, <1>2, <1>3, CalmFileAppend
<1>5. RunStanding(es2, u, s)
  BY <1>0, <1>2, RunStandingStays
<1>6. InRun(es2, Len(es2))
  <2>1. es2[Len(es2)].kind \in Messages /\ Len(es2) \in 1..Len(es2)
    <3>1. es \in Seq(EntryTypes)
      BY DEF FileInv, FileTyped
    <3> QED BY <1>2, <3>1, AppendFacts
  <2> QED BY <1>4, <2>1 DEF CalmFile, MessagesInRuns
<1>7. LoggedRuns(es2, u) /\ s.start \in 0..Len(es2)
  <2>1. Growth(es, e, es2)
    <3>1. e.parent \in 0..Len(es)
      BY <1>2
    <3> QED BY <1>2, <1>3, <3>1, Grown
  <2> QED BY <1>0, <2>1 DEF Growth
<1> QED BY <1>4, <1>5, <1>6, <1>7 DEF RunCalm

\* A cursor that says what was so.
LEMMA CalmCursor ==
  ASSUME NEW es, FileInv(es), CalmFile(es), NEW e \in EntryTypes, e.kind = "cursor",
         e.parent \in 0..Len(es), NEW es2, es2 = Append(es, e), FileInv(es2),
         CursorCalm(es, e), NEW b, b = LogicalIn(es, e.parent),
         NEW u, LoggedRuns(es, u), Meets(es, u, b),
         NEW r \in Seq(Undone), \A k \in 1..Len(r) : Logged(es, r[k].checkpoint), RedoMeets(es, r, b),
         NEW f, StoodIn(es, b, f)
  PROVE  CalmFile(es2) /\ Standing(es2, u, r, Len(es2), f)
<1>1. e.kind \notin Messages /\ e.kind /= "checkpoint"
  BY DEF Messages
<1>2. CalmFile(es2)
  BY <1>1, CalmFileAppend
<1>3. LogicalIn(es2, Len(es2)) = b
  BY <1>1, LogicalNew
<1>4. Meets(es2, u, b) /\ RedoMeets(es2, r, b)
  BY MeetingStays
<1>5. At(es2, b, f)
  <2>1. StoodIn(es2, b, f)
    BY StoodStays
  <2> QED BY <1>2, <2>1 DEF CalmFile, StoodOnce, At
<1> QED BY <1>2, <1>3, <1>4, <1>5 DEF Standing

\* On the branch of a run that goes on nothing but messages follows its start entry.
LEMMA RunBranch ==
  ASSUME HistInv, FollowInv, Running, ~Unrecorded
  PROVE  InRun(entries, leaf)
<1>1. StartedOn(entries, leaf, staged.start)
  BY InvFacts DEF RunInv, Running
<1>2. OnlyMessages(entries, staged.start)
  BY DEF FollowInv, RunFollowed
<1>3. /\ Up(entries, leaf) \subseteq 1..Len(entries) /\ Len(entries) \in Nat
  <2>1. Up(entries, leaf) \subseteq 1..leaf /\ leaf \in 0..Len(entries) /\ Len(entries) \in Nat
    BY InvFacts, UpFacts
  <2> QED BY <2>1
<1> SUFFICES ASSUME NEW j \in Up(entries, leaf), entries[j].kind = "cursor"
             PROVE  \E m \in Up(entries, leaf) : m > j /\ entries[m].kind = "start"
  BY DEF InRun
<1> DEFINE s == staged.start
<1>4. s \in Up(entries, leaf) /\ entries[s].kind = "start"
  BY <1>1 DEF StartedOn
<1>5. ~(j > s)
  BY <1>2, <1>3 DEF OnlyMessages, Messages
<1>6. j /= s
  BY <1>4
<1> HIDE DEF s
<1>7. s > j
  BY <1>3, <1>4, <1>5, <1>6
<1> QED BY <1>4, <1>7

\* A session that was calm after a step was calm before it.
LEMMA CalmBefore ==
  ASSUME HistInv, [Next]_vars, Calm'
  PROVE  Calm
<1>1. /\ \A d \in Disturbances : spent'[d] = 0 => spent[d] = 0
      /\ missed \subseteq missed'
  BY NothingForgotten
<1>2. Undisturbed /\ missed = {}
  BY <1>1 DEF Calm, Undisturbed, Disturbances
<1>3. "run" \notin missed' /\ spent'["edit"] = 0 /\ spent'["crash"] = 0
  BY DEF Calm, Undisturbed
<1> SUFFICES ASSUME Running, Unrecorded PROVE FALSE
  BY <1>2 DEF Calm
<1>4. agent \in {"started", "running", "replied"}
  BY DEF Running
<1>5. ASSUME agent' \in {"started", "running", "replied"}, Unrecorded' PROVE FALSE
  BY <1>5 DEF Calm, Running
<1>6. ASSUME UNCHANGED <<staged, locked>>, agent' \in {"started", "running", "replied"} PROVE FALSE
  BY <1>5, <1>6 DEF Unrecorded
<1>7. spent \in [Disturbances -> Nat]
  BY InvFacts
<1>8. ~Prompt /\ ~Abandon /\ ~StartRun /\ ~StartFails /\ ~Undo /\ ~Redo /\ ~UndoNothing
        /\ ~Declined /\ ~Tree
  BY <1>4 DEF Prompt, Waiting, Abandon, StartRun, StartFails, Undo, Redo, UndoNothing, Declined,
              Fails, Ready, Tree
<1>9. ~Settle /\ ~PromptMissing /\ ~SettleFails
  BY DEF Settle, PromptMissing, SettleFails
<1>10. CASE PiUser
  <2>1. UNCHANGED <<staged, locked>> /\ agent' = "running"
    BY <1>10, Zenon DEF PiUser, controller
  <2> QED BY <1>6, <2>1
<1>11. CASE PiReply
  <2>1. UNCHANGED <<staged, locked>> /\ agent' = "replied"
    BY <1>11, Zenon DEF PiReply, controller
  <2> QED BY <1>6, <2>1
<1>12. CASE SettleUnrecorded
  BY <1>3, <1>12 DEF SettleUnrecorded
<1>13. CASE Recover
  <2>1. staged' = None /\ agent' = agent
    BY <1>4, <1>13 DEF Recover, RebuildAt
  <2> QED BY <1>4, <1>5, <2>1 DEF Unrecorded
<1>14. CASE Restart
  <2>1. Spend("crash")
    BY <1>4, <1>14 DEF Restart, Waiting
  <2>2. spent' = [spent EXCEPT !["crash"] = @ + 1] /\ "crash" \in Disturbances
    BY <2>1, Zenon DEF Spend, Disturbances
  <2> QED BY <1>3, <1>7, <2>2
<1>15. CASE FinalizationFails
  <2>1. locked' = TRUE /\ agent' = agent
    BY <1>15 DEF FinalizationFails
  <2> QED BY <1>4, <1>5, <2>1 DEF Unrecorded
<1>16. CASE Edit
  <2>1. spent' = [spent EXCEPT !["edit"] = @ + 1] /\ "edit" \in Disturbances
    BY <1>16, Zenon DEF Edit, Spend, Disturbances
  <2> QED BY <1>3, <1>7, <2>1
<1>17. CASE UNCHANGED vars
  <2>1. UNCHANGED <<staged, locked>> /\ agent' = agent
    BY <1>17, Zenon DEF vars, controller
  <2> QED BY <1>4, <1>6, <2>1
<1> QED BY <1>8, <1>9, <1>10, <1>11, <1>12, <1>13, <1>14, <1>15, <1>16, <1>17, Zenon DEF Next

\* A step that appends nothing and leaves the stacks, the leaf and the workspace alone.
LEMMA CalmQuiet ==
  ASSUME CalmSession, UNCHANGED <<entries, leaf, ws, undoStack, redoStack>>, ~Running, ~Running',
         staged' = staged \/ staged' = None \/ staged'.before.files = ws
  PROVE  CalmSession'
<1>1. /\ CalmFile(entries) /\ AfterKept(redoStack)
      /\ Standing(entries, undoStack, redoStack, leaf, ws)
      /\ staged /= None => staged.before.files = ws
  BY DEF CalmSession, Stands
<1>2. CalmFile(entries)' /\ AfterKept(redoStack)'
      /\ Standing(entries, undoStack, redoStack, leaf, ws)'
  BY <1>1
<1>3. (staged /= None => staged.before.files = ws)'
  BY <1>1
<1> QED BY <1>2, <1>3 DEF CalmSession, Stands

\* startAgentRun: the run begins where the session stands.
LEMMA CalmStartRun ==
  ASSUME HistInv, FollowInv, CalmSession, StartRun, ~Unrecorded
  PROVE  CalmSession'
<1> DEFINE e == [kind |-> "start", parent |-> leaf, before |-> staged.before, source |-> staged.source]
<1>1. /\ entries' = Append(entries, e) /\ leaf' = Len(entries') /\ agent = "accepted"
      /\ staged' = [staged EXCEPT !.start = leaf'] /\ redoStack' = <<>> /\ agent' = "started"
      /\ undoStack' = undoStack
  BY Zenon DEF StartRun, Appended
<1>2. /\ FileInv(entries) /\ entries \in Seq(EntryTypes) /\ leaf \in Nat /\ leaf \in 0..Len(entries)
      /\ staged \in [before : Full, source : 0..Len(entries), start : 0..Len(entries)]
      /\ staged /= None /\ LoggedRuns(entries, undoStack)
  BY InvFacts DEF Unrecorded, StackInv
<1>3. e \in EntryTypes /\ e.kind = "start" /\ e.parent = leaf /\ e.kind \notin Messages
  BY <1>2 DEF EntryTypes, StartEntries, Messages
<1> HIDE DEF e
<1>4. ~Running /\ Running'
  BY <1>1 DEF Running
<1>5. /\ CalmFile(entries) /\ Standing(entries, undoStack, redoStack, leaf, ws)
      /\ staged.before.files = ws
  BY <1>2, <1>4 DEF CalmSession, Stands
<1>6. FileInv(entries')
  BY <1>1, <1>2, <1>3, PlainAppend
<1>7. CalmFile(entries')
  BY <1>1, <1>2, <1>3, <1>5, <1>6, CalmFileAppend
<1>8. LogicalIn(entries', Len(entries')) = LogicalIn(entries, leaf)
  BY <1>1, <1>2, <1>3, <1>6, LogicalNew
<1> DEFINE b == LogicalIn(entries, leaf)
<1>9. Meets(entries, undoStack, b) /\ At(entries, b, ws)
  BY <1>5 DEF Standing
<1> HIDE DEF b
<1>10. Meets(entries', undoStack, b)
  BY <1>1, <1>2, <1>3, <1>9, MeetingStays
<1>11. At(entries', b, ws)
  BY <1>1, <1>2, <1>3, <1>9, AtStays
<1>12. staged'.start = Len(entries') /\ staged'.before.files = ws
  BY <1>1, <1>2, <1>5
<1>13. RunStanding(entries', undoStack', staged')
  BY <1>1, <1>8, <1>10, <1>11, <1>12 DEF RunStanding, b
<1>14. AfterKept(redoStack')
  <2> DEFINE none == <<>>
  <2>1. Len(none) = 0
    OBVIOUS
  <2> HIDE DEF none
  <2>2. AfterKept(none)
    BY <2>1 DEF AfterKept
  <2> QED BY <1>1, <2>2 DEF none
<1> QED BY <1>4, <1>7, <1>13, <1>14 DEF CalmSession, Stands

\* The messages of a run.
LEMMA CalmPi ==
  ASSUME HistInv, FollowInv, CalmSession, PiUser \/ PiReply, ~Unrecorded
  PROVE  CalmSession'
<1>1. /\ UNCHANGED <<undoStack, redoStack, locked, staged>>
      /\ agent \in {"started", "running"} /\ agent' \in {"running", "replied"}
  BY Zenon DEF PiUser, PiReply, controller
<1>2. Running /\ Running'
  BY <1>1 DEF Running
<1>3. /\ FileInv(entries) /\ leaf \in 0..Len(entries) /\ leaf \in Nat
      /\ RunCalm(entries, leaf, undoStack, staged)
  BY <1>2, InvFacts, RunBranch DEF RunCalm, CalmSession, Stands, Unrecorded, StackInv
<1>4. "user" \in Messages /\ "other" \in Messages /\ "reply" \in Messages
  BY DEF Messages
<1>5. RunCalm(entries', Len(entries'), undoStack, staged)
  <2>1. ASSUME NEW kind \in Messages, entries' = Append(entries, [kind |-> kind, parent |-> leaf])
        PROVE  RunCalm(entries', Len(entries'), undoStack, staged)
    <3> DEFINE e == [kind |-> kind, parent |-> leaf]
    <3>1. e \in EntryTypes /\ e.kind = kind /\ e.parent = leaf /\ entries' = Append(entries, e)
      BY <1>3, <2>1, MessageEntry
    <3> HIDE DEF e
    <3> QED BY <1>3, <3>1, CalmMessage
  <2>2. ASSUME NEW mid, mid = Append(entries, [kind |-> "other", parent |-> leaf]),
               entries' = Append(mid, [kind |-> "user", parent |-> Len(mid)]),
               Len(mid) \in 0..Len(mid)
        PROVE  RunCalm(entries', Len(entries'), undoStack, staged)
    <3> DEFINE d == [kind |-> "other", parent |-> leaf]
               e == [kind |-> "user", parent |-> Len(mid)]
    <3>1. d \in EntryTypes /\ d.kind \in Messages /\ d.parent = leaf /\ mid = Append(entries, d)
      BY <1>3, <1>4, <2>2, MessageEntry
    <3>2. FileInv(mid)
      <4>1. MessageGrowth(entries, leaf, mid)
        BY <1>3, <1>4, <2>2, MessageStep
      <4> QED BY <4>1 DEF MessageGrowth
    <3>3. Len(mid) \in Nat
      BY <3>2 DEF FileInv, FileTyped
    <3>4. e \in EntryTypes /\ e.kind \in Messages /\ e.parent = Len(mid) /\ entries' = Append(mid, e)
      BY <1>4, <2>2, <3>3, MessageEntry
    <3> HIDE DEF d, e
    <3>5. RunCalm(mid, Len(mid), undoStack, staged)
      BY <1>3, <3>1, CalmMessage
    <3> QED BY <2>2, <3>2, <3>4, <3>5, CalmMessage
  <2>3. CASE PiUser
    BY <1>4, <2>1, <2>2, <2>3, PiUserFile
  <2>4. CASE PiReply
    <3>1. entries' = Append(entries, [kind |-> "reply", parent |-> leaf])
      BY <2>4, Zenon DEF PiReply, Appended
    <3> QED BY <1>4, <2>1, <3>1
  <2> QED BY <2>3, <2>4
<1>6. AfterKept(redoStack')
  BY <1>1 DEF CalmSession
<1>7. CalmFile(entries') /\ RunStanding(entries', undoStack', staged')
  BY <1>1, <1>5 DEF RunCalm
<1> QED BY <1>2, <1>6, <1>7 DEF CalmSession, Stands

-----------------------------------------------------------------------------
(* CalmInv over the operations that restore files.                         *)

\* A new run: the workspace was one thing where it began and is another where it ended.
LEMMA StoodOnceRun ==
  ASSUME NEW es, FileInv(es), StoodOnce(es), NEW e \in EntryTypes, e.kind = "checkpoint",
         NEW es2, es2 = Append(es, e), FileInv(es2),
         NEW b, b = LogicalIn(es, e.record.start), At(es, b, e.record.before.files),
         e.record.end = Len(es)
  PROVE  /\ StoodOnce(es2) /\ At(es2, Len(es), e.record.after.files)
         /\ BoundaryIn(es2, e.record) = b
<1> DEFINE r == e.record
<1>0. Extends(es, e, es2)
  BY OldStays
<1>1. /\ Len(es) \in Nat /\ Len(es2) = Len(es) + 1 /\ es2[Len(es2)] = e
      /\ \A i \in 1..Len(es) : es2[i] = es[i]
      /\ \A l \in 0..Len(es) : LogicalIn(es2, l) = LogicalIn(es, l)
  BY <1>0 DEF Extends
<1>2. Logged(es2, r)
  BY <1>1 DEF Logged
<1>8. \A l, f : StoodIn(es2, l, f) => StoodIn(es, l, f) \/ StoodAs(es2, r, l, f)
  BY StoodStays
<1> HIDE DEF r
<1>3. /\ r.start \in Nat /\ r.user \in Nat /\ r.end \in Nat
      /\ r.start \in 1..Len(es2) /\ r.start < r.user /\ r.user <= r.end
      /\ BoundaryIn(es2, r) = LogicalIn(es2, r.start) /\ BoundaryIn(es2, r) \in 0..r.start
  <2>1. /\ r \in Runs /\ r.start \in 1..Len(es2) /\ r.start < r.user /\ r.user <= r.end
        /\ BoundaryIn(es2, r) = LogicalIn(es2, r.start) /\ BoundaryIn(es2, r) \in 0..r.start
    BY <1>2, LoggedRange
  <2> QED BY <2>1, RunFacts
<1>4. r.end = Len(es) /\ At(es, b, r.before.files) /\ b = LogicalIn(es, r.start)
  BY DEF r
<1>5. r.start \in 0..Len(es) /\ r.start < Len(es)
  BY <1>1, <1>3, <1>4
<1>6. BoundaryIn(es2, r) = b /\ b \in 0..r.start /\ b /= Len(es)
  BY <1>1, <1>3, <1>4, <1>5
<1>7. ASSUME NEW f PROVE ~StoodIn(es, Len(es), f)
  <2> SUFFICES ASSUME NEW c, Logged(es, c), StoodAs(es, c, Len(es), f) PROVE FALSE
    BY DEF StoodIn
  <2>1. /\ c.start \in 1..Len(es) /\ c.end \in 1..Len(es) /\ c.user \in 1..Len(es)
        /\ c.start < c.user /\ c.user <= c.end /\ c.end < Len(es)
        /\ BoundaryIn(es, c) \in 0..c.start
    BY LoggedRange
  <2>2. c.end = Len(es) \/ BoundaryIn(es, c) = Len(es)
    BY DEF StoodAs
  <2> QED BY <1>1, <2>1, <2>2
<1>9. \A l, f : StoodAs(es2, r, l, f) =>
        (l = Len(es) /\ f = r.after.files) \/ (l = b /\ f = r.before.files)
  BY <1>4, <1>6 DEF StoodAs
<1>10. At(es2, Len(es), r.after.files)
  BY <1>6, <1>7, <1>8, <1>9 DEF At
<1>11. StoodOnce(es2)
  <2> SUFFICES ASSUME NEW l, NEW f, NEW g, StoodIn(es2, l, f), StoodIn(es2, l, g) PROVE f = g
    BY DEF StoodOnce
  <2>1. CASE l = Len(es)
    BY <1>10, <2>1 DEF At
  <2>2. CASE l = b
    <3>1. \A h : StoodIn(es2, b, h) => h = r.before.files
      BY <1>4, <1>6, <1>8, <1>9 DEF At
    <3> QED BY <2>2, <3>1
  <2>3. CASE l /= Len(es) /\ l /= b
    <3>1. StoodIn(es, l, f) /\ StoodIn(es, l, g)
      BY <1>8, <1>9, <2>3
    <3> QED BY <3>1 DEF StoodOnce
  <2> QED BY <2>1, <2>2, <2>3
<1> QED BY <1>6, <1>10, <1>11 DEF r

\* A run goes on top of the stack it began with.
LEMMA MeetsPush ==
  ASSUME NEW es, NEW u, LoggedRuns(es, u), NEW c, Meets(es, u, BoundaryIn(es, c))
  PROVE  Meets(es, Append(u, c), c.end)
<1>1. u \in Seq(Runs) /\ Len(u) \in Nat
  BY DEF LoggedRuns
<1>2. /\ Len(Append(u, c)) = Len(u) + 1 /\ Append(u, c)[Len(u) + 1] = c
      /\ \A k \in 1..Len(u) : Append(u, c)[k] = u[k]
  BY <1>1
<1> DEFINE v == Append(u, c)
<1> HIDE DEF v
<1>3. /\ Len(v) = Len(u) + 1 /\ v[Len(u) + 1] = c
      /\ \A k \in 1..Len(u) : v[k] = u[k]
  BY <1>2 DEF v
<1>4. ASSUME NEW k \in 1..Len(v)
      PROVE  v[k].end = IF k = Len(v) THEN c.end ELSE BoundaryIn(es, v[k + 1])
  <2>1. CASE k = Len(v)
    BY <1>3, <2>1
  <2>2. CASE k = Len(u)
    <3>1. k \in 1..Len(u) /\ k /= Len(v)
      BY <1>1, <1>3, <2>2
    <3>2. u[k].end = BoundaryIn(es, c)
      BY <2>2, <3>1 DEF Meets
    <3> QED BY <1>3, <2>2, <3>1, <3>2
  <2>3. CASE k \in 1..Len(u) /\ k /= Len(u)
    <3>1. k + 1 \in 1..Len(u) /\ k /= Len(v)
      BY <1>1, <1>3, <2>3
    <3>2. u[k].end = BoundaryIn(es, u[k + 1])
      BY <2>3 DEF Meets
    <3> QED BY <1>3, <2>3, <3>1, <3>2
  <2> QED BY <1>1, <1>3, <2>1, <2>2, <2>3
<1> QED BY <1>4 DEF Meets, v

\* And leaves it the stack it began with.
LEMMA MeetsPop ==
  ASSUME NEW es, NEW u, LoggedRuns(es, u), u /= <<>>, NEW l, Meets(es, u, l)
  PROVE  Last(u).end = l /\ Meets(es, Front(u), BoundaryIn(es, Last(u)))
<1>1. u \in Seq(Runs) /\ Len(u) \in Nat
  BY DEF LoggedRuns
<1>2. /\ Len(u) \in Nat \ {0} /\ Last(u) = u[Len(u)] /\ Len(Front(u)) = Len(u) - 1
      /\ \A k \in 1..(Len(u) - 1) : Front(u)[k] = u[k] /\ k \in 1..Len(u)
  BY <1>1, FrontFacts
<1> DEFINE v == Front(u)
           c == Last(u)
<1> HIDE DEF v, c
<1>3. c.end = l
  <2>1. Len(u) \in 1..Len(u)
    BY <1>2
  <2> QED BY <1>2, <2>1 DEF Meets, c
<1>4. ASSUME NEW k \in 1..Len(v)
      PROVE  v[k].end = IF k = Len(v) THEN BoundaryIn(es, c) ELSE BoundaryIn(es, v[k + 1])
  <2>1. v[k] = u[k] /\ k \in 1..Len(u) /\ k /= Len(u) /\ k + 1 \in 1..Len(u)
    BY <1>2 DEF v
  <2>2. u[k].end = BoundaryIn(es, u[k + 1])
    BY <2>1 DEF Meets
  <2>3. CASE k = Len(v)
    <3>1. u[k + 1] = c
      BY <1>2, <2>3 DEF c, v
    <3> QED BY <2>1, <2>2, <2>3, <3>1
  <2>4. CASE k /= Len(v)
    <3>1. k + 1 \in 1..(Len(u) - 1)
      BY <1>2, <2>4 DEF v
    <3>2. v[k + 1] = u[k + 1]
      BY <1>2, <3>1 DEF v
    <3> QED BY <2>1, <2>2, <2>4, <3>2
  <2> QED BY <2>3, <2>4
<1> QED BY <1>3, <1>4 DEF Meets, v, c

\* A run that is undone goes on the redo stack.
LEMMA RedoMeetsPush ==
  ASSUME NEW es, NEW r \in Seq(Undone), NEW x,
         RedoMeets(es, r, x.checkpoint.end), NEW v, Pushed(r, x, v)
  PROVE  RedoMeets(es, v, BoundaryIn(es, x.checkpoint))
<1>1. /\ Len(r) \in Nat /\ Len(v) = Len(r) + 1 /\ v[Len(v)] = x
      /\ \A k \in 1..Len(r) : v[k] = r[k]
  BY DEF Pushed
<1>2. ASSUME NEW k \in 1..Len(v)
      PROVE  BoundaryIn(es, v[k].checkpoint) =
               IF k = Len(v) THEN BoundaryIn(es, x.checkpoint) ELSE v[k + 1].checkpoint.end
  <2>1. CASE k = Len(v)
    BY <1>1, <2>1
  <2>2. CASE k = Len(r)
    <3>1. k \in 1..Len(r) /\ k /= Len(v) /\ k + 1 = Len(v)
      BY <1>1, <2>2
    <3>2. BoundaryIn(es, r[k].checkpoint) = x.checkpoint.end
      BY <2>2, <3>1 DEF RedoMeets
    <3> QED BY <1>1, <2>2, <3>1, <3>2
  <2>3. CASE k \in 1..Len(r) /\ k /= Len(r)
    <3>1. k + 1 \in 1..Len(r) /\ k /= Len(v)
      BY <1>1, <2>3
    <3>2. BoundaryIn(es, r[k].checkpoint) = r[k + 1].checkpoint.end
      BY <2>3 DEF RedoMeets
    <3> QED BY <1>1, <2>3, <3>1, <3>2
  <2> QED BY <1>1, <2>1, <2>2, <2>3
<1> QED BY <1>2 DEF RedoMeets

\* The run that is redone.
LEMMA RedoMeetsPop ==
  ASSUME NEW es, NEW r \in Seq(Undone), r /= <<>>, NEW l, RedoMeets(es, r, l)
  PROVE  /\ BoundaryIn(es, Last(r).checkpoint) = l
         /\ RedoMeets(es, Front(r), Last(r).checkpoint.end)
<1>1. /\ Len(r) \in Nat \ {0} /\ Last(r) = r[Len(r)] /\ Len(Front(r)) = Len(r) - 1
      /\ \A k \in 1..(Len(r) - 1) : Front(r)[k] = r[k] /\ k \in 1..Len(r)
  BY FrontFacts
<1> DEFINE v == Front(r)
           x == Last(r)
<1> HIDE DEF v, x
<1>2. BoundaryIn(es, x.checkpoint) = l
  <2>1. Len(r) \in 1..Len(r)
    BY <1>1
  <2> QED BY <1>1, <2>1 DEF RedoMeets, x
<1>3. ASSUME NEW k \in 1..Len(v)
      PROVE  BoundaryIn(es, v[k].checkpoint) =
               IF k = Len(v) THEN x.checkpoint.end ELSE v[k + 1].checkpoint.end
  <2>1. v[k] = r[k] /\ k \in 1..Len(r) /\ k /= Len(r) /\ k + 1 \in 1..Len(r)
    BY <1>1 DEF v
  <2>2. BoundaryIn(es, r[k].checkpoint) = r[k + 1].checkpoint.end
    BY <2>1 DEF RedoMeets
  <2>3. CASE k = Len(v)
    <3>1. r[k + 1] = x
      BY <1>1, <2>3 DEF x, v
    <3> QED BY <2>1, <2>2, <2>3, <3>1
  <2>4. CASE k /= Len(v)
    <3>1. k + 1 \in 1..(Len(r) - 1)
      BY <1>1, <2>4 DEF v
    <3>2. v[k + 1] = r[k + 1]
      BY <1>1, <3>1 DEF v
    <3> QED BY <2>1, <2>2, <2>4, <3>2
  <2> QED BY <2>3, <2>4
<1> QED BY <1>2, <1>3 DEF RedoMeets, v, x

\* An empty redo stack meets every leaf and keeps nothing.
LEMMA EmptyMeets ==
  ASSUME NEW es, NEW l
  PROVE  RedoMeets(es, <<>>, l) /\ AfterKept(<<>>) /\ <<>> \in Seq(Undone) /\ Len(<<>>) = 0
<1> DEFINE none == <<>>
<1>1. Len(none) = 0 /\ none \in Seq(Undone)
  OBVIOUS
<1> HIDE DEF none
<1>2. RedoMeets(es, none, l) /\ AfterKept(none)
  BY <1>1 DEF RedoMeets, AfterKept
<1> QED BY <1>1, <1>2 DEF none

\* The checkpoint of a run.
LEMMA CalmSettle ==
  ASSUME HistInv, FollowInv, CalmSession, Settle
  PROVE  CalmSession'
<1>0. HistInv'
  BY SettleKeeps
<1>1. PICK r, e : Settles(r, e)
  BY SettleShape
<1>2. /\ ~Unrecorded /\ agent = "replied" /\ agent' = "idle" /\ staged' = None
      /\ r \in Runs /\ ~Named(entries, r.start)
      /\ r.start = staged.start /\ r.end = Len(entries) /\ r.before = staged.before
      /\ r.after = Capture
      /\ e \in EntryTypes /\ e.kind = "checkpoint" /\ e.parent = Len(entries) /\ e.record = r
      /\ Len(entries) \in 1..Len(entries) /\ entries[Len(entries)].kind = "reply"
      /\ entries' = Append(entries, e) /\ leaf' = Len(entries')
      /\ undoStack' = Append(undoStack, r) /\ redoStack = <<>> /\ redoStack' = <<>> /\ ws' = ws
  BY <1>1 DEF Settles
<1>3. Running /\ ~Running'
  BY <1>2 DEF Running
<1>4. /\ FileInv(entries) /\ FileInv(entries') /\ Len(entries) \in Nat
      /\ Ordered(entries, Len(entries)) /\ LoggedRuns(entries, undoStack)
      /\ Len(entries) \in 0..Len(entries)
  BY <1>0, InvFacts DEF HistInv, StackInv
<1> DEFINE b == LogicalIn(entries, r.start)
<1>5. /\ CalmFile(entries) /\ Meets(entries, undoStack, b) /\ At(entries, b, r.before.files)
  BY <1>2, <1>3 DEF CalmSession, Stands, RunStanding
<1>6. b = LogicalIn(entries, r.start)
  OBVIOUS
<1> HIDE DEF b
<1>7. /\ StoodOnce(entries') /\ At(entries', Len(entries), r.after.files)
      /\ BoundaryIn(entries', r) = b
  <2>1. StoodOnce(entries)
    BY <1>5 DEF CalmFile
  <2>2. /\ StoodOnce(entries') /\ At(entries', Len(entries), e.record.after.files)
        /\ BoundaryIn(entries', e.record) = b
    BY <1>2, <1>4, <1>5, <1>6, <2>1, StoodOnceRun
  <2> QED BY <1>2, <2>2
<1>8. e.kind \notin Messages /\ e.kind /= "cursor" /\ ~Named(entries, e.record.start)
        /\ e.parent \in 0..Len(entries)
  BY <1>2, <1>4 DEF Messages
<1>9. CalmFile(entries')
  BY <1>2, <1>4, <1>5, <1>7, <1>8, CalmFileAppend
<1>10. LogicalIn(entries', Len(entries')) = Len(entries)
  <2>1. LogicalIn(entries', Len(entries')) = LogicalIn(entries, e.parent)
    BY <1>2, <1>4, <1>8, LogicalNew
  <2> DEFINE n == Len(entries)
  <2>2. n \in Nat /\ n \in 0..n /\ Ordered(entries, n) /\ n /= 0 /\ entries[n].kind \in Messages
    BY <1>2, <1>4 DEF Messages
  <2> HIDE DEF n
  <2>3. LogicalIn(entries, n) = n
    BY <2>2, LogicalFacts
  <2> QED BY <1>2, <2>1, <2>3 DEF n
<1>11. Meets(entries', undoStack', Len(entries))
  <2>1. Meets(entries', undoStack, BoundaryIn(entries', r))
    BY <1>2, <1>4, <1>5, <1>7, MeetingStays
  <2>2. LoggedRuns(entries', undoStack)
    BY <1>2, <1>4, LoggedRunsAppend DEF FileInv, FileTyped
  <2>3. Meets(entries', Append(undoStack, r), r.end)
    BY <2>1, <2>2, MeetsPush
  <2> QED BY <1>2, <2>3
<1>12. r.after.files = ws'
  BY <1>2 DEF Capture
<1>13. Standing(entries', undoStack', redoStack', leaf', ws')
  BY <1>2, <1>7, <1>10, <1>11, <1>12, EmptyMeets DEF Standing
<1> QED BY <1>2, <1>3, <1>9, <1>13, EmptyMeets DEF CalmSession, Stands

\* Where a session stands with a run that ended or began there.
LEMMA RestoredFiles ==
  ASSUME NEW c \in Runs, NEW m \in Full, ws = m.files, NEW n \in Full,
         \/ n = c.before /\ m = c.after
         \/ n = c.after /\ m = c.before
  PROVE  /\ SafetyCapture(m, ChangedPaths(c)) = m
         /\ Overwritten(n, ChangedPaths(c)) = n.files
<1>1. SafetyCapture(m, ChangedPaths(c)) = m
  BY DEF SafetyCapture, Agrees
<1>2. n.files \in [Paths -> Contents] /\ m.files \in [Paths -> Contents]
  BY DEF Full
<1>3. ASSUME NEW p \in Paths
      PROVE  (IF p \in ChangedPaths(c) THEN n.files[p] ELSE ws[p]) = n.files[p]
  BY DEF ChangedPaths
<1>4. Overwritten(n, ChangedPaths(c)) = [p \in Paths |-> n.files[p]]
  BY <1>3 DEF Overwritten
<1> QED BY <1>1, <1>2, <1>4

\* The session of a calm controller that does not run.
LEMMA CalmFacts ==
  ASSUME HistInv, CalmSession, ~Running
  PROVE  /\ FileInv(entries) /\ CalmFile(entries) /\ AfterKept(redoStack)
         /\ StoodOnce(entries)
         /\ LoggedRuns(entries, undoStack) /\ redoStack \in Seq(Undone)
         /\ \A k \in 1..Len(redoStack) : Logged(entries, redoStack[k].checkpoint)
         /\ Meets(entries, undoStack, LogicalIn(entries, leaf))
         /\ RedoMeets(entries, redoStack, LogicalIn(entries, leaf))
         /\ At(entries, LogicalIn(entries, leaf), ws)
         /\ LogicalIn(entries, leaf) = LogicalIn(entries, Len(entries))
         /\ staged /= None => staged.before.files = ws
BY InvFacts DEF CalmSession, Stands, Standing, StackInv, CalmFile

\* undo: the workspace is what it was before the run.
LEMMA CalmUndo ==
  ASSUME HistInv, FollowInv, CalmSession, Undo
  PROVE  CalmSession'
<1>0. HistInv'
  BY UndoKeeps
<1>1. PICK c, x, e : Undoes(c, x, e)
  BY UndoShape
<1>2. /\ undoStack /= <<>> /\ c = Last(undoStack) /\ c \in Runs /\ Logged(entries, c)
      /\ x \in Undone /\ x.checkpoint = c /\ x.target = SafetyCapture(c.after, ChangedPaths(c))
      /\ e \in EntryTypes /\ e.kind = "cursor" /\ e.action = "undo"
      /\ e.parent = c.start /\ e.parent \in 0..Len(entries) /\ e.to = LogicalIn(entries, c.start)
      /\ e.redo = IdsOf(redoStack') /\ e.rollback = x.target /\ e.target = c.before
      /\ entries' = Append(entries, e) /\ leaf' = Len(entries')
      /\ ws' = Overwritten(c.before, ChangedPaths(c))
      /\ undoStack' = Front(undoStack)
      /\ Pushed(redoStack, x, redoStack')
      /\ staged' = None /\ agent' \in {"accepted", "idle"}
  BY <1>1, Zenon DEF Undoes
<1>3. ~Running /\ ~Running'
  <2>1. agent \notin {"started", "running", "replied"}
    BY DEF Undo, Ready
  <2> QED BY <1>2, <2>1 DEF Running
<1> DEFINE l == LogicalIn(entries, leaf)
<1>4. /\ FileInv(entries) /\ CalmFile(entries) /\ AfterKept(redoStack)
      /\ LoggedRuns(entries, undoStack) /\ redoStack \in Seq(Undone)
      /\ \A k \in 1..Len(redoStack) : Logged(entries, redoStack[k].checkpoint)
      /\ Meets(entries, undoStack, l) /\ RedoMeets(entries, redoStack, l) /\ At(entries, l, ws)
  BY <1>3, CalmFacts
<1>5. FileInv(entries') /\ LoggedRuns(entries', undoStack')
  BY <1>0 DEF HistInv, StackInv
<1> HIDE DEF l
<1>6. c.end = l /\ Meets(entries, Front(undoStack), BoundaryIn(entries, c))
  BY <1>2, <1>4, MeetsPop
<1> DEFINE b == BoundaryIn(entries, c)
<1>7. b = LogicalIn(entries, c.start)
  BY <1>2, <1>4, LoggedRange
<1>8. StoodIn(entries, l, c.after.files) /\ StoodIn(entries, b, c.before.files)
  BY <1>2, <1>6 DEF StoodIn, StoodAs
<1>9. ws = c.after.files
  BY <1>4, <1>8 DEF At
<1>10. x.target = c.after /\ ws' = c.before.files
  <2>1. c.before \in Full /\ c.after \in Full
    BY <1>2, RunFacts
  <2> QED BY <1>2, <1>9, <2>1, RestoredFiles
<1> HIDE DEF b
<1>11. /\ redoStack' \in Seq(Undone) /\ Len(redoStack) \in Nat
       /\ Len(redoStack') = Len(redoStack) + 1 /\ redoStack'[Len(redoStack')] = x
       /\ \A k \in 1..Len(redoStack) : redoStack'[k] = redoStack[k]
       /\ Len(e.redo) = Len(redoStack')
       /\ e.redo[Len(e.redo)] = c.start
  <2>1. /\ redoStack' \in Seq(Undone) /\ Len(redoStack) \in Nat
        /\ Len(redoStack') = Len(redoStack) + 1 /\ redoStack'[Len(redoStack')] = x
        /\ \A k \in 1..Len(redoStack) : redoStack'[k] = redoStack[k]
    BY <1>2 DEF Pushed
  <2>2. /\ Len(IdsOf(redoStack')) = Len(redoStack')
        /\ \A k \in 1..Len(redoStack') : IdsOf(redoStack')[k] = redoStack'[k].checkpoint.start
    BY <2>1, IdsFacts
  <2>3. Len(redoStack') \in 1..Len(redoStack')
    BY <2>1
  <2> QED BY <1>2, <2>1, <2>2, <2>3
<1>12. \A k \in 1..Len(redoStack') : k \in 1..Len(redoStack) \/ k = Len(redoStack')
  BY <1>11
<1>13. \A k \in 1..Len(redoStack') : Logged(entries, redoStack'[k].checkpoint)
  BY <1>2, <1>4, <1>11, <1>12
<1>14. RedoMeets(entries, redoStack', b)
  BY <1>2, <1>4, <1>6, RedoMeetsPush DEF b
<1>15. b = LogicalIn(entries, e.parent) /\ e.to = b
  BY <1>2, <1>7
<1>16. CursorCalm(entries, e)
  <2>1. Recalls(entries, e)
    BY <1>2, <1>11, <1>13, <1>14, <1>15 DEF Recalls
  <2>2. StoodIn(entries, e.to, e.target.files)
    BY <1>2, <1>8, <1>15 DEF b
  <2>3. RollsBack(entries, e)
    <3>1. \A d : Logged(entries, d) /\ d.start = c.start => d = c
      BY <1>2, <1>4, LoggedOnce
    <3> QED BY <1>2, <1>10, <1>11, <3>1 DEF RollsBack
  <2> QED BY <2>1, <2>2, <2>3 DEF CursorCalm
<1>17. CalmFile(entries') /\ Standing(entries', undoStack', redoStack', Len(entries'), ws')
  <2>1. Meets(entries, undoStack', b) /\ StoodIn(entries, b, ws')
    BY <1>2, <1>6, <1>8, <1>10 DEF b
  <2>2. LoggedRuns(entries, undoStack')
    BY <1>2, <1>4, LoggedLast
  <2> QED BY <1>2, <1>4, <1>5, <1>11, <1>13, <1>14, <1>15, <1>16, <2>1, <2>2, CalmCursor
<1>18. AfterKept(redoStack')
  BY <1>2, <1>4, <1>10, <1>11, <1>12 DEF AfterKept
<1> QED BY <1>2, <1>3, <1>17, <1>18 DEF CalmSession, Stands

\* redo: the workspace is what it was after the run.
LEMMA CalmRedo ==
  ASSUME HistInv, FollowInv, CalmSession, Redo
  PROVE  CalmSession'
<1>0. HistInv'
  BY RedoKeeps
<1>1. PICK c, target, e : Redoes(c, target, e)
  BY RedoShape
<1>2. /\ redoStack /= <<>> /\ Last(redoStack) = redoStack[Len(redoStack)]
      /\ c = Last(redoStack).checkpoint /\ target = Last(redoStack).target
      /\ c \in Runs /\ Logged(entries, c)
      /\ e \in EntryTypes /\ e.kind = "cursor" /\ e.action = "redo"
      /\ e.parent = Landing(c.end) /\ e.parent \in 0..Len(entries)
      /\ e.to = LogicalIn(entries, e.parent)
      /\ e.redo = IdsOf(redoStack') /\ e.target = target
      /\ entries' = Append(entries, e) /\ leaf' = Len(entries')
      /\ ws' = Overwritten(target, ChangedPaths(c))
      /\ undoStack' = Append(undoStack, c)
      /\ redoStack' = Front(redoStack)
      /\ staged' = None /\ agent' \in {"accepted", "idle"}
  BY <1>1, Zenon DEF Redoes
<1>3. ~Running /\ ~Running'
  <2>1. agent \notin {"started", "running", "replied"}
    BY DEF Redo, Ready
  <2> QED BY <1>2, <2>1 DEF Running
<1> DEFINE l == LogicalIn(entries, leaf)
<1>4. /\ FileInv(entries) /\ CalmFile(entries) /\ AfterKept(redoStack)
      /\ LoggedRuns(entries, undoStack) /\ redoStack \in Seq(Undone)
      /\ \A k \in 1..Len(redoStack) : Logged(entries, redoStack[k].checkpoint)
      /\ Meets(entries, undoStack, l) /\ RedoMeets(entries, redoStack, l) /\ At(entries, l, ws)
  BY <1>3, CalmFacts
<1>5. FileInv(entries') /\ LoggedRuns(entries', undoStack')
  BY <1>0 DEF HistInv, StackInv
<1> HIDE DEF l
<1>6. BoundaryIn(entries, c) = l /\ RedoMeets(entries, Front(redoStack), c.end)
  BY <1>2, <1>4, RedoMeetsPop
<1>7. /\ c.end \in 1..Len(entries) /\ entries[c.end].kind = "reply" /\ c.end /= 0
      /\ entries[c.end].kind \in Messages /\ c.end \in 0..Len(entries) /\ Len(entries) \in Nat
      /\ Ordered(entries, Len(entries))
  <2>1. c.end \in 1..Len(entries) /\ entries[c.end].kind \in Messages
    BY <1>2, <1>4, LoggedRange
  <2>2. entries[c.end].kind = "reply"
    BY <1>2 DEF FollowInv, FollowFile, EndsReplied
  <2> QED BY <2>1, <2>2, InvFacts
<1>8. e.parent = c.end /\ LogicalIn(entries, c.end) = c.end
  <2>1. e.parent = c.end
    BY <1>2, <1>7 DEF Landing
  <2> QED BY <1>7, <2>1, LogicalFacts
<1>9. StoodIn(entries, l, c.before.files) /\ StoodIn(entries, c.end, c.after.files)
  BY <1>2, <1>6 DEF StoodIn, StoodAs
<1>10. ws = c.before.files
  BY <1>4, <1>9 DEF At
<1>11. /\ redoStack' \in Seq(Undone) /\ Len(redoStack) \in Nat \ {0}
       /\ \A k \in 1..Len(redoStack') : redoStack'[k] = redoStack[k] /\ k \in 1..Len(redoStack)
  BY <1>2, <1>4, PopFacts
<1>12. target = c.after
  <2>1. Len(redoStack) \in 1..Len(redoStack)
    BY <1>11
  <2> QED BY <1>2, <1>4, <2>1 DEF AfterKept
<1>13. ws' = c.after.files
  <2>1. c.before \in Full /\ c.after \in Full
    BY <1>2, RunFacts
  <2> QED BY <1>2, <1>10, <1>12, <2>1, RestoredFiles, SMTT(60)
<1>14. \A k \in 1..Len(redoStack') : Logged(entries, redoStack'[k].checkpoint)
  BY <1>4, <1>11
<1>15. RedoMeets(entries, redoStack', c.end)
  BY <1>2, <1>6
<1>16. CursorCalm(entries, e)
  <2>1. Recalls(entries, e)
    BY <1>2, <1>8, <1>11, <1>14, <1>15 DEF Recalls
  <2>2. StoodIn(entries, e.to, e.target.files)
    BY <1>2, <1>8, <1>9, <1>12
  <2>3. RollsBack(entries, e)
    BY <1>2 DEF RollsBack
  <2> QED BY <2>1, <2>2, <2>3 DEF CursorCalm
<1>17. CalmFile(entries') /\ Standing(entries', undoStack', redoStack', Len(entries'), ws')
  <2>1. Meets(entries, undoStack', c.end)
    BY <1>2, <1>4, <1>6, MeetsPush
  <2>2. LoggedRuns(entries, undoStack')
    BY <1>2, <1>4, LoggedPush
  <2>3. StoodIn(entries, c.end, ws') /\ c.end = LogicalIn(entries, e.parent)
    BY <1>8, <1>9, <1>13
  <2> QED BY <1>2, <1>4, <1>5, <1>11, <1>14, <1>15, <1>16, <2>1, <2>2, <2>3, CalmCursor
<1>18. AfterKept(redoStack')
  BY <1>4, <1>11 DEF AfterKept
<1> QED BY <1>2, <1>3, <1>17, <1>18 DEF CalmSession, Stands

\* The entry that is the cursor of a leaf.
LEMMA CursorPlace ==
  ASSUME FileInv(entries), NEW l \in 0..Len(entries), CursorAt(l) /= None
  PROVE  \E i \in Up(entries, l) :
           /\ i \in 1..Len(entries) /\ entries[i].kind = "cursor" /\ CursorAt(l) = entries[i]
           /\ \A j \in Up(entries, l) : entries[j].kind \in Control => j <= i
<1> DEFINE own == {i \in Branch(l) : entries[i].kind \in Control}
           c == CursorAt(l)
           i == Largest(own)
<1>1. own \in SUBSET (0..Len(entries)) /\ own \subseteq Ids /\ Len(entries) \in Nat
        /\ own \subseteq Up(entries, l)
  BY FileFacts, OwnFile
<1>2. own /= {} /\ entries[i].kind = "cursor" /\ c = entries[i]
  BY DEF CursorAt
<1>3. \A j \in Up(entries, l) : entries[j].kind \in Control => j \in own
  BY OwnFile
<1> HIDE DEF c
<1>4. i \in own /\ \A j \in own : j <= i
  <2> HIDE DEF own
  <2> QED BY <1>1, <1>2, LargestIs
<1> HIDE DEF own, i
<1>5. i \in Up(entries, l) /\ i \in 1..Len(entries)
  BY <1>1, <1>4 DEF Ids
<1> QED BY <1>2, <1>3, <1>4, <1>5 DEF c

\* Where runs began with a start entry, no message follows the cursor of a leaf.
LEMMA CursorLogical ==
  ASSUME FileInv(entries), MessagesInRuns(entries), NEW l \in 0..Len(entries),
         NEW i \in Up(entries, l), i \in 1..Len(entries), entries[i].kind = "cursor",
         \A j \in Up(entries, l) : entries[j].kind \in Control => j <= i
  PROVE  LogicalIn(entries, l) = LogicalIn(entries, entries[i].parent)
<1>1. Len(entries) \in Nat /\ Ordered(entries, Len(entries)) /\ i \in 0..Len(entries) /\ i /= 0
        /\ i \in Nat
  BY FileFacts
<1>2. /\ Up(entries, l) \subseteq 1..l
      /\ \A m \in Up(entries, l) : Up(entries, m) = Up(entries, l) \cap 1..m
  BY <1>1, UpFacts
<1>3. Up(entries, i) = {i} \cup Up(entries, entries[i].parent)
  BY <1>1, UpSteps
<1>4. ASSUME NEW m \in Up(entries, l), entries[m].kind \in Messages
      PROVE  m \in Up(entries, entries[i].parent)
  <2>1. m \in Nat /\ m \in 1..Len(entries) /\ m /= i
    BY <1>1, <1>2, <1>4 DEF Messages
  <2>2. ~(m > i)
    <3> SUFFICES ASSUME m > i PROVE FALSE
      OBVIOUS
    <3>1. InRun(entries, m)
      BY <1>4, <2>1 DEF MessagesInRuns
    <3>2. Up(entries, m) = Up(entries, l) \cap 1..m
      BY <1>2
    <3>3. i \in Up(entries, m)
      BY <1>1, <2>1, <3>2
    <3>4. PICK n \in Up(entries, m) : n > i /\ entries[n].kind = "start"
      BY <3>1, <3>3 DEF InRun
    <3>5. n \in Up(entries, l) /\ n <= i /\ n \in Nat
      BY <1>2, <3>2, <3>4 DEF Control
    <3> QED BY <1>1, <3>4, <3>5
  <2>3. m \in Up(entries, i)
    <3>1. Up(entries, i) = Up(entries, l) \cap 1..i
      BY <1>2
    <3>2. m \in 1..i
      BY <1>1, <2>1, <2>2
    <3> QED BY <3>1, <3>2
  <2> QED BY <1>3, <2>1, <2>3
<1>5. Up(entries, entries[i].parent) \subseteq Up(entries, l)
  BY <1>2, <1>3
<1>6. {0} \cup {m \in Up(entries, l) : entries[m].kind \in Messages} =
        {0} \cup {m \in Up(entries, entries[i].parent) : entries[m].kind \in Messages}
  BY <1>4, <1>5
<1> QED BY <1>6 DEF LogicalIn

\* A compensation leaves the logical leaf where it was.
LEMMA DeclinedLogical ==
  ASSUME HistInv, Declined
  PROVE  LogicalIn(entries, leaf') = LogicalIn(entries, leaf)
<1> DEFINE l == LogicalLeaf(leaf)
           found == NavigationEntries(l)
           id == Smallest(found)
<1>1. CASE leaf' = leaf
  BY <1>1
<1>2. CASE found /= {} /\ leaf' = Landing(id)
  <2>1. /\ FileInv(entries) /\ Len(entries) \in Nat /\ Ordered(entries, Len(entries))
        /\ leaf \in 0..Len(entries) /\ Ids \in SUBSET Nat
    BY InvFacts, FileFacts
  <2>2. /\ l \in 0..Len(entries) /\ (l /= 0 => entries[l].kind \in Messages)
        /\ l = LogicalIn(entries, leaf)
    <3>1. l = LogicalIn(entries, leaf)
      BY OwnFile
    <3>2. LogicalIn(entries, leaf) \in 0..leaf
             /\ (LogicalIn(entries, leaf) /= 0 => entries[LogicalIn(entries, leaf)].kind \in Messages)
      BY <2>1, LogicalFacts
    <3> HIDE DEF l
    <3> QED BY <2>1, <3>1, <3>2
  <2> HIDE DEF l
  <2>3. CASE l /= 0 /\ entries[l].kind /= "user"
    <3>1. found = {l}
      BY <2>3 DEF NavigationEntries
    <3>2. id = l
      <4>1. l \in Nat
        BY <2>1, <2>2
      <4>2. found \in SUBSET Nat /\ found /= {}
        BY <3>1, <4>1
      <4> HIDE DEF found
      <4>3. Smallest(found) \in found
        BY <4>2, SmallestIs
      <4> QED BY <3>1, <4>3
    <3>3. leaf' = l
      BY <1>2, <2>3, <3>2 DEF Landing
    <3> QED BY <2>1, <2>2, <2>3, <3>3, LogicalFacts
  <2>4. CASE ~(l /= 0 /\ entries[l].kind /= "user")
    <3>1. found = {u \in OfKind(Ids, "user") : LogicalLeaf(entries[u].parent) = l}
      BY <2>4 DEF NavigationEntries
    <3>2. id \in found
      <4>1. found \in SUBSET Nat /\ found /= {}
        BY <1>2, <2>1, <3>1 DEF OfKind
      <4> HIDE DEF found
      <4> QED BY <4>1, SmallestIs
    <3>3. entries[id].kind = "user" /\ LogicalLeaf(entries[id].parent) = l
      <4> HIDE DEF id
      <4> QED BY <3>1, <3>2 DEF OfKind
    <3>4. leaf' = entries[id].parent
      BY <1>2, <3>3 DEF Landing
    <3> QED BY <2>2, <3>3, <3>4, OwnFile
  <2> QED BY <2>3, <2>4
<1> QED BY <1>1, <1>2 DEF Declined

\* A declined operation.
LEMMA CalmDeclined ==
  ASSUME HistInv, FollowInv, CalmSession, Declined
  PROVE  CalmSession'
<1>1. /\ UNCHANGED <<entries, ws, undoStack, redoStack>> /\ staged' = None
      /\ agent \in {"idle", "abandoned", "accepted"} /\ agent' \in {"accepted", "idle"}
  BY DEF Declined, Fails, Ready
<1>2. ~Running /\ ~Running'
  BY <1>1 DEF Running
<1>3. /\ CalmFile(entries) /\ AfterKept(redoStack)
      /\ Standing(entries, undoStack, redoStack, leaf, ws)
  BY <1>2 DEF CalmSession, Stands
<1>4. Standing(entries, undoStack, redoStack, leaf', ws)
  BY <1>3, DeclinedLogical DEF Standing
<1>5. /\ CalmFile(entries') /\ AfterKept(redoStack')
      /\ Standing(entries', undoStack', redoStack', leaf', ws')
  BY <1>1, <1>3, <1>4
<1> QED BY <1>1, <1>2, <1>5 DEF CalmSession, Stands

\* An entry the user navigates to: its leaf, and the workspace as it was there.
LEMMA TreeStood ==
  ASSUME FileInv(entries), CalmFile(entries), NEW id \in Ids, TreeTarget(id) /= None
  PROVE  /\ TreeTarget(id).leaf = LogicalIn(entries, Landing(id))
         /\ StoodIn(entries, TreeTarget(id).leaf, TreeTarget(id).manifest.files)
<1> DEFINE isUser == entries[id].kind = "user"
           physical == IF isUser THEN entries[id].parent ELSE id
           logical == LogicalLeaf(physical)
           cursor == CursorAt(physical)
           exact == FindByEnd(logical)
           begun == {c \in UNION {Range(Checkpoints(i)) : i \in OfKind(Ids, "checkpoint")} :
                       LogicalLeaf(entries[c.user].parent) = logical}
           first == CHOOSE c \in begun : TRUE
           found(manifest, stack) == [leaf |-> logical, manifest |-> manifest, undo |-> stack]
           t == TreeTarget(id)
<1>1. physical \in 0..Len(entries) /\ physical = Landing(id)
  BY FileFacts DEF Landing
<1>2. logical = LogicalIn(entries, physical)
  BY OwnFile
<1>3. CASE isUser
  <2>1. FindByUser(id) /= None /\ t = found(FindByUser(id).before, Checkpoints(physical))
    BY <1>3 DEF TreeTarget
  <2>2. Logged(entries, FindByUser(id)) /\ FindByUser(id).user = id
    BY <2>1, FoundFacts
  <2>3. physical = entries[id].parent
    BY <1>3
  <2>4. t.leaf = logical /\ t.manifest.files = FindByUser(id).before.files
    <3> HIDE DEF t, logical, physical
    <3> QED BY <2>1
  <2> HIDE DEF logical, physical
  <2>5. BoundaryIn(entries, FindByUser(id)) = logical
    BY <1>2, <2>2, <2>3 DEF BoundaryIn
  <2>6. StoodAs(entries, FindByUser(id), logical, t.manifest.files)
    BY <2>4, <2>5 DEF StoodAs
  <2>7. StoodIn(entries, logical, t.manifest.files)
    BY <2>2, <2>6 DEF StoodIn
  <2> QED BY <1>1, <1>2, <2>4, <2>7
<1>4. CASE ~isUser /\ exact /= None
  <2>1. t = found(exact.after, Frontier(exact.start))
    BY <1>4 DEF TreeTarget
  <2>2. Logged(entries, exact) /\ exact.end = logical
    BY <1>4, FoundFacts
  <2>3. t.leaf = logical /\ t.manifest.files = exact.after.files
    <3> HIDE DEF t, exact, logical, physical
    <3> QED BY <2>1
  <2> HIDE DEF exact, logical, physical
  <2>4. StoodIn(entries, logical, t.manifest.files)
    BY <2>2, <2>3 DEF StoodIn, StoodAs
  <2> QED BY <1>1, <1>2, <2>3, <2>4, SMTT(60)
<1>5. CASE ~isUser /\ exact = None /\ cursor /= None /\ cursor.to = logical
  <2>1. t = found(cursor.target, CursorStack(cursor))
    BY <1>5 DEF TreeTarget
  <2>2. t.leaf = logical /\ t.manifest.files = cursor.target.files
    <3> HIDE DEF t, cursor, logical, physical
    <3> QED BY <2>1
  <2> HIDE DEF physical
  <2>3. PICK i \in Up(entries, physical) :
          i \in 1..Len(entries) /\ entries[i].kind = "cursor" /\ cursor = entries[i]
    BY <1>1, <1>5, CursorPlace
  <2> HIDE DEF cursor, logical
  <2>4. CursorCalm(entries, cursor)
    BY <2>3 DEF CalmFile
  <2>5. StoodIn(entries, logical, t.manifest.files)
    BY <1>5, <2>2, <2>4 DEF CursorCalm
  <2> QED BY <1>1, <1>2, <2>2, <2>5, SMTT(60)
<1>6. CASE ~isUser /\ exact = None /\ (cursor = None \/ cursor.to /= logical)
  <2>1. Cardinality(begun) = 1 /\ t = found(first.before, Checkpoints(entries[first.user].parent))
    BY <1>6 DEF TreeTarget
  <2>2. begun /= {}
    <3> HIDE DEF begun
    <3> QED BY <2>1, FS_EmptySet
  <2>3. first \in begun
    <3> HIDE DEF begun
    <3> QED BY <2>2
  <2>4. PICK i \in OfKind(Ids, "checkpoint") : first \in Range(Checkpoints(i))
    <3> HIDE DEF first
    <3> QED BY <2>3
  <2>5. LogicalLeaf(entries[first.user].parent) = logical
    <3> HIDE DEF first
    <3> QED BY <2>3
  <2>6. t.leaf = logical /\ t.manifest.files = first.before.files
    <3> HIDE DEF t, first, begun, logical, physical
    <3> QED BY <2>1
  <2> HIDE DEF first, begun, logical, physical
  <2>7. Logged(entries, first)
    <3>1. i \in 0..Len(entries)
      BY FileFacts DEF OfKind
    <3>2. LoggedRuns(entries, Checkpoints(i))
      BY <3>1, CheckpointsFacts
    <3> QED BY <2>4, <3>2 DEF LoggedRuns, Range
  <2>8. BoundaryIn(entries, first) = logical
    BY <2>5, OwnFile DEF BoundaryIn
  <2>9. StoodIn(entries, logical, t.manifest.files)
    BY <2>6, <2>7, <2>8, SMTT(60) DEF StoodIn, StoodAs
  <2> QED BY <1>1, <1>2, <2>6, <2>9, SMTT(60)
<1> QED BY <1>3, <1>4, <1>5, <1>6

\* A stack without a gap.
LEMMA JoinedMeets ==
  ASSUME NEW s \in Seq(Runs), NEW l
  PROVE  Joined(s, l) <=> Meets(entries, s, l)
<1>1. DOMAIN s = 1..Len(s)
  OBVIOUS
<1>2. \A c : Boundary(c) = BoundaryIn(entries, c)
  BY OwnFile DEF Boundary, BoundaryIn
<1> QED BY <1>1, <1>2 DEF Joined, Meets

\* tree: the workspace is what it was where the user goes.
LEMMA CalmTree ==
  ASSUME HistInv, FollowInv, CalmSession, Tree, missed' = {}
  PROVE  CalmSession'
<1>0. HistInv'
  BY TreeKeeps
<1>1. PICK id, t, e : Navigates(id, t, e)
  BY TreeShape
<1>2. /\ id \in Ids /\ t = TreeTarget(id) /\ t /= None
      /\ LoggedRuns(entries, t.undo)
      /\ e \in EntryTypes /\ e.kind = "cursor" /\ e.action = "tree"
      /\ e.parent = Landing(id) /\ e.parent \in 0..Len(entries)
      /\ e.to = LogicalIn(entries, e.parent) /\ e.redo = <<>> /\ e.target = t.manifest
      /\ entries' = Append(entries, e) /\ leaf' = Len(entries')
      /\ ws' = t.manifest.files /\ undoStack' = t.undo /\ redoStack' = <<>>
      /\ missed' = missed \cup GapIn(t.undo, t.leaf)
      /\ agent = "idle" /\ staged = None /\ agent' = agent /\ staged' = staged
  BY <1>1, Zenon DEF Navigates
<1>3. ~Running /\ ~Running'
  BY <1>2 DEF Running
<1>4. FileInv(entries) /\ CalmFile(entries)
  BY <1>3, CalmFacts
<1>5. FileInv(entries')
  BY <1>0 DEF HistInv
<1> DEFINE b == LogicalIn(entries, e.parent)
<1>6. t.leaf = b /\ StoodIn(entries, b, ws')
  BY <1>2, <1>4, TreeStood
<1>7. Meets(entries, undoStack', b)
  <2>1. GapIn(t.undo, t.leaf) = {}
    BY <1>2
  <2>2. Joined(t.undo, t.leaf)
    BY <2>1 DEF GapIn
  <2>3. t.undo \in Seq(Runs)
    BY <1>2 DEF LoggedRuns
  <2>4. Meets(entries, t.undo, t.leaf)
    BY <2>2, <2>3, JoinedMeets
  <2> QED BY <1>2, <1>6, <2>4
<1>8. b = LogicalIn(entries, e.parent)
  OBVIOUS
<1> HIDE DEF b
<1>9. /\ redoStack' \in Seq(Undone) /\ \A k \in 1..Len(redoStack') : Logged(entries, redoStack'[k].checkpoint)
      /\ RedoMeets(entries, redoStack', b) /\ AfterKept(redoStack')
  <2>1. RedoMeets(entries, <<>>, b) /\ AfterKept(<<>>) /\ <<>> \in Seq(Undone) /\ Len(<<>>) = 0
    BY EmptyMeets
  <2> QED BY <1>2, <2>1
<1>10. CursorCalm(entries, e)
  <2>1. IdsOf(redoStack') = e.redo
    <3>1. IdsOf(redoStack') \in Seq(Nat) /\ Len(IdsOf(redoStack')) = 0
      BY <1>2, <1>9, IdsFacts
    <3> QED BY <1>2, <3>1
  <2>2. Recalls(entries, e)
    BY <1>8, <1>9, <2>1 DEF Recalls
  <2>3. StoodIn(entries, e.to, e.target.files)
    BY <1>2, <1>6, <1>8
  <2>4. RollsBack(entries, e)
    BY <1>2 DEF RollsBack
  <2> QED BY <2>2, <2>3, <2>4 DEF CursorCalm
<1>11. CalmFile(entries') /\ Standing(entries', undoStack', redoStack', Len(entries'), ws')
  <2>1. LoggedRuns(entries, undoStack')
    BY <1>2
  <2> QED BY <1>2, <1>4, <1>5, <1>6, <1>7, <1>8, <1>9, <1>10, <2>1, CalmCursor
<1> QED BY <1>2, <1>3, <1>9, <1>11 DEF CalmSession, Stands

\* What the cursor of a leaf recalls is what a new controller puts on its redo stack.
LEMMA RebuiltRecalled ==
  ASSUME FileInv(entries), CalmFile(entries), NEW l \in 0..Len(entries)
  PROVE  /\ RedoMeets(entries, Rebuilt(l).redo, LogicalIn(entries, l))
         /\ AfterKept(Rebuilt(l).redo)
<1> DEFINE c == CursorAt(l)
           new == Rebuilt(l).redo
           b == LogicalIn(entries, l)
<1>1. CASE c = None
  <2>1. new = <<>>
    BY <1>1, RebuiltShape
  <2> QED BY <2>1, EmptyMeets
<1>2. CASE c /= None
  <2>1. PICK i \in Up(entries, l) :
          /\ i \in 1..Len(entries) /\ entries[i].kind = "cursor" /\ c = entries[i]
          /\ \A j \in Up(entries, l) : entries[j].kind \in Control => j <= i
    BY <1>2, CursorPlace
  <2>2. b = LogicalIn(entries, entries[i].parent)
    BY <2>1, CursorLogical DEF CalmFile
  <2>3. CursorCalm(entries, c)
    BY <2>1 DEF CalmFile
  <2>4. Answers(new, c)
    BY <1>2, RebuiltShape
  <2>5. \A k \in 1..Len(new) : Logged(entries, new[k].checkpoint)
    BY RebuiltFacts DEF StackInv
  <2>6. /\ c \in CursorEntries
        /\ \A k \in 1..Len(c.redo) : LeftByUndo(entries, SubSeq(c.redo, 1, k))
    BY <1>2, CursorAtFacts
  <2> HIDE DEF c, new, b
  <2>7. /\ new \in Seq(Undone) /\ Len(new) = Len(c.redo) /\ Len(new) \in Nat
        /\ \A k \in 1..Len(new) :
             /\ new[k].checkpoint.start = c.redo[k]
             /\ new[k].target = entries[Largest(UndosIn(entries, SubSeq(c.redo, 1, k)))].rollback
    BY <2>4 DEF Answers
  <2>8. PICK r \in Seq(Undone) :
           /\ IdsOf(r) = c.redo
           /\ \A k \in 1..Len(r) : Logged(entries, r[k].checkpoint)
           /\ RedoMeets(entries, r, b)
    BY <2>1, <2>2, <2>3 DEF CursorCalm, Recalls
  <2>9. Len(r) = Len(c.redo) /\ \A k \in 1..Len(r) : r[k].checkpoint.start = c.redo[k]
    BY <2>8, IdsFacts
  <2>10. \A k \in 1..Len(new) : new[k].checkpoint = r[k].checkpoint
    BY <2>5, <2>7, <2>8, <2>9, LoggedOnce
  <2>11. RedoMeets(entries, new, b)
    <3>1. Len(r) = Len(new)
      BY <2>7, <2>9
    <3> SUFFICES ASSUME NEW k \in 1..Len(new)
                 PROVE  BoundaryIn(entries, new[k].checkpoint) =
                          IF k = Len(new) THEN b ELSE new[k + 1].checkpoint.end
      BY DEF RedoMeets
    <3>2. BoundaryIn(entries, r[k].checkpoint) = IF k = Len(r) THEN b ELSE r[k + 1].checkpoint.end
      BY <2>8, <3>1 DEF RedoMeets
    <3>3. CASE k = Len(new)
      BY <2>10, <3>1, <3>2, <3>3
    <3>4. CASE k /= Len(new)
      <4>1. k + 1 \in 1..Len(new)
        BY <2>7, <3>4
      <4> QED BY <2>10, <3>1, <3>2, <3>4, <4>1
    <3> QED BY <3>3, <3>4
  <2>12. AfterKept(new)
    <3> SUFFICES ASSUME NEW k \in 1..Len(new) PROVE new[k].target = new[k].checkpoint.after
      BY DEF AfterKept
    <3> DEFINE ids == SubSeq(c.redo, 1, k)
               us == UndosIn(entries, ids)
    <3>1. c.redo \in Seq(Nat) /\ k \in 1..Len(c.redo)
      BY <2>6, <2>7 DEF CursorEntries
    <3>2. Len(ids) = k /\ ids[k] = c.redo[k]
      BY <3>1, SubSeqFacts, SMTT(60)
    <3>3. LeftByUndo(entries, ids)
      BY <2>6, <3>1
    <3>4. new[k].target = entries[Largest(us)].rollback /\ new[k].checkpoint.start = c.redo[k]
            /\ Logged(entries, new[k].checkpoint)
      BY <2>5, <2>7
    <3> HIDE DEF ids
    <3>50. us /= {} /\ us \subseteq 1..Len(entries)
      BY <3>3 DEF UndosIn, LeftByUndo
    <3>5. us \in SUBSET (0..Len(entries)) /\ us /= {} /\ Len(entries) \in Nat
      <4> HIDE DEF us
      <4>1. Len(entries) \in Nat
        BY FileFacts
      <4> QED BY <3>50, <4>1
    <3>6. Largest(us) \in us
      <4> HIDE DEF us
      <4> QED BY <3>5, LargestIs
    <3> DEFINE j == Largest(us)
    <3>7. j \in 1..Len(entries) /\ entries[j].kind = "cursor" /\ entries[j].action = "undo"
            /\ entries[j].redo = ids
      <4> HIDE DEF j
      <4> QED BY <3>6 DEF UndosIn, j
    <3> HIDE DEF us, j
    <3>8. RollsBack(entries, entries[j])
      BY <3>7 DEF CalmFile, CursorCalm
    <3>9. entries[j].rollback = new[k].checkpoint.after
      BY <3>2, <3>4, <3>7, <3>8 DEF RollsBack
    <3> QED BY <3>4, <3>9 DEF j
  <2> QED BY <2>11, <2>12 DEF new, b
<1> QED BY <1>1, <1>2

-----------------------------------------------------------------------------
(* CalmInv is an invariant.                                                *)

\* A new controller at a leaf with the same logical leaf.
LEMMA CalmRebuild ==
  ASSUME HistInv, FollowInv, CalmSession, ~Running, ~Running',
         NEW at \in 0..Len(entries), RebuildAt(at), leaf' = at,
         at = leaf \/ at = Len(entries), UNCHANGED <<entries, ws>>, missed' = {}
  PROVE  CalmSession'
<1> DEFINE b == LogicalIn(entries, at)
<1>1. /\ undoStack' = Rebuilt(at).undo /\ redoStack' = Rebuilt(at).redo /\ staged' = None
      /\ GapIn(Rebuilt(at).undo, LogicalLeaf(at)) = {}
  BY DEF RebuildAt
<1>2. /\ FileInv(entries) /\ CalmFile(entries)
      /\ At(entries, LogicalIn(entries, leaf), ws)
      /\ LogicalIn(entries, leaf) = LogicalIn(entries, Len(entries))
  BY CalmFacts
<1>3. b = LogicalIn(entries, leaf) /\ b = LogicalIn(entries, Len(entries))
  BY <1>2
<1>4. LogicalLeaf(at) = b
  BY OwnFile
<1> HIDE DEF b
<1>5. Meets(entries, undoStack', b)
  <2>1. Joined(Rebuilt(at).undo, b)
    BY <1>1, <1>4 DEF GapIn
  <2>2. Rebuilt(at).undo \in Seq(Runs)
    BY <1>2, RebuiltFacts DEF StackInv, LoggedRuns
  <2> QED BY <1>1, <2>1, <2>2, JoinedMeets
<1>6. RedoMeets(entries, redoStack', b) /\ AfterKept(redoStack')
  BY <1>1, <1>2, RebuiltRecalled DEF b
<1>7. Standing(entries, undoStack', redoStack', leaf', ws)
  BY <1>2, <1>3, <1>5, <1>6 DEF Standing, b
<1>8. CalmFile(entries') /\ Standing(entries', undoStack', redoStack', leaf', ws')
  BY <1>2, <1>7
<1> QED BY <1>1, <1>6, <1>8 DEF CalmSession, Stands

\* A session begins calm.
LEMMA CalmInit == Init => CalmInv
<1> SUFFICES ASSUME Init PROVE CalmSession
  BY DEF CalmInv
<1>0. HistInv
  BY HistInit
<1> DEFINE none == <<>>
           e == [kind |-> "system", parent |-> 0]
           f == <<e>>
<1>1. Len(none) = 0 /\ Len(f) = 1 /\ f[1] = e /\ (entries = none \/ entries = f)
        /\ redoStack = none /\ undoStack = none
  BY DEF Init
<1>10. leaf = Len(entries) /\ agent = "idle" /\ staged = None
  BY DEF Init
<1>2. e.kind = "system"
  OBVIOUS
<1> HIDE DEF none, f, e
<1>3. \A i \in 1..Len(entries) : entries[i].kind = "system"
  BY <1>1, <1>2
<1>4. \A c : ~Logged(entries, c)
  BY <1>3 DEF Logged
<1>5. StoodOnce(entries) /\ \A l, g : At(entries, l, g)
  BY <1>4 DEF StoodOnce, At, StoodIn
<1>6. MessagesInRuns(entries)
  <2>1. Len(entries) \in Nat /\ Ordered(entries, Len(entries))
    BY <1>0, InvFacts
  <2>2. \A l \in 0..Len(entries) : Up(entries, l) \subseteq 1..l
    BY <2>1, UpFacts
  <2>3. \A l \in 0..Len(entries) : \A i \in Up(entries, l) : i \in 1..Len(entries)
    BY <2>1, <2>2
  <2> QED BY <1>3, <2>1, <2>3 DEF MessagesInRuns, InRun
<1>7. CalmFile(entries)
  BY <1>3, <1>5, <1>6 DEF CalmFile
<1>8. Standing(entries, undoStack, redoStack, leaf, ws)
  BY <1>1, <1>5, <1>10 DEF Standing, Meets, RedoMeets
<1>9. AfterKept(redoStack) /\ ~Running
  BY <1>1, <1>10 DEF AfterKept, Running
<1> QED BY <1>10, <1>7, <1>8, <1>9 DEF CalmSession, Stands

\* A step that keeps a calm session calm does not spend an edit or a crash.
LEMMA NotSpent ==
  ASSUME HistInv, Undisturbed', NEW d \in {"edit", "crash"}, Spend(d)
  PROVE  FALSE
<1>1. spent \in [Disturbances -> Nat] /\ d \in Disturbances
  BY InvFacts DEF Disturbances
<1>2. spent' = [spent EXCEPT ![d] = @ + 1]
  BY Zenon DEF Spend
<1>3. spent'[d] = spent[d] + 1 /\ spent[d] \in Nat
  BY <1>1, <1>2
<1>4. spent'[d] = 0
  BY DEF Undisturbed
<1> QED BY <1>3, <1>4

\* One step per action.
LEMMA CalmStep == HistInv /\ FollowInv /\ CalmInv /\ [Next]_vars => CalmInv'
<1> SUFFICES ASSUME HistInv, FollowInv, CalmInv, [Next]_vars, Calm' PROVE CalmSession'
  BY DEF CalmInv
<1>0. CalmSession
  BY CalmBefore DEF CalmInv
<1>a. /\ missed' = {} /\ Undisturbed' /\ "run" \notin missed'
      /\ ~(Running' /\ Unrecorded')
  BY DEF Calm, Undisturbed
<1>b. ~(Running /\ Unrecorded)
  BY CalmBefore DEF Calm
<1>c. ASSUME UNCHANGED <<entries, leaf, ws, undoStack, redoStack>>, ~Running, ~Running',
             staged' = staged \/ staged' = None \/ staged'.before.files = ws
      PROVE  CalmSession'
  BY <1>0, <1>c, CalmQuiet
<1>1. CASE Prompt
  <2>1. /\ UNCHANGED <<entries, leaf, ws, undoStack, redoStack>>
        /\ agent \in {"idle", "abandoned"} /\ agent' = "accepted"
    BY <1>1, Zenon DEF Prompt, Waiting
  <2>2. staged' = staged \/ staged' = None \/ staged'.before.files = ws
    BY <1>1 DEF Prompt, Capture
  <2> QED BY <1>c, <2>1, <2>2 DEF Running
<1>2. CASE Abandon
  <2>1. /\ UNCHANGED <<entries, leaf, ws, undoStack, redoStack>> /\ staged' = staged
        /\ agent = "accepted"
    BY <1>2, Zenon DEF Abandon, controller
  <2>2. agent' \in {"idle", "abandoned"}
    BY <1>2 DEF Abandon
  <2> QED BY <1>c, <2>1, <2>2 DEF Running
<1>3. CASE StartRun
  <2>1. CASE Unrecorded
    <3>1. agent' = "started" /\ UNCHANGED <<staged, locked>>
      BY <1>3, <2>1 DEF StartRun
    <3> QED BY <1>a, <2>1, <3>1 DEF Running, Unrecorded
  <2>2. CASE ~Unrecorded
    BY <1>0, <1>3, <2>2, CalmStartRun
  <2> QED BY <2>1, <2>2
<1>4. CASE StartFails
  <2>1. agent' = "started" /\ locked'
    BY <1>4 DEF StartFails
  <2> QED BY <1>a, <2>1 DEF Running, Unrecorded
<1>5. CASE PiUser \/ PiReply
  <2>1. agent \in {"started", "running"}
    BY <1>5 DEF PiUser, PiReply
  <2> QED BY <1>0, <1>5, <1>b, <2>1, CalmPi DEF Running
<1>6. CASE SettleUnrecorded \/ PromptMissing \/ SettleFails
  BY <1>6, <1>a DEF SettleUnrecorded, PromptMissing, SettleFails
<1>7. CASE Settle
  BY <1>0, <1>7, CalmSettle
<1>8. CASE Undo
  BY <1>0, <1>8, CalmUndo
<1>9. CASE Redo
  BY <1>0, <1>9, CalmRedo
<1>10. CASE UndoNothing
  <2>1. /\ UNCHANGED <<entries, leaf, ws, undoStack, redoStack>> /\ staged' = None
        /\ agent \in {"idle", "abandoned", "accepted"} /\ agent' \in {"accepted", "idle"}
    BY <1>10 DEF UndoNothing, Ready
  <2> QED BY <1>c, <2>1 DEF Running
<1>11. CASE Declined
  BY <1>0, <1>11, CalmDeclined
<1>12. CASE Tree
  BY <1>0, <1>12, <1>a, CalmTree
<1>13. CASE Recover
  <2>1. RebuildAt(leaf) /\ UNCHANGED <<entries, leaf, ws>>
    BY <1>13, Zenon DEF Recover
  <2>2. staged' = None /\ (agent' = agent \/ (agent' = "idle" /\ agent = "abandoned"))
    <3>1. agent' = IF agent = "abandoned" THEN "idle" ELSE agent
      BY <1>13, Zenon DEF Recover
    <3>2. staged' = None
      BY <2>1, Zenon DEF RebuildAt
    <3> QED BY <3>1, <3>2
  <2>3. ~Running'
    BY <1>a, <2>2 DEF Unrecorded
  <2>4. ~Running
    BY <2>2, <2>3 DEF Running
  <2> QED BY <1>0, <1>a, <2>1, <2>3, <2>4, CalmRebuild, InvFacts
<1>14. CASE Restart
  <2>1. /\ RebuildAt(Len(entries)) /\ UNCHANGED <<entries, ws>> /\ leaf' = Len(entries)
        /\ agent' = "idle"
    BY <1>14, Zenon DEF Restart
  <2>2. Waiting
    BY <1>14, <1>a, NotSpent DEF Restart
  <2>3. ~Running /\ ~Running'
    BY <2>1, <2>2 DEF Running, Waiting
  <2>4. Len(entries) \in 0..Len(entries)
    BY InvFacts
  <2> QED BY <1>0, <1>a, <2>1, <2>3, <2>4, CalmRebuild
<1>15. CASE FinalizationFails
  <2>1. /\ UNCHANGED <<entries, leaf, ws, undoStack, redoStack>> /\ staged' = staged
        /\ agent' = agent /\ locked'
    BY <1>15, Zenon DEF FinalizationFails
  <2>2. ~Running /\ ~Running'
    BY <1>a, <2>1 DEF Running, Unrecorded
  <2> QED BY <1>c, <2>1, <2>2
<1>16. CASE Edit
  BY <1>16, <1>a, NotSpent DEF Edit
<1>17. CASE UNCHANGED vars
  <2>1. UNCHANGED <<entries, leaf, ws, undoStack, redoStack, staged, agent>>
    BY <1>17, Zenon DEF vars, controller
  <2> QED BY <1>0, <2>1 DEF CalmSession, Stands, Running
<1> QED BY <1>1, <1>2, <1>3, <1>4, <1>5, <1>6, <1>7, <1>8, <1>9, <1>10, <1>11, <1>12, <1>13,
           <1>14, <1>15, <1>16, <1>17, Zenon DEF Next

\* All three invariants hold in every behaviour.
LEMMA CalmInvAlways == Spec => [](HistInv /\ FollowInv /\ CalmInv)
<1>1. HistInv /\ FollowInv /\ CalmInv /\ [Next]_vars => (HistInv /\ FollowInv /\ CalmInv)'
  BY HistStep, FollowStep, CalmStep
<1>2. QED BY <1>1, HistInit, FollowInit, CalmInit, PTL DEF Spec

\* A calm session between runs.
LEMMA CalmStanding ==
  ASSUME HistInv, CalmInv, Undisturbed, missed = {}, Waiting
  PROVE  /\ FileInv(entries) /\ CalmFile(entries)
         /\ LoggedRuns(entries, undoStack) /\ redoStack \in Seq(Undone)
         /\ Meets(entries, undoStack, LogicalLeaf(leaf))
         /\ RedoMeets(entries, redoStack, LogicalLeaf(leaf))
         /\ At(entries, LogicalLeaf(leaf), ws)
<1>1. ~Running
  BY DEF Waiting, Running
<1>2. CalmSession
  BY <1>1 DEF CalmInv, Calm
<1>3. LogicalLeaf(leaf) = LogicalIn(entries, leaf)
  BY OwnFile
<1> QED BY <1>1, <1>2, <1>3, CalmFacts

\* StacksMeetAtLeaf from the invariants.
LEMMA StacksMeetByInv == HistInv /\ CalmInv => StacksMeetAtLeaf
<1> SUFFICES ASSUME HistInv, CalmInv, Undisturbed, missed = {}, Waiting
             PROVE  /\ Joined(undoStack, LogicalLeaf(leaf))
                    /\ \A k \in DOMAIN redoStack :
                         Boundary(redoStack[k].checkpoint) =
                           IF k = Len(redoStack) THEN LogicalLeaf(leaf)
                           ELSE redoStack[k + 1].checkpoint.end
  BY DEF StacksMeetAtLeaf
<1> DEFINE l == LogicalLeaf(leaf)
<1>1. /\ undoStack \in Seq(Runs) /\ redoStack \in Seq(Undone)
      /\ Meets(entries, undoStack, l) /\ RedoMeets(entries, redoStack, l)
  BY CalmStanding DEF LoggedRuns
<1> HIDE DEF l
<1>2. Joined(undoStack, l)
  BY <1>1, JoinedMeets
<1>3. DOMAIN redoStack = 1..Len(redoStack)
  BY <1>1
<1>4. \A c : Boundary(c) = BoundaryIn(entries, c)
  BY OwnFile, SMTT(60) DEF Boundary, BoundaryIn
<1>5. \A k \in DOMAIN redoStack :
        Boundary(redoStack[k].checkpoint) =
          IF k = Len(redoStack) THEN l ELSE redoStack[k + 1].checkpoint.end
  BY <1>1, <1>3, <1>4 DEF RedoMeets
<1> QED BY <1>2, <1>5 DEF l

\* WorkspaceMatchesLeaf from the invariants.
LEMMA WorkspaceByInv == HistInv /\ CalmInv => WorkspaceMatchesLeaf
<1> SUFFICES ASSUME HistInv, CalmInv, Undisturbed, missed = {}, Waiting, NEW c \in Recorded
             PROVE  /\ LogicalLeaf(leaf) = c.end => ws = c.after.files
                    /\ LogicalLeaf(leaf) = Boundary(c) => ws = c.before.files
  BY DEF WorkspaceMatchesLeaf, Matches
<1> DEFINE l == LogicalLeaf(leaf)
<1>1. At(entries, l, ws)
  BY CalmStanding
<1>2. Boundary(c) = BoundaryIn(entries, c)
  BY OwnFile DEF Boundary, BoundaryIn
<1>3. Logged(entries, c)
  BY DEF Recorded, Logged, OfKind, Ids
<1> HIDE DEF l
<1>4. ASSUME l = c.end PROVE ws = c.after.files
  BY <1>1, <1>3, <1>4 DEF At, StoodIn, StoodAs
<1>5. ASSUME l = Boundary(c) PROVE ws = c.before.files
  BY <1>1, <1>2, <1>3, <1>5 DEF At, StoodIn, StoodAs
<1> QED BY <1>4, <1>5 DEF l

-----------------------------------------------------------------------------
(* What a new controller resumes (KeepInv).                                *)

\* A step that appends nothing leaves what a new controller would rebuild.
LEMMA RebuiltStill ==
  ASSUME UNCHANGED entries
  PROVE  Rebuilt(Len(entries))' = Rebuilt(Len(entries))
<1>1. Ids' = Ids /\ \A S, kind : OfKind(S, kind)' = OfKind(S, kind)
  BY DEF Ids, OfKind
<1>2. \A l : Branch(l)' = Branch(l)
  BY DEF Branch
<1>3. \A l : LogicalLeaf(l)' = LogicalLeaf(l)
  BY <1>2 DEF LogicalLeaf
<1>4. \A i, b : Trusted(i, b)' = Trusted(i, b)
  BY <1>3 DEF Trusted
<1>5. \A l : Checkpoints(l)' = Checkpoints(l)
  BY <1>2, <1>4, ZenonT(60) DEF Checkpoints
<1>6. \A l : CursorAt(l)' = CursorAt(l)
  BY <1>2 DEF CursorAt
<1>7. \A field, value : Listing(field, value)' = Listing(field, value)
  BY <1>1, <1>5 DEF Listing
<1>8. \A field, value : FirstListed(field, value)' = FirstListed(field, value)
  BY <1>5, <1>7 DEF FirstListed
<1>9. \A id : FindById(id)' = FindById(id) /\ FindByEnd(id)' = FindByEnd(id)
  BY <1>7, <1>8 DEF FindById, FindByEnd
<1>10. \A id : Frontier(id)' = Frontier(id)
  BY <1>5, <1>7 DEF Frontier
<1>11. \A c : CursorStack(c)' = CursorStack(c)
  BY <1>10 DEF CursorStack
<1>12. \A l : Attached(l)' = Attached(l)
  <2> TAKE l
  <2> DEFINE current == Checkpoints(l)
             starts == OfKind(Branch(l), "start")
             base == IF starts = {} THEN None ELSE FindByEnd(entries[Largest(starts)].source)
             inherited == Frontier(base.start)
             known == {inherited[k].start : k \in DOMAIN inherited}
             joined[k \in 0..Len(current)] ==
               IF k = 0 THEN inherited
               ELSE IF current[k].start \in known THEN joined[k - 1] ELSE Append(joined[k - 1], current[k])
  <2>1. current' = current /\ starts' = starts
    BY <1>1, <1>2, <1>5
  <2>2. base' = base
    BY <1>9, <2>1
  <2>3. inherited' = inherited
    BY <1>10, <2>2
  <2>4. known' = known
    BY <2>3
  <2>5. joined' = joined
    <3> HIDE DEF current, starts, base, inherited, known
    <3> QED BY <2>1, <2>3, <2>4
  <2>6. Attached(l) = IF base = None THEN current ELSE joined[Len(current)]
    BY DEF Attached
  <2>7. Attached(l)' = IF base' = None THEN current' ELSE (joined')[Len(current')]
    BY DEF Attached
  <2> HIDE DEF current, starts, base, inherited, known, joined
  <2> QED BY <2>1, <2>2, <2>5, <2>6, <2>7
<1>13. \A c, k : UndoOf(c, k)' = UndoOf(c, k)
  BY <1>1 DEF UndoOf
<1> QED BY <1>1, <1>2, <1>6, <1>9, <1>11, <1>12, <1>13 DEF Rebuilt

\* The checkpoint of the leaf comes last, and only there.
LEMMA CheckpointsLast ==
  ASSUME FileInv(entries), NEW l \in 1..Len(entries), entries[l].kind = "checkpoint"
  PROVE  /\ Len(Checkpoints(l)) \in Nat \ {0}
         /\ Checkpoints(l)[Len(Checkpoints(l))] = entries[l].record
         /\ \A k \in 1..Len(Checkpoints(l)) : Checkpoints(l)[k] = entries[l].record => k = Len(Checkpoints(l))
<1>0. l \in 0..Len(entries) /\ l \in Nat \ {0} /\ Len(entries) \in Nat /\ Ordered(entries, Len(entries))
  BY FileFacts
<1>1. PICK f : Checkpoints(l) = f[l] /\ Gathers(f, l, <<>>, Picked(l), RecordsTo(l))
  BY <1>0, CheckpointsGather
<1> DEFINE none == <<>>
           t == f[l - 1]
           rest == Picked(l) \cap 1..(l - 1)
<1>2. none \in Seq(Runs) /\ Len(none) = 0 /\ Gathers(f, l, none, Picked(l), RecordsTo(l))
  BY <1>1
<1> HIDE DEF none
<1>3. l \in Picked(l)
  BY <1>0, UpFacts, OwnFile DEF Picked
<1>4. f[l] = Append(t, RecordsTo(l)[l]) /\ Gathered(t, Runs, none, rest, RecordsTo(l))
  BY <1>0, <1>2, <1>3, PickedFacts, GatherLast
<1>5. RecordsTo(l)[l] = entries[l].record /\ entries[l].record \in Runs
  BY <1>0, <1>3, PickedFacts
<1>6. \A i \in rest : i \in Picked(l) /\ i /= l
  BY <1>0
<1> HIDE DEF t, rest
<1>7. /\ t \in Seq(Runs) /\ Len(t) \in Nat /\ Checkpoints(l) = Append(t, entries[l].record)
      /\ Len(Checkpoints(l)) = Len(t) + 1
      /\ Checkpoints(l)[Len(t) + 1] = entries[l].record
      /\ \A k \in 1..Len(t) : Checkpoints(l)[k] = t[k]
  <2>1. t \in Seq(Runs) /\ Checkpoints(l) = Append(t, entries[l].record)
    BY <1>1, <1>4, <1>5 DEF Gathered
  <2> QED BY <1>5, <2>1
<1>8. ASSUME NEW k \in 1..Len(t) PROVE t[k] /= entries[l].record
  <2>1. PICK i \in rest : t[k] = RecordsTo(l)[i]
    <3>1. \A j \in 1..Len(none) : FALSE
      BY <1>2
    <3> QED BY <1>4, <3>1 DEF Gathered
  <2>2. i \in 1..Len(entries) /\ entries[i].kind = "checkpoint" /\ t[k] = entries[i].record /\ i /= l
    BY <1>0, <1>6, <2>1, PickedFacts
  <2> QED BY <2>2 DEF FileInv, RunsNamedOnce
<1> QED BY <1>7, <1>8

\* The stack of a run other than the last one does not hold the last one.
LEMMA FrontierBefore ==
  ASSUME FileInv(entries), NEW l \in 1..Len(entries), l = Len(entries),
         entries[l].kind = "checkpoint", NEW id, Named(entries, id), id /= entries[l].record.start,
         NEW k \in 1..Len(Frontier(id))
  PROVE  Frontier(id)[k].start /= entries[l].record.start
<1> DEFINE h == Smallest(Listing("start", id))
           list == Checkpoints(h)
           at == Position(list, "start", id)
           r == entries[l].record
<1>0. l \in Nat /\ l \in 0..Len(entries) /\ Ids = 1..Len(entries) /\ r \in Runs /\ Logged(entries, r)
  BY FileFacts, SMTT(60) DEF Logged
<1>1. "start" \in Fields /\ Listing("start", id) /= {}
  BY FindByIdFacts DEF Fields
<1>2. LoggedRuns(entries, list) /\ at \in 1..Len(list) /\ list[at]["start"] = id
  BY <1>1, HomeFacts
<1>3. h \in 1..l
  <2>1. Listing("start", id) \in SUBSET Ids /\ Ids \in SUBSET Nat
    BY FileFacts DEF Listing, OfKind
  <2>2. h \in Listing("start", id)
    BY <1>1, <2>1, SmallestIs
  <2> HIDE DEF h
  <2> QED BY <1>0, <2>1, <2>2
<1>4. Frontier(id) = SubSeq(list, 1, at)
  BY DEF Frontier
<1> HIDE DEF at, list, h, r
<1>5. /\ list \in Seq(Runs) /\ Len(list) \in Nat /\ at \in Nat /\ k \in 1..at /\ k \in 1..Len(list)
      /\ Frontier(id)[k] = list[k] /\ list[k] \in Runs /\ list[at] \in Runs
      /\ Logged(entries, list[k])
  <2>1. list \in Seq(Runs)
    BY <1>2 DEF LoggedRuns
  <2>2. /\ Len(SubSeq(list, 1, at)) = at
        /\ \A j \in 1..at : SubSeq(list, 1, at)[j] = list[j] /\ j \in 1..Len(list)
    BY <1>2, <2>1, SubSeqFacts
  <2> QED BY <1>2, <1>4, <2>1, <2>2 DEF LoggedRuns
<1> SUFFICES ASSUME list[k].start = r.start PROVE FALSE
  BY <1>5 DEF r
<1>6. list[k] = r
  BY <1>0, <1>5, LoggedOnce
<1>7. CASE h = l
  <2>1. k = Len(list)
    <3>1. list = Checkpoints(l) /\ list[k] = entries[l].record
      BY <1>6, <1>7 DEF list, r
    <3>2. \A j \in 1..Len(list) : list[j] = entries[l].record => j = Len(list)
      BY <3>1, CheckpointsLast
    <3> QED BY <1>5, <3>1, <3>2
  <2>2. at = k
    BY <1>2, <1>5, <2>1
  <2>3. list[at].start = id
    BY <1>2, <1>5, RunFacts
  <2> QED BY <1>6, <2>2, <2>3 DEF r
<1>8. CASE h /= l
  <2>1. h \in 0..Len(entries) /\ h < l
    BY <1>0, <1>3, <1>8
  <2>2. PICK i \in 1..h : i \in 1..Len(entries) /\ entries[i].kind = "checkpoint"
                          /\ list[k] = entries[i].record
    BY <1>5, <2>1, CheckpointsFacts DEF list
  <2>3. i = l
    BY <1>6, <2>2 DEF FileInv, RunsNamedOnce, r
  <2> QED BY <1>3, <2>1, <2>2, <2>3
<1> QED BY <1>7, <1>8

\* The run that was recorded last is on top of the stack of its branch
\* (checkpointFrontierAfterDetachedRun).
LEMMA AttachedLast ==
  ASSUME FileInv(entries), SourcesBefore(entries), NEW l \in 1..Len(entries), l = Len(entries),
         entries[l].kind = "checkpoint", entries[l].record.end = l - 1
  PROVE  /\ Attached(l) \in Seq(Runs) /\ Len(Attached(l)) \in Nat \ {0}
         /\ Attached(l)[Len(Attached(l))] = entries[l].record
<1> DEFINE current == Checkpoints(l)
           starts == OfKind(Branch(l), "start")
           n == Len(current)
<1>0. l \in 0..Len(entries) /\ l \in Nat /\ Len(entries) \in Nat /\ entries[l].record \in Runs
      /\ Logged(entries, entries[l].record) /\ Ids = 1..Len(entries)
  BY FileFacts, SMTT(60) DEF Logged
<1>1. LoggedRuns(entries, current) /\ n \in Nat \ {0} /\ current[n] = entries[l].record
  BY <1>0, CheckpointsFacts, CheckpointsLast
<1>2. CASE Base(l) = None
  <2>1. Attached(l) = current
    BY <1>2 DEF Attached, Base
  <2> HIDE DEF current
  <2> QED BY <1>1, <2>1 DEF LoggedRuns, n
<1>3. CASE Base(l) /= None
  <2>1. PICK f : /\ Attached(l) = f[n]
                 /\ Gathers(f, n, Inherited(l), NotInherited(l), current)
    BY <1>0, <1>3, AttachedGather
  <2>2. Logged(entries, Base(l)) /\ Base(l).end = entries[Largest(starts)].source /\ starts /= {}
    BY <1>3, FoundFacts DEF Base
  <2>3. Base(l).end /= entries[l].record.end
    <3>1. starts \in SUBSET (0..Len(entries)) /\ starts \subseteq 1..l
      BY <1>0, FileFacts DEF OfKind
    <3>2. Largest(starts) \in starts
      <4> HIDE DEF starts
      <4> QED BY <1>0, <2>2, <3>1, LargestIs
    <3> DEFINE s == Largest(starts)
    <3>3. entries[s].kind = "start"
      <4> HIDE DEF s
      <4> QED BY <3>2 DEF OfKind, s
    <3>4. s \in 1..l
      <4> HIDE DEF starts
      <4> QED BY <3>1, <3>2
    <3> HIDE DEF s
    <3>5. s /= l /\ s \in 1..Len(entries)
      BY <1>0, <3>3, <3>4
    <3>6. entries[s].source < s /\ entries[s].source \in Nat
      <4>1. entries[s] \in StartEntries
        BY <1>0, <3>3, <3>5, FileFacts
      <4> QED BY <3>3, <3>5, <4>1 DEF SourcesBefore, StartEntries
    <3>7. Base(l).end = entries[s].source
      BY <2>2 DEF s
    <3> QED BY <1>0, <3>4, <3>5, <3>6, <3>7
  <2>4. Named(entries, Base(l).start) /\ Base(l).start /= entries[l].record.start
    BY <1>0, <2>2, <2>3, LoggedFacts, LoggedOnce
  <2>5. LoggedRuns(entries, Inherited(l))
    BY <1>0, <1>3, AttachedGather
  <2>6. \A k \in 1..Len(Inherited(l)) : Inherited(l)[k].start /= entries[l].record.start
    BY <2>4, FrontierBefore DEF Inherited
  <2>7. NotInherited(l) \in SUBSET (1..n)
    BY DEF NotInherited
  <2>8. n \in NotInherited(l)
    <3>1. n \in 1..n
      BY <1>1
    <3> QED BY <1>1, <2>6, <3>1 DEF NotInherited
  <2> HIDE DEF current
  <2>9. /\ n \in Nat \ {0} /\ current \in Seq(Runs) /\ Inherited(l) \in Seq(Runs)
        /\ \A i \in NotInherited(l) : current[i] \in Runs
    BY <1>1, <2>5, <2>7 DEF LoggedRuns
  <2> DEFINE t == f[n - 1]
  <2> HIDE DEF n
  <2>10. /\ f[n] = Append(t, current[n])
         /\ Gathered(t, Runs, Inherited(l), NotInherited(l) \cap 1..(n - 1), current)
    BY <2>1, <2>7, <2>8, <2>9, GatherLast
  <2> HIDE DEF t
  <2>11. t \in Seq(Runs) /\ Attached(l) = Append(t, entries[l].record)
    BY <1>1, <2>1, <2>10 DEF Gathered
  <2> QED BY <1>0, <2>11
<1> QED BY <1>2, <1>3

(* A new controller at the end of the file has the redo stack, and the run *)
(* on top of the undo stack, of the one that goes on.                      *)
Resumed ==
  /\ Top(Rebuilt(Len(entries)).undo) = Top(undoStack)
  /\ Rebuilt(Len(entries)).redo = redoStack

(* The last entry is the cursor of the stacks, or the run on top of them.  *)
LastCursor ==
  /\ Len(entries) \in 1..Len(entries) /\ entries[Len(entries)].kind = "cursor"
  /\ entries[Len(entries)].head = IF undoStack = <<>> THEN 0 ELSE Last(undoStack).start
  /\ entries[Len(entries)].redo = IdsOf(redoStack)
LastRun ==
  /\ Len(entries) \in 1..Len(entries) /\ entries[Len(entries)].kind = "checkpoint"
  /\ entries[Len(entries)].record.end = Len(entries) - 1
  /\ undoStack /= <<>> /\ Last(undoStack) = entries[Len(entries)].record
  /\ redoStack = <<>>

\* The cursor of a leaf that is a control entry.
LEMMA ControlLast ==
  ASSUME FileInv(entries), NEW l \in 1..Len(entries), entries[l].kind \in Control
  PROVE  CursorAt(l) = IF entries[l].kind = "cursor" THEN entries[l] ELSE None
<1> DEFINE own == {i \in Branch(l) : entries[i].kind \in Control}
<1>1. l \in 0..Len(entries) /\ l /= 0 /\ Len(entries) \in Nat /\ Ordered(entries, Len(entries))
      /\ Branch(l) \subseteq 1..l /\ l \in Nat
  BY FileFacts
<1>2. l \in Branch(l)
  BY <1>1, UpFacts, OwnFile
<1>3. l \in own /\ own /= {} /\ own \in SUBSET (0..Len(entries)) /\ \A i \in own : i \in Nat /\ i <= l
  BY <1>1, <1>2
<1>4. Largest(own) = l
  <2> HIDE DEF own
  <2>1. Largest(own) \in own /\ \A i \in own : i <= Largest(own)
    BY <1>1, <1>3, LargestIs
  <2> DEFINE m == Largest(own)
  <2>2. m \in Nat /\ m <= l /\ l <= m
    BY <1>3, <2>1
  <2> HIDE DEF m
  <2>3. m = l
    BY <1>1, <2>2
  <2> QED BY <2>3 DEF m
<1>5. CursorAt(l) = IF own # {} /\ entries[Largest(own)].kind = "cursor" THEN entries[Largest(own)] ELSE None
  BY DEF CursorAt
<1> HIDE DEF own
<1> QED BY <1>3, <1>4, <1>5

\* What the last entry of the file says of a sequence.
LEMMA TopFacts ==
  ASSUME NEW s \in Seq(Runs)
  PROVE  /\ s = <<>> => Top(s) = None
         /\ Len(s) \in Nat \ {0} => s /= <<>> /\ Top(s) = s[Len(s)]
         /\ s /= <<>> => Len(s) \in Nat \ {0} /\ Top(s) = s[Len(s)] /\ Last(s) = s[Len(s)]
<1>1. s = <<>> => Top(s) = None
  BY DEF Top
<1>2. s /= <<>> => Len(s) \in Nat \ {0}
  OBVIOUS
<1>3. Len(s) \in Nat \ {0} => s /= <<>>
  OBVIOUS
<1>4. s /= <<>> => Top(s) = s[Len(s)]
  BY DEF Top, Last
<1> QED BY <1>1, <1>2, <1>3, <1>4 DEF Last

\* Two redo stacks with the same runs and the manifests the file keeps are one.
LEMMA RedoOnce ==
  ASSUME FileInv(entries), NEW r \in Seq(Undone), NEW s \in Seq(Undone), IdsOf(r) = IdsOf(s),
         RedoKept(entries, r), RedoKept(entries, s),
         \A k \in 1..Len(r) : Logged(entries, r[k].checkpoint),
         \A k \in 1..Len(s) : Logged(entries, s[k].checkpoint)
  PROVE  r = s
<1>1. /\ Len(IdsOf(r)) = Len(r) /\ \A k \in 1..Len(r) : IdsOf(r)[k] = r[k].checkpoint.start
      /\ Len(IdsOf(s)) = Len(s) /\ \A k \in 1..Len(s) : IdsOf(s)[k] = s[k].checkpoint.start
  BY IdsFacts
<1>2. Len(r) = Len(s)
  BY <1>1
<1>3. ASSUME NEW k \in 1..Len(r) PROVE r[k] = s[k]
  <2>1. r[k].checkpoint = s[k].checkpoint
    <3>1. r[k].checkpoint.start = s[k].checkpoint.start
      BY <1>1, <1>2
    <3> QED BY <1>2, <3>1, LoggedOnce
  <2>2. r[k].target = s[k].target
    BY <1>2 DEF RedoKept
  <2>3. r[k] \in Undone /\ s[k] \in Undone
    BY <1>2
  <2> QED BY <2>1, <2>2, <2>3, SMTT(60) DEF Undone
<1> QED BY <1>2, <1>3

\* The last entry is the cursor of the stacks.
LEMMA ResumeCursor == HistInv /\ FollowInv /\ LastCursor => Resumed
<1> SUFFICES ASSUME HistInv, FollowInv, LastCursor PROVE Resumed
  OBVIOUS
<1> DEFINE l == Len(entries)
           c == entries[l]
           new == Rebuilt(l)
<1>1. /\ FileInv(entries) /\ LoggedRuns(entries, undoStack) /\ redoStack \in Seq(Undone)
      /\ \A k \in 1..Len(redoStack) : Logged(entries, redoStack[k].checkpoint)
      /\ undoStack \in Seq(Runs)
  BY InvFacts DEF StackInv, LoggedRuns
<1>2. l \in 1..Len(entries) /\ l \in 0..Len(entries) /\ c.kind = "cursor"
      /\ c.head = (IF undoStack = <<>> THEN 0 ELSE Last(undoStack).start) /\ c.redo = IdsOf(redoStack)
  BY DEF LastCursor
<1> HIDE DEF l
<1>3. CursorAt(l) = c /\ c /= None
  <2>1. c.kind \in Control
    BY <1>2 DEF Control
  <2>2. CursorAt(l) = c
    BY <1>1, <1>2, <2>1, ControlLast
  <2>3. None.kind = "none"
    BY DEF None
  <2> QED BY <1>2, <2>2, <2>3
<1>4. new.undo = CursorStack(c) /\ Answers(new.redo, c) /\ RedoKept(entries, new.redo)
  BY <1>1, <1>2, <1>3, RebuiltShape
<1>5. StackInv(entries, new.undo, new.redo)
  BY <1>1, <1>2, RebuiltFacts
<1> HIDE DEF new, c
<1>6. new.redo = redoStack
  <2>1. RedoKept(entries, redoStack)
    BY DEF FollowInv, FollowFile
  <2> QED BY <1>1, <1>2, <1>4, <1>5, <2>1, RedoOnce DEF Answers, StackInv
<1>7. Top(new.undo) = Top(undoStack)
  <2>1. CASE undoStack = <<>>
    <3>1. new.undo = <<>>
      BY <1>2, <1>4, <2>1 DEF CursorStack
    <3> QED BY <2>1, <3>1
  <2>2. CASE undoStack /= <<>>
    <3> DEFINE d == Last(undoStack)
    <3>1. Len(undoStack) \in Nat \ {0} /\ Top(undoStack) = d /\ d = undoStack[Len(undoStack)]
      BY <1>1, <2>2, TopFacts
    <3>2. Logged(entries, d)
      BY <1>1, <3>1 DEF LoggedRuns
    <3>3. c.head = d.start
      BY <1>2, <2>2
    <3> HIDE DEF d
    <3>4. Named(entries, c.head) /\ c.head /= 0
      BY <1>1, <3>2, <3>3, LoggedFacts, LoggedRange
    <3> DEFINE u == Frontier(c.head)
    <3>5. LoggedRuns(entries, u) /\ Len(u) \in Nat \ {0} /\ u[Len(u)].start = c.head
      BY <1>1, <3>4, FrontierFacts
    <3>6. new.undo = u
      BY <1>4, <3>4 DEF CursorStack
    <3> HIDE DEF u
    <3>7. Logged(entries, u[Len(u)]) /\ u \in Seq(Runs)
      BY <3>5 DEF LoggedRuns
    <3>8. u[Len(u)] = d
      BY <1>1, <3>2, <3>3, <3>5, <3>7, LoggedOnce
    <3> QED BY <3>1, <3>5, <3>6, <3>7, <3>8, TopFacts
  <2> QED BY <2>1, <2>2
<1> QED BY <1>6, <1>7 DEF Resumed, new, l

\* The last entry is the run on top of the stacks.
LEMMA ResumeRun == HistInv /\ FollowInv /\ LastRun => Resumed
<1> SUFFICES ASSUME HistInv, FollowInv, LastRun PROVE Resumed
  OBVIOUS
<1> DEFINE l == Len(entries)
<1>1. FileInv(entries) /\ undoStack \in Seq(Runs) /\ SourcesBefore(entries)
  BY InvFacts DEF StackInv, LoggedRuns, FollowInv, FollowFile
<1>2. l \in 1..Len(entries) /\ l = Len(entries) /\ l \in 0..Len(entries)
      /\ entries[l].kind = "checkpoint" /\ entries[l].record.end = l - 1
      /\ undoStack /= <<>> /\ Last(undoStack) = entries[l].record /\ redoStack = <<>>
  BY DEF LastRun
<1> HIDE DEF l
<1>3. CursorAt(l) = None
  <2>1. entries[l].kind \in Control
    BY <1>2 DEF Control
  <2> QED BY <1>1, <1>2, <2>1, ControlLast
<1>4. Rebuilt(l).undo = Attached(l) /\ Rebuilt(l).redo = <<>>
  BY <1>1, <1>2, <1>3, RebuiltShape
<1>5. /\ Attached(l) \in Seq(Runs) /\ Len(Attached(l)) \in Nat \ {0}
      /\ Attached(l)[Len(Attached(l))] = entries[l].record
  BY <1>1, <1>2, AttachedLast
<1>6. Top(Attached(l)) = entries[l].record /\ Top(undoStack) = entries[l].record
  BY <1>1, <1>2, <1>5, TopFacts
<1> QED BY <1>2, <1>4, <1>6 DEF Resumed

(* Every run that ended is recorded, and no rebuild took a leaf that a     *)
(* compensation left.                                                      *)
Mended ==
  /\ ~Running /\ "run" \notin missed
  /\ spent["declined"] = 0 \/ spent["recover"] = 0

KeepInv == Mended => Resumed

\* The first session.
LEMMA KeepInit == Init => KeepInv
<1> SUFFICES ASSUME Init PROVE Resumed
  BY DEF KeepInv
<1>0. HistInv
  BY HistInit
<1> DEFINE none == <<>>
           e == [kind |-> "system", parent |-> 0]
           f == <<e>>
           l == Len(entries)
<1>1. Len(none) = 0 /\ Len(f) = 1 /\ f[1] = e /\ (entries = none \/ entries = f)
        /\ redoStack = none /\ undoStack = none
  BY DEF Init
<1>2. e.kind = "system"
  OBVIOUS
<1> HIDE DEF none, f, e
<1>3. \A i \in 1..l : entries[i].kind = "system"
  BY <1>1, <1>2
<1>4. FileInv(entries) /\ l \in 0..Len(entries) /\ Branch(l) \subseteq 1..l
  BY <1>0, InvFacts, FileFacts
<1> HIDE DEF l
<1>5. \A i \in Branch(l) : entries[i].kind \notin Control /\ entries[i].kind /= "start"
  BY <1>3, <1>4 DEF Control
<1>6. CursorAt(l) = None
  <2>1. {i \in Branch(l) : entries[i].kind \in Control} = {}
    BY <1>5
  <2> QED BY <2>1 DEF CursorAt
<1>7. Attached(l) = Checkpoints(l)
  <2>1. OfKind(Branch(l), "start") = {}
    BY <1>5 DEF OfKind
  <2> QED BY <2>1 DEF Attached
<1>8. Checkpoints(l) = <<>>
  <2>1. LoggedRuns(entries, Checkpoints(l))
    BY <1>4, CheckpointsFacts
  <2>2. \A c : ~Logged(entries, c)
    BY <1>3 DEF Logged, l
  <2>3. Checkpoints(l) \in Seq(Runs) /\ \A k \in 1..Len(Checkpoints(l)) : FALSE
    BY <2>1, <2>2 DEF LoggedRuns
  <2> QED BY <2>3
<1>9. Rebuilt(l).undo = <<>> /\ Rebuilt(l).redo = <<>>
  BY <1>4, <1>6, <1>7, <1>8, RebuiltShape
<1> QED BY <1>1, <1>9 DEF Resumed, l, none

\* A step that appends nothing and leaves the stacks alone.
LEMMA KeepQuiet ==
  ASSUME UNCHANGED <<entries, undoStack, redoStack>>, Resumed
  PROVE  Resumed'
<1>1. Rebuilt(Len(entries))' = Rebuilt(Len(entries))
  BY RebuiltStill
<1> QED BY <1>1 DEF Resumed

\* A new controller at the end of the file.
LEMMA KeepRebuild ==
  ASSUME UNCHANGED entries, NEW at, at = Len(entries), RebuildAt(at)
  PROVE  Resumed'
<1>1. Rebuilt(Len(entries))' = Rebuilt(Len(entries))
  BY RebuiltStill
<1>2. undoStack' = Rebuilt(at).undo /\ redoStack' = Rebuilt(at).redo
  BY DEF RebuildAt
<1> QED BY <1>1, <1>2 DEF Resumed

\* The last entry after an append.
LEMMA LastEntry ==
  ASSUME HistInv, NEW e \in EntryTypes, entries' = Append(entries, e)
  PROVE  /\ Len(entries') \in 1..Len(entries') /\ entries'[Len(entries')] = e
         /\ Len(entries) \in Nat /\ Len(entries') = Len(entries) + 1
BY InvFacts, AppendFacts

\* undo leaves the cursor of its stacks at the end.
LEMMA KeepUndo == HistInv /\ Undo => LastCursor'
<1> SUFFICES ASSUME HistInv, Undo PROVE LastCursor'
  OBVIOUS
<1>1. PICK c, x, e : Undoes(c, x, e)
  BY UndoShape
<1>2. /\ undoStack /= <<>> /\ e \in EntryTypes /\ e.kind = "cursor"
      /\ e.head = IF Len(undoStack) = 1 THEN 0 ELSE Last(Front(undoStack)).start
      /\ e.redo = IdsOf(redoStack') /\ entries' = Append(entries, e)
      /\ undoStack' = Front(undoStack)
  BY <1>1, Zenon DEF Undoes
<1>3. undoStack' = <<>> <=> Len(undoStack) = 1
  <2>1. LoggedRuns(entries, undoStack)
    BY InvFacts DEF StackInv
  <2>2. /\ Len(undoStack) \in Nat \ {0}
        /\ LoggedRuns(entries, Front(undoStack)) /\ Len(Front(undoStack)) = Len(undoStack) - 1
    BY <1>2, <2>1, LoggedLast
  <2>3. undoStack' \in Seq(Runs) /\ Len(undoStack') = Len(undoStack) - 1
    BY <1>2, <2>2 DEF LoggedRuns
  <2>4. undoStack' = <<>> => Len(undoStack') = 0
    OBVIOUS
  <2>5. undoStack' /= <<>> => Len(undoStack') \in Nat \ {0}
    BY <2>3, TopFacts
  <2> QED BY <2>2, <2>3, <2>4, <2>5
<1>4. /\ Len(entries') \in 1..Len(entries') /\ entries'[Len(entries')] = e
  BY <1>2, LastEntry
<1>5. e.head = IF undoStack' = <<>> THEN 0 ELSE Last(undoStack').start
  BY <1>2, <1>3
<1> QED BY <1>2, <1>4, <1>5 DEF LastCursor

\* So does redo.
LEMMA KeepRedo == HistInv /\ Redo => LastCursor'
<1> SUFFICES ASSUME HistInv, Redo PROVE LastCursor'
  OBVIOUS
<1>1. PICK c, target, e : Redoes(c, target, e)
  BY RedoShape
<1>2. /\ c \in Runs /\ e \in EntryTypes /\ e.kind = "cursor" /\ e.head = c.start
      /\ e.redo = IdsOf(redoStack') /\ entries' = Append(entries, e)
      /\ undoStack' = Append(undoStack, c)
  BY <1>1, Zenon DEF Redoes
<1>3. undoStack' /= <<>> /\ Last(undoStack') = c
  <2>1. undoStack \in Seq(Runs)
    BY InvFacts DEF StackInv, LoggedRuns
  <2> QED BY <1>2, <2>1 DEF Last
<1>4. Len(entries') \in 1..Len(entries') /\ entries'[Len(entries')] = e
  BY <1>2, LastEntry
<1> QED BY <1>2, <1>3, <1>4 DEF LastCursor

\* And so does a navigation.
LEMMA KeepTree == HistInv /\ Tree => LastCursor'
<1> SUFFICES ASSUME HistInv, Tree PROVE LastCursor'
  OBVIOUS
<1>1. PICK id, t, e : Navigates(id, t, e)
  BY TreeShape
<1>2. /\ e \in EntryTypes /\ e.kind = "cursor"
      /\ e.head = IF t.undo = <<>> THEN 0 ELSE Last(t.undo).start
      /\ e.redo = <<>> /\ entries' = Append(entries, e)
      /\ undoStack' = t.undo /\ redoStack' = <<>>
  BY <1>1, Zenon DEF Navigates
<1>3. IdsOf(redoStack') = e.redo
  <2>1. <<>> \in Seq(Undone) /\ Len(<<>>) = 0
    BY EmptyMeets
  <2>2. IdsOf(redoStack') \in Seq(Nat) /\ Len(IdsOf(redoStack')) = 0
    BY <1>2, <2>1, IdsFacts
  <2> QED BY <1>2, <2>2
<1>4. Len(entries') \in 1..Len(entries') /\ entries'[Len(entries')] = e
  BY <1>2, LastEntry
<1> QED BY <1>2, <1>3, <1>4 DEF LastCursor

\* settleRun leaves the checkpoint of the run at the end.
LEMMA KeepSettle == HistInv /\ FollowInv /\ Settle => LastRun'
<1> SUFFICES ASSUME HistInv, FollowInv, Settle PROVE LastRun'
  OBVIOUS
<1>1. PICK r, e : Settles(r, e)
  BY SettleShape
<1>2. /\ r \in Runs /\ r.end = Len(entries) /\ e \in EntryTypes /\ e.kind = "checkpoint" /\ e.record = r
      /\ entries' = Append(entries, e) /\ undoStack' = Append(undoStack, r)
      /\ redoStack = <<>> /\ redoStack' = redoStack
  BY <1>1, Zenon DEF Settles
<1>3. undoStack' /= <<>> /\ Last(undoStack') = r
  <2>1. undoStack \in Seq(Runs)
    BY InvFacts DEF StackInv, LoggedRuns
  <2> QED BY <1>2, <2>1 DEF Last
<1>4. /\ Len(entries') \in 1..Len(entries') /\ entries'[Len(entries')] = e
      /\ Len(entries) \in Nat /\ Len(entries') = Len(entries) + 1
  BY <1>2, LastEntry
<1>5. r.end = Len(entries') - 1
  BY <1>2, <1>4
<1> QED BY <1>2, <1>3, <1>4, <1>5 DEF LastRun

\* One step per action.
LEMMA KeepStep ==
  HistInv /\ FollowInv /\ KeepInv /\ [Next]_vars /\ HistInv' /\ FollowInv' => KeepInv'
<1> SUFFICES ASSUME HistInv, FollowInv, KeepInv, [Next]_vars, HistInv', FollowInv', Mended'
             PROVE  Resumed'
  BY DEF KeepInv
<1>a. /\ ~Running' /\ "run" \notin missed' /\ "run" \notin missed
      /\ spent["declined"] = 0 \/ spent["recover"] = 0
  <2>1. /\ \A d \in Disturbances : spent'[d] = 0 => spent[d] = 0
        /\ missed \subseteq missed'
    BY NothingForgotten
  <2> QED BY <2>1 DEF Mended, Disturbances
<1>b. ASSUME ~Running, UNCHANGED <<entries, undoStack, redoStack>> PROVE Resumed'
  <2>1. Resumed
    BY <1>a, <1>b DEF KeepInv, Mended
  <2> QED BY <1>b, <2>1, KeepQuiet
<1>c. ASSUME LastCursor' PROVE Resumed'
  <2>1. (HistInv /\ FollowInv /\ LastCursor => Resumed)'
    BY ResumeCursor, PTL
  <2> QED BY <1>c, <2>1
<1>d. ASSUME LastRun' PROVE Resumed'
  <2>1. (HistInv /\ FollowInv /\ LastRun => Resumed)'
    BY ResumeRun, PTL
  <2> QED BY <1>d, <2>1
<1>1. CASE Prompt
  <2>1. UNCHANGED <<entries, undoStack, redoStack>> /\ agent \in {"idle", "abandoned"}
    BY <1>1, Zenon DEF Prompt, Waiting
  <2> QED BY <1>b, <2>1 DEF Running
<1>2. CASE Abandon
  <2>1. UNCHANGED <<entries, undoStack, redoStack>> /\ agent = "accepted"
    BY <1>2, Zenon DEF Abandon, controller
  <2> QED BY <1>b, <2>1 DEF Running
<1>3. CASE StartRun \/ StartFails \/ PiUser \/ PiReply
  <2>1. agent' \in {"started", "running", "replied"}
    BY <1>3 DEF StartRun, StartFails, PiUser, PiReply
  <2> QED BY <1>a, <2>1 DEF Running
<1>4. CASE SettleUnrecorded \/ PromptMissing \/ SettleFails
  BY <1>4, <1>a DEF SettleUnrecorded, PromptMissing, SettleFails
<1>5. CASE Settle
  BY <1>5, <1>d, KeepSettle
<1>6. CASE Undo
  BY <1>6, <1>c, KeepUndo
<1>7. CASE Redo
  BY <1>7, <1>c, KeepRedo
<1>8. CASE Tree
  BY <1>8, <1>c, KeepTree
<1>9. CASE UndoNothing \/ Declined
  <2>1. UNCHANGED <<entries, undoStack, redoStack>> /\ agent \in {"idle", "abandoned", "accepted"}
    BY <1>9 DEF UndoNothing, Declined, Fails, Ready
  <2> QED BY <1>b, <2>1 DEF Running
<1>10. CASE Recover
  <2>1. RebuildAt(leaf) /\ UNCHANGED entries
    BY <1>10, Zenon DEF Recover
  <2>2. spent'["recover"] /= 0
    <3>1. spent' = [spent EXCEPT !["recover"] = @ + 1]
      BY <1>10, Zenon DEF Recover, Spend
    <3>2. spent \in [Disturbances -> Nat] /\ "recover" \in Disturbances
      BY InvFacts DEF Disturbances
    <3> QED BY <3>1, <3>2
  <2>3. spent["declined"] = 0
    <3>1. spent'["declined"] = 0
      BY <2>2 DEF Mended
    <3> QED BY <3>1, NothingForgotten DEF Disturbances
  <2>4. leaf = Len(entries)
    BY <2>3 DEF FollowInv, LeafLast
  <2> QED BY <2>1, <2>4, KeepRebuild
<1>11. CASE Restart
  <2>1. RebuildAt(Len(entries)) /\ UNCHANGED entries
    BY <1>11, Zenon DEF Restart
  <2> QED BY <2>1, KeepRebuild
<1>12. CASE FinalizationFails \/ Edit \/ UNCHANGED vars
  <2>1. UNCHANGED <<entries, undoStack, redoStack, agent>>
    BY <1>12, Zenon DEF FinalizationFails, Edit, vars, controller
  <2> QED BY <1>a, <1>b, <2>1 DEF Running
<1> QED BY <1>1, <1>2, <1>3, <1>4, <1>5, <1>6, <1>7, <1>8, <1>9, <1>10, <1>11, <1>12, Zenon
        DEF Next

\* It holds in every behaviour.
LEMMA KeepInvAlways == Spec => []KeepInv
<1>1. HistInv /\ FollowInv /\ KeepInv /\ [Next]_vars => (HistInv /\ FollowInv /\ KeepInv)'
  BY HistStep, FollowStep, KeepStep
<1>2. QED BY <1>1, HistInit, FollowInit, KeepInit, PTL DEF Spec

\* RestartKeepsTop from the invariant.
LEMMA RestartByInv == KeepInv => RestartKeepsTop
<1> SUFFICES ASSUME KeepInv, Waiting, "run" \notin missed,
                    spent["declined"] = 0 \/ spent["recover"] = 0
             PROVE  Resumed
  BY DEF RestartKeepsTop, Resumed
<1>1. Mended
  BY DEF Mended, Waiting, Running
<1> QED BY <1>1 DEF KeepInv

-----------------------------------------------------------------------------
(* The results.                                                            *)

(* The session file is a tree whose entries follow their parents, every    *)
(* run on a stack of the controller is one the file records, with its      *)
(* start, its prompt and its end in the file, and every manifest kept for  *)
(* an undo or a redo is one a capture made (controller.ts settleRun,       *)
(* performOperation, prepareTree; pi-runtime.ts rebuildControllerState).   *)
THEOREM HistoryTypedAlways == Spec => []HistoryTypeOK
<1>1. QED BY HistInvAlways, TypedByInv, PTL

(* For any number of entries, paths, contents and disturbances: whatever   *)
(* was interrupted or appended by others, a controller can be made from    *)
(* the file at Pi's leaf and at its last entry. rebuildControllerState     *)
(* (pi-runtime.ts) finds every checkpoint and every undo that the cursor   *)
(* on the branch names, so neither opening the session nor /undo-recover   *)
(* fails on what undo, redo and navigation themselves have written.        *)
THEOREM RebuildNeverFailsAlways == Spec => []RebuildNeverFails
<1>1. QED BY HistInvAlways, RebuildableByInv, PTL

(* For any number of entries, paths, contents and disturbances: after any  *)
(* number of undos, redos, declined ones, navigations, rebuilds and        *)
(* restarts, as long as nobody else wrote to the workspace, no run went    *)
(* unrecorded and no rebuild or navigation left a gap, the workspace       *)
(* between runs is what every run that ended or began at the leaf recorded *)
(* there (controller.ts performOperation, createCursor; pi-runtime.ts      *)
(* resolveTreeTarget, rebuildControllerState).                             *)
THEOREM WorkspaceMatchesLeafAlways == Spec => []WorkspaceMatchesLeaf
<1>1. QED BY CalmInvAlways, WorkspaceByInv, PTL

(* Then the stacks meet at the leaf without a gap, whatever the order of   *)
(* the steps: the next /undo takes the run that ended there and the next   *)
(* /redo the one that began there (controller.ts performOperation;         *)
(* pi-runtime.ts rebuildControllerState).                                  *)
THEOREM StacksMeetAtLeafAlways == Spec => []StacksMeetAtLeaf
<1>1. QED BY CalmInvAlways, StacksMeetByInv, PTL

(* A new process that opens the session between runs has the redo stack,   *)
(* with the manifests to return to, and the run the next /undo takes, of   *)
(* the process it replaces, as long as every run was recorded and no       *)
(* rebuild took a leaf that a compensation left (pi-runtime.ts             *)
(* rebuildControllerState, checkpointFrontierAfterDetachedRun).            *)
THEOREM RestartKeepsTopAlways == Spec => []RestartKeepsTop
<1>1. QED BY KeepInvAlways, RestartByInv, PTL
==============================================================================
