----------------------------- MODULE SessionTree ----------------------------
(***************************************************************************)
(* What pi-undo reads out of a session file (src/src/session-state.ts and  *)
(* the functions below createPiUndoRuntime in src/src/pi-runtime.ts). Pi   *)
(* only appends to the file; each entry names its parent, so the entries   *)
(* form a tree and a leaf stands for the branch that ends in it.           *)
(*                                                                         *)
(* An entry is named by its position in the file, 0 is null. Messages are  *)
(* "system", "user", "reply" and "other" (of another extension), the       *)
(* control entries of pi-undo "start", "checkpoint", "cursor", "barrier".  *)
(***************************************************************************)
EXTENDS Integers, Sequences, FiniteSets, Functions

VARIABLE entries

Control == {"start", "checkpoint", "cursor", "barrier"}
Messages == {"system", "user", "reply", "other"}

None == [kind |-> "none"]

Ids == 1..Len(entries)
Largest(S) == CHOOSE m \in S : \A n \in S : n <= m
Smallest(S) == CHOOSE m \in S : \A n \in S : m <= n
OfKind(S, kind) == {i \in S : entries[i].kind = kind}

(* The branch that ends in a leaf. A parent comes before its child in the  *)
(* file, so the order of the branch is the order of the numbers.           *)
Branch(leaf) ==
  LET up[i \in 0..leaf] == IF i = 0 THEN {} ELSE {i} \cup up[entries[i].parent]
  IN  up[leaf]

(* The nearest entry that is not one of pi-undo's own. *)
LogicalLeaf(leaf) == Largest({0} \cup {i \in Branch(leaf) : entries[i].kind \in Messages})

(* A checkpoint counts if its run lies on the branch before it, the prompt *)
(* follows its start entry and the run ended where the checkpoint was      *)
(* appended.                                                               *)
Trusted(i, branch) ==
  LET c == entries[i].record
  IN  /\ {c.start, c.user, c.end} \subseteq branch
      /\ c.start < c.user /\ c.user <= c.end /\ c.end < i
      /\ entries[c.start].kind = "start"
      /\ entries[c.user].kind = "user" /\ entries[c.user].parent = c.start
      /\ entries[c.end].kind \in Messages
      /\ LogicalLeaf(entries[i].parent) = c.end

(* getCheckpoints: the trusted checkpoints of a branch, oldest first. *)
Checkpoints(leaf) ==
  LET branch == Branch(leaf)
      upTo[i \in 0..leaf] ==
        IF i = 0 THEN <<>>
        ELSE IF i \in branch /\ entries[i].kind = "checkpoint" /\ Trusted(i, branch)
          THEN Append(upTo[i - 1], entries[i].record)
        ELSE upTo[i - 1]
  IN  upTo[leaf]

(* Variant: the last cursor of a branch, whatever came after it. *)
CursorPastRuns(leaf) ==
  LET cursors == OfKind(Branch(leaf), "cursor")
  IN  IF cursors = {} THEN None ELSE entries[Largest(cursors)]

(* getCursor: the cursor of a branch, unless a run began or ended, or a    *)
(* barrier was set, after it.                                              *)
CursorAt(leaf) ==
  LET own == {i \in Branch(leaf) : entries[i].kind \in Control}
  IN  IF own # {} /\ entries[Largest(own)].kind = "cursor" THEN entries[Largest(own)] ELSE None

(* The checkpoint entries at which a checkpoint with a field of this value *)
(* is listed. A checkpoint is named by its start entry.                    *)
Listing(field, value) ==
  {i \in OfKind(Ids, "checkpoint") :
     \E c \in Range(Checkpoints(i)) : c[field] = value}

Position(list, field, value) == Smallest({k \in DOMAIN list : list[k][field] = value})

(* The checkpoint as the first of these entries lists it. *)
FirstListed(field, value) ==
  LET homes == Listing(field, value)
      list == Checkpoints(Smallest(homes))
  IN  IF homes = {} THEN None ELSE list[Position(list, field, value)]

FindById(id) == FirstListed("start", id)
FindByUser(user) == FirstListed("user", user)
(* Only a checkpoint listed at a single entry is found by its end. *)
FindByEnd(end) ==
  IF Cardinality(Listing("end", end)) = 1 THEN FirstListed("end", end) ELSE None

(* checkpointFrontierById: the checkpoints up to one of them, as listed at *)
(* the first entry that lists it.                                          *)
Frontier(id) ==
  LET list == Checkpoints(Smallest(Listing("start", id)))
  IN  SubSeq(list, 1, Position(list, "start", id))

(* The stack a cursor records. *)
CursorStack(cursor) == IF cursor.head = 0 THEN <<>> ELSE Frontier(cursor.head)

(* checkpointFrontierAfterDetachedRun: a run after a redo or a navigation  *)
(* hangs on a cursor beside the last checkpoint; the leaf its start entry  *)
(* recorded leads back to that checkpoint.                                 *)
Attached(leaf) ==
  LET current == Checkpoints(leaf)
      starts == OfKind(Branch(leaf), "start")
      base == IF starts = {} THEN None ELSE FindByEnd(entries[Largest(starts)].source)
      inherited == Frontier(base.start)
      known == {inherited[k].start : k \in DOMAIN inherited}
      joined[k \in 0..Len(current)] ==
        IF k = 0 THEN inherited
        ELSE IF current[k].start \in known THEN joined[k - 1] ELSE Append(joined[k - 1], current[k])
  IN  IF base = None THEN current ELSE joined[Len(current)]

(* The undo that put the k-th entry on the redo stack of a cursor; its     *)
(* rollback manifest is what a redo restores.                              *)
UndoOf(cursor, k) ==
  {i \in OfKind(Ids, "cursor") :
     entries[i].action = "undo" /\ entries[i].redo = SubSeq(cursor.redo, 1, k)}

(* rebuildControllerState throws where this does not hold. *)
Rebuildable(leaf) ==
  LET cursor == CursorAt(leaf)
  IN  cursor # None =>
        /\ cursor.head # 0 => FindById(cursor.head) # None
        /\ \A k \in DOMAIN cursor.redo :
             FindById(cursor.redo[k]) # None /\ UndoOf(cursor, k) # {}

(* rebuildControllerState: the stacks of a new controller. *)
Rebuilt(leaf) ==
  LET cursor == CursorAt(leaf)
      last(kind) == Largest({0} \cup OfKind(Branch(leaf), kind))
  IN  [undo |-> IF cursor = None THEN Attached(leaf) ELSE CursorStack(cursor),
       redo |-> IF cursor = None THEN <<>>
                ELSE [k \in DOMAIN cursor.redo |->
                        [checkpoint |-> FindById(cursor.redo[k]),
                         target |-> entries[Largest(UndoOf(cursor, k))].rollback]],
       paused |-> last("barrier") > last("checkpoint")]

(* resolveTreeTarget: the leaf, the manifest and the stack of an entry the *)
(* user navigates to, or None. A manifest identifier covers the time of    *)
(* its capture, so two runs from one boundary never share a manifest and   *)
(* the boundary is exact only if a single run began there.                 *)
TreeTarget(id) ==
  LET isUser == entries[id].kind = "user"
      physical == IF isUser THEN entries[id].parent ELSE id
      logical == LogicalLeaf(physical)
      cursor == CursorAt(physical)
      exact == FindByEnd(logical)
      begun == {c \in UNION {Range(Checkpoints(i)) : i \in OfKind(Ids, "checkpoint")} :
                  LogicalLeaf(entries[c.user].parent) = logical}
      first == CHOOSE c \in begun : TRUE
      found(manifest, stack) == [leaf |-> logical, manifest |-> manifest, undo |-> stack]
  IN  CASE isUser /\ FindByUser(id) = None -> None
        [] isUser /\ FindByUser(id) # None -> found(FindByUser(id).before, Checkpoints(physical))
        [] ~isUser /\ exact # None -> found(exact.after, Frontier(exact.start))
        [] ~isUser /\ exact = None /\ cursor # None /\ cursor.to = logical
             -> found(cursor.target, CursorStack(cursor))
        [] ~isUser /\ exact = None /\ (cursor = None \/ cursor.to # logical)
             -> IF Cardinality(begun) = 1
                  THEN found(first.before, Checkpoints(entries[first.user].parent))
                  ELSE None

(* Where Pi puts the leaf when it navigates to an entry: before a prompt,  *)
(* at anything else.                                                       *)
Landing(id) == IF entries[id].kind = "user" THEN entries[id].parent ELSE id

(* sessionNavigationEntry: the entries to navigate to for a logical leaf,  *)
(* of which the code takes the first. Pi can not navigate to null.         *)
NavigationEntries(logical) ==
  IF logical # 0 /\ entries[logical].kind # "user" THEN {logical}
  ELSE {u \in OfKind(Ids, "user") : LogicalLeaf(entries[u].parent) = logical}

(* findUserEntryAfter *)
UserAfter(start) == {u \in OfKind(Ids, "user") : entries[u].parent = start}
=============================================================================
