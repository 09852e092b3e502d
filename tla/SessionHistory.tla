---------------------------- MODULE SessionHistory --------------------------
(***************************************************************************)
(* Runs, checkpoints and the two stacks of one session: what the           *)
(* controller (src/src/controller.ts) keeps in memory, what it leaves in   *)
(* the session file, and what a new controller rebuilds from there         *)
(* (src/src/pi-runtime.ts, src/extensions/pi-undo.ts). An undo, a redo and *)
(* a tree navigation are one step each here: they succeed, or they are     *)
(* declined and compensated. UndoTransaction has the steps inside.         *)
(***************************************************************************)
EXTENDS SessionTree

CONSTANTS
  Paths, Contents,
  MaxEntries,  \* bounds the session file
  Limit,       \* how often each kind of disturbance happens
  Total        \* and how often any

Disturbances == {"edit", "lost", "foreign", "declined", "tree", "recover", "restart",
                 "crash"}

ASSUME HistoryAssumption ==
  /\ MaxEntries \in Nat
  /\ Limit \in [Disturbances -> Nat] /\ Total \in Nat

VARIABLES
  leaf,       \* Pi's leaf
  ws,         \* the workspace
  undoStack, redoStack, paused, locked, staged,  \* the controller
  agent,      \* how far the current run is
  spent,
  missed      \* history: a run that was not recorded, a gap in a stack

controller == <<undoStack, redoStack, paused, locked, staged>>
vars == <<entries, leaf, ws, controller, agent, spent, missed>>

(* A run is accepted (runCompletion is set), started (its start entry was  *)
(* appended), then Pi appends the prompt and the reply; an abandoned one   *)
(* never starts.                                                           *)
AgentStates == {"idle", "abandoned", "accepted", "started", "running", "replied"}

Spend(d) ==
  /\ spent[d] < Limit[d]
  /\ FoldFunction(+, 0, spent) < Total
  /\ spent' = [spent EXCEPT ![d] = @ + 1]

Last(s) == s[Len(s)]
Front(s) == SubSeq(s, 1, Len(s) - 1)
(* Variant: the next redo comes first. *)
IdsNextFirst(stack) == [k \in DOMAIN stack |-> stack[Len(stack) + 1 - k].checkpoint.start]
(* The redo stack as a cursor records it, the next redo last. *)
IdsOf(stack) == [k \in DOMAIN stack |-> stack[k].checkpoint.start]

(* A manifest: what it captured and whether it is one of the whole         *)
(* workspace.                                                              *)
Capture == [files |-> ws, complete |-> TRUE]
ScopedCapture(scope) == [files |-> [p \in scope |-> ws[p]], complete |-> FALSE]
Agrees(m, scope) == \A p \in scope : m.files[p] = ws[p]
Overwritten(m, scope) == [p \in Paths |-> IF p \in scope THEN m.files[p] ELSE ws[p]]

(* captureSafety: the reference if the scope still is what it says. *)
SafetyCapture(reference, scope) ==
  IF Agrees(reference, scope) THEN reference ELSE ScopedCapture(scope)

ChangedPaths(c) == {p \in Paths : c.before.files[p] # c.after.files[p]}

Appended(entry) == Append(entries, entry)
Room == Len(entries) < MaxEntries

(* Pi starts a session with an entry of its own, or with none. *)
Init ==
  /\ entries \in {<<>>, <<[kind |-> "system", parent |-> 0]>>}
  /\ leaf = Len(entries)
  /\ ws \in [Paths -> Contents]
  /\ undoStack = <<>> /\ redoStack = <<>>
  /\ paused = FALSE /\ locked = FALSE
  /\ staged = None
  /\ agent = "idle"
  /\ spent = [d \in Disturbances |-> 0]
  /\ missed = {}

-----------------------------------------------------------------------------
(* A run. *)

Waiting == agent \in {"idle", "abandoned"}

(* beginInput with the capture before the prompt. A failed capture leaves  *)
(* the run unrecorded, and so does a locked session, which stages nothing. *)
Prompt ==
  /\ Waiting
  /\ Len(entries) + 4 <= MaxEntries
  /\ agent' = "accepted"
  /\ \/ /\ ~locked
        /\ staged' = [before |-> Capture, source |-> LogicalLeaf(leaf), start |-> 0]
        /\ paused' = FALSE
        /\ UNCHANGED spent
     \/ /\ ~locked
        /\ Spend("lost")
        /\ staged' = None
        /\ UNCHANGED paused
     \/ /\ locked
        /\ UNCHANGED <<staged, paused, spent>>
  /\ UNCHANGED <<entries, leaf, ws, undoStack, redoStack, locked, missed>>

(* Pi refuses the prompt after the extension accepted it: there is neither *)
(* a message nor an agent_settled.                                         *)
Abandon ==
  /\ agent = "accepted"
  /\ agent' = IF locked THEN "idle" ELSE "abandoned"
  /\ UNCHANGED <<entries, leaf, ws, controller, spent, missed>>

Unrecorded == locked \/ staged = None

(* Variant: the redo stack survives a new run. *)
StartKeepsRedo ==
  /\ agent = "accepted" /\ ~Unrecorded
  /\ agent' = "started"
  /\ entries' = Appended([kind |-> "start", parent |-> leaf,
                          before |-> staged.before, source |-> staged.source])
  /\ leaf' = Len(entries')
  /\ staged' = [staged EXCEPT !.start = leaf']
  /\ UNCHANGED <<ws, undoStack, redoStack, paused, locked, spent, missed>>

(* startAgentRun. Only a run that is recorded clears the redo stack. *)
StartRun ==
  /\ agent = "accepted"
  /\ agent' = "started"
  /\ IF Unrecorded
       THEN UNCHANGED <<entries, leaf, staged, redoStack>>
       ELSE /\ entries' = Appended([kind |-> "start", parent |-> leaf,
                                    before |-> staged.before, source |-> staged.source])
            /\ leaf' = Len(entries')
            /\ staged' = [staged EXCEPT !.start = leaf']
            /\ redoStack' = <<>>
  /\ UNCHANGED <<ws, undoStack, paused, locked, spent, missed>>

(* The start entry can not be appended. *)
StartFails ==
  /\ agent = "accepted" /\ ~Unrecorded
  /\ Spend("lost")
  /\ agent' = "started"
  /\ locked' = TRUE
  /\ staged' = None
  /\ UNCHANGED <<entries, leaf, ws, undoStack, redoStack, paused, missed>>

(* Pi appends the prompt. Another extension may come first. *)
PiUser ==
  /\ agent = "started"
  /\ agent' = "running"
  /\ \/ /\ entries' = Appended([kind |-> "user", parent |-> leaf])
        /\ UNCHANGED spent
     \/ /\ Spend("foreign")
        /\ entries' = Appended([kind |-> "other", parent |-> leaf])
                        \o <<[kind |-> "user", parent |-> Len(entries) + 1]>>
  /\ leaf' = Len(entries')
  /\ UNCHANGED <<ws, controller, missed>>

(* The agent works and replies. *)
PiReply ==
  /\ agent = "running"
  /\ agent' = "replied"
  /\ ws' \in [Paths -> Contents]
  /\ entries' = Appended([kind |-> "reply", parent |-> leaf])
  /\ leaf' = Len(entries')
  /\ UNCHANGED <<controller, spent, missed>>

Settling ==
  /\ agent = "replied"
  /\ agent' = "idle"
  /\ staged' = None

(* settleRun of a run that is not recorded. *)
SettleUnrecorded ==
  /\ Settling
  /\ Unrecorded
  /\ missed' = missed \cup {"run"}
  /\ UNCHANGED <<entries, leaf, ws, undoStack, redoStack, paused, locked, spent>>

RecordRun(user) ==
  LET record == [start |-> staged.start, user |-> user, end |-> LogicalLeaf(leaf),
                 before |-> staged.before, after |-> Capture]
  IN  /\ entries' = Appended([kind |-> "checkpoint", parent |-> leaf, record |-> record])
      /\ undoStack' = Append(undoStack, record)
      /\ leaf' = Len(entries')
      /\ UNCHANGED <<ws, redoStack, paused, locked, spent, missed>>

(* Variant: the prompt is not looked for. *)
SettleUnsearched ==
  /\ Settling
  /\ ~Unrecorded
  /\ RecordRun(IF UserAfter(staged.start) = {} THEN 0 ELSE Smallest(UserAfter(staged.start)))

(* settleRun: the checkpoint of the run. *)
Settle ==
  /\ Settling
  /\ ~Unrecorded
  /\ UserAfter(staged.start) # {}
  /\ RecordRun(Smallest(UserAfter(staged.start)))

AppendBarrier ==
  /\ entries' = Appended([kind |-> "barrier", parent |-> leaf])
  /\ leaf' = Len(entries')

(* settleRun does not find the prompt behind its start entry. *)
PromptMissing ==
  /\ Settling
  /\ ~Unrecorded
  /\ UserAfter(staged.start) = {}
  /\ locked' = TRUE
  /\ AppendBarrier
  /\ missed' = missed \cup {"run"}
  /\ UNCHANGED <<ws, undoStack, redoStack, paused, spent>>

(* The capture after the run fails, or the checkpoint can not be appended. *)
SettleFails ==
  /\ Settling
  /\ ~Unrecorded /\ UserAfter(staged.start) # {}
  /\ Spend("lost")
  /\ paused' = TRUE
  /\ undoStack' = <<>> /\ redoStack' = <<>>
  /\ AppendBarrier
  /\ missed' = missed \cup {"run"}
  /\ UNCHANGED <<ws, locked>>

-----------------------------------------------------------------------------
(* Undo and redo. While a run goes on they wait for it to settle; an input *)
(* that did not start yet is dropped (waitForCheckpoint).                  *)
Ready ==
  /\ ~locked /\ ~paused
  /\ agent \in {"idle", "abandoned", "accepted"}
  /\ staged' = None
  /\ agent' = IF agent = "accepted" THEN "accepted" ELSE "idle"

Cursor(action, parent, head, redo, rollback, target) ==
  [kind |-> "cursor", parent |-> parent, action |-> action, head |-> head, redo |-> redo,
   rollback |-> rollback, target |-> target, to |-> LogicalLeaf(parent)]

Undo ==
  /\ Ready
  /\ Room
  /\ undoStack # <<>>
  /\ LET c == Last(undoStack)
         scope == ChangedPaths(c)
         safety == SafetyCapture(c.after, scope)
         undone == Append(redoStack, [checkpoint |-> c, target |-> safety])
     IN  /\ entries' = Appended(Cursor("undo", Landing(c.user),
                                       IF Len(undoStack) = 1 THEN 0
                                       ELSE Last(Front(undoStack)).start,
                                       IdsOf(undone), safety, c.before))
         /\ ws' = Overwritten(c.before, scope)
         /\ undoStack' = Front(undoStack)
         /\ redoStack' = undone
  /\ leaf' = Len(entries')
  /\ UNCHANGED <<paused, locked, spent, missed>>

Redo ==
  /\ redoStack # <<>>
  /\ Ready
  /\ Room
  /\ LET c == Last(redoStack).checkpoint
         target == Last(redoStack).target
         scope == ChangedPaths(c)
     IN  /\ entries' = Appended(Cursor("redo", Landing(c.end), c.start, IdsOf(Front(redoStack)),
                                       SafetyCapture(c.before, scope), target))
         /\ ws' = Overwritten(target, scope)
         /\ undoStack' = Append(undoStack, c)
  /\ redoStack' = Front(redoStack)
  /\ leaf' = Len(entries')
  /\ UNCHANGED <<paused, locked, spent, missed>>

(* An undo with nothing to undo: the input is dropped all the same. *)
UndoNothing ==
  /\ Ready
  /\ undoStack = <<>>
  /\ UNCHANGED <<entries, leaf, ws, undoStack, redoStack, paused, locked, spent, missed>>

Fails ==
  /\ Ready
  /\ undoStack # <<>> \/ redoStack # <<>>
  /\ Spend("declined")
  /\ UNCHANGED <<entries, ws, undoStack, redoStack, paused, locked, missed>>

(* Variant: the files go back, the leaf does not. *)
LeafLeftMoved ==
  /\ Fails
  /\ undoStack # <<>>
  /\ leaf' = Landing(Last(undoStack).user)

(* An undo or a redo that fails: nothing moved, or the files and the leaf  *)
(* were put back. No entry tells of it, but Pi's leaf may come back to     *)
(* another entry with the same logical leaf (restoreSessionLeaf).          *)
Declined ==
  /\ Fails
  /\ \/ leaf' = leaf
     \/ LET found == NavigationEntries(LogicalLeaf(leaf))
        IN  found # {} /\ leaf' = Landing(Smallest(found))

-----------------------------------------------------------------------------
(* The stack leads from the leaf back without a gap: a run began where the *)
(* one before it ended.                                                    *)
Boundary(c) == LogicalLeaf(entries[c.user].parent)
Joined(stack, logical) ==
  \A k \in DOMAIN stack :
    stack[k].end = IF k = Len(stack) THEN logical ELSE Boundary(stack[k + 1])
GapIn(stack, logical) == IF Joined(stack, logical) THEN {} ELSE {"gap"}

(* prepareTree and applyPreparedTree. A target without a manifest of the   *)
(* whole workspace cancels the navigation.                                 *)
Tree ==
  /\ agent = "idle" /\ staged = None
  /\ ~locked /\ ~paused
  /\ Room
  /\ Spend("tree")
  /\ \E id \in Ids :
       LET t == TreeTarget(id)
       IN  /\ t # None
           /\ t.manifest.complete
           /\ entries' = Appended(Cursor("tree", Landing(id),
                                         IF t.undo = <<>> THEN 0 ELSE Last(t.undo).start,
                                         <<>>, Capture, t.manifest))
           /\ ws' = t.manifest.files
           /\ undoStack' = t.undo
           /\ missed' = missed \cup GapIn(t.undo, t.leaf)
  /\ redoStack' = <<>>
  /\ leaf' = Len(entries')
  /\ UNCHANGED <<paused, locked, staged, agent>>

(* A controller made for a leaf. *)
RebuildAt(at) ==
  /\ Rebuildable(at)
  /\ LET new == Rebuilt(at)
     IN  /\ undoStack' = new.undo /\ redoStack' = new.redo /\ paused' = new.paused
         /\ missed' = missed \cup GapIn(new.undo, LogicalLeaf(at))
  /\ locked' = FALSE
  /\ staged' = None

(* /undo-recover makes a new controller in the running process; a run that *)
(* goes on is no longer recorded.                                          *)
Recover ==
  /\ Spend("recover")
  /\ RebuildAt(leaf)
  /\ agent' = IF agent = "abandoned" THEN "idle" ELSE agent
  /\ UNCHANGED <<entries, leaf, ws>>

(* A new process opens the session at the last entry of its file. *)
Restart ==
  /\ Spend(IF Waiting THEN "restart" ELSE "crash")
  /\ leaf' = Len(entries)
  /\ RebuildAt(Len(entries))
  /\ agent' = "idle"
  /\ UNCHANGED <<entries, ws>>

(* The finalization of an earlier operation fails in the background. *)
FinalizationFails ==
  /\ Spend("lost")
  /\ ~locked
  /\ locked' = TRUE
  /\ UNCHANGED <<entries, leaf, ws, undoStack, redoStack, paused, staged, agent, missed>>

(* Another program writes to the workspace. *)
Edit ==
  /\ Spend("edit")
  /\ \E p \in Paths : \E c \in Contents \ {ws[p]} : ws' = [ws EXCEPT ![p] = c]
  /\ UNCHANGED <<entries, leaf, controller, agent, missed>>

Next ==
  \/ Prompt \/ Abandon \/ StartRun \/ StartFails \/ PiUser \/ PiReply
  \/ SettleUnrecorded \/ Settle \/ PromptMissing \/ SettleFails
  \/ Undo \/ Redo \/ UndoNothing \/ Declined
  \/ Tree \/ Recover \/ Restart \/ FinalizationFails \/ Edit

Spec == Init /\ [][Next]_vars

-----------------------------------------------------------------------------
Manifests == [files : UNION {[S -> Contents] : S \in SUBSET Paths}, complete : BOOLEAN]
Records == [start : Ids, user : Ids, end : Ids, before : Manifests, after : Manifests]

(* Type invariant. *)
HistoryTypeOK ==
  /\ \A i \in Ids : entries[i].kind \in Messages \cup Control /\ entries[i].parent \in 0..(i - 1)
  /\ leaf \in {0} \cup Ids
  /\ ws \in [Paths -> Contents]
  /\ \A k \in DOMAIN undoStack : undoStack[k] \in Records
  /\ \A k \in DOMAIN redoStack : redoStack[k] \in [checkpoint : Records, target : Manifests]
  /\ paused \in BOOLEAN /\ locked \in BOOLEAN
  /\ missed \subseteq {"run", "gap"}
  /\ staged = None \/ staged \in [before : Manifests, source : {0} \cup Ids, start : {0} \cup Ids]
  /\ agent \in AgentStates
  /\ spent \in [Disturbances -> Nat]

Recorded == {entries[i].record : i \in OfKind(Ids, "checkpoint")}
Undisturbed == "run" \notin missed /\ spent["edit"] = 0 /\ spent["crash"] = 0
Matches ==
  \A c \in Recorded :
    /\ LogicalLeaf(leaf) = c.end => ws = c.after.files
    /\ LogicalLeaf(leaf) = Boundary(c) => ws = c.before.files

(* Nobody else wrote and nothing failed: between runs the workspace is what *)
(* it was when the session stood where it stands, after any number of      *)
(* undos, redos, compensations, navigations and restarts, as long as no    *)
(* rebuild or navigation left a gap (controller.ts performOperation,       *)
(* createCursor, pi-runtime.ts resolveTreeTarget, rebuildControllerState). *)
WorkspaceMatchesLeaf == Undisturbed /\ missed = {} /\ Waiting => Matches

(* Then the stacks also meet at the leaf: /undo takes the run that ends    *)
(* there and /redo the one that began there.                               *)
StacksMeetAtLeaf ==
  Undisturbed /\ missed = {} /\ Waiting =>
    /\ Joined(undoStack, LogicalLeaf(leaf))
    /\ \A k \in DOMAIN redoStack :
         Boundary(redoStack[k].checkpoint) =
           IF k = Len(redoStack) THEN LogicalLeaf(leaf) ELSE redoStack[k + 1].checkpoint.end

Top(stack) == IF stack = <<>> THEN None ELSE Last(stack)

(* A restart between runs keeps what the next /undo and every /redo do:    *)
(* the run on top of the undo stack and the redo stack with the manifests  *)
(* to return to (pi-runtime.ts rebuildControllerState). Not so once        *)
(* /undo-recover rebuilt the stacks at a leaf a compensation left.         *)
RestartKeepsTop ==
  /\ Waiting
  /\ "run" \notin missed
  /\ spent["declined"] = 0 \/ spent["recover"] = 0
  =>
    LET new == Rebuilt(Len(entries))
    IN  Top(new.undo) = Top(undoStack) /\ new.redo = redoStack

(* A new controller can always be made, at Pi's leaf and at the last entry *)
(* of the file, whatever was interrupted (rebuildControllerState).         *)
RebuildNeverFails == Rebuildable(leaf) /\ Rebuildable(Len(entries))

-----------------------------------------------------------------------------
(* What the documents say and the code does not do. *)

(* Between runs the workspace matches the session, also after a restart.   *)
WorkspaceMatchesSession == Undisturbed /\ Waiting => Matches
=============================================================================
