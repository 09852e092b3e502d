----------------------------- MODULE AtomicUndo -----------------------------
(***************************************************************************)
(* What an undo or redo promises: an operation that began is decided at    *)
(* most once, and once decided it can only be committed; one that was not  *)
(* decided can only be aborted; nothing revises an outcome. Crashes,       *)
(* retries, cancellations and recoveries are invisible here.               *)
(***************************************************************************)
CONSTANT Ops

VARIABLE outcome

Outcomes == {"none", "pending", "decided", "committed", "aborted"}

Init == outcome = [op \in Ops |-> "none"]

Moves(op, old, new) == outcome[op] = old /\ outcome' = [outcome EXCEPT ![op] = new]

Start(op) == Moves(op, "none", "pending")
Decide(op) == Moves(op, "pending", "decided")
Commit(op) == Moves(op, "decided", "committed")
Abort(op) == Moves(op, "pending", "aborted")

Next == \E op \in Ops : Start(op) \/ Decide(op) \/ Commit(op) \/ Abort(op)

Spec == Init /\ [][Next]_outcome
=============================================================================
