------------------------ MODULE MCSnapshotObjects ------------------------
(* A small instance of SnapshotObjects. *)
EXTENDS SnapshotObjects, TLC

CONSTANTS p1, p2, a, c, r1, r2

Bound(edit, pins_, sweep_, restart, loss, unsaved, read_) ==
  [k \in Kinds |->
     CASE k = "edit" -> edit [] k = "pin" -> pins_ [] k = "sweep" -> sweep_
       [] k = "restart" -> restart [] k = "loss" -> loss
       [] k = "unsaved" -> unsaved [] OTHER -> read_]

(* Bounds: two reads over all four trees, until members are evicted; or a  *)
(* pin, a collection, a restart and a power loss, with an edit and a leaf  *)
(* cache that is not saved, or with a read.                                *)
Evicting == {Bound(3, 0, 0, 0, 0, 0, 2)}
Storing == {Bound(1, 1, 1, 1, 1, 1, 0)}
Reading == {Bound(0, 1, 1, 1, 1, 0, 1)}
MCBounds == Evicting \cup Storing \cup Reading

Symmetry == Permutations(Blobs) \cup Permutations(Readers)
=============================================================================
