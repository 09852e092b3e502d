------------------------- MODULE MCSnapshotCapture -------------------------
(* Small instances of SnapshotCapture. *)
EXTENDS SnapshotCapture, TLC

CONSTANTS p1, p2, q1, q2, a, b

Symmetry == Permutations(Paths) \cup Permutations(Contents) \cup Permutations(Procs)
=============================================================================
