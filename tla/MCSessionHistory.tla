--------------------------- MODULE MCSessionHistory -------------------------
(* Instances of SessionHistory for TLC.                                    *)
EXTENDS SessionHistory, TLC

CONSTANTS p1, p2, a, b

Bound(edit, lost, foreign, declined, tree, recover, restart, crash) ==
  [d \in Disturbances |->
     CASE d = "edit" -> edit [] d = "lost" -> lost [] d = "foreign" -> foreign
       [] d = "declined" -> declined [] d = "tree" -> tree
       [] d = "recover" -> recover [] d = "restart" -> restart [] d = "crash" -> crash]

(* Contents are alike, and so are paths. *)
Alike == Permutations(Paths) \cup Permutations(Contents)

MCAll == Bound(1, 1, 1, 1, 1, 1, 1, 1)
MCRestarts == Bound(0, 0, 0, 0, 0, 0, 1, 0)
=============================================================================
