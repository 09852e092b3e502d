-------------------------- MODULE MCUndoTransaction --------------------------
(* Instances of UndoTransaction for TLC.                                   *)
EXTENDS UndoTransaction, TLC

CONSTANTS p1, p2, a, b

Bound(crash, fail, edit, chat, ambiguous) ==
  [f \in Faults |->
     CASE f = "crash" -> crash [] f = "fail" -> fail [] f = "edit" -> edit
       [] f = "chat" -> chat [] f = "ambiguous" -> ambiguous [] OTHER -> 0]

(* A target that removes p1, one that gives it a content.                  *)
OnePath == {[p \in {p1} |-> Absent], [p \in {p1} |-> a]}
(* One operation that removes p1 and writes p2: a delete and a write batch.*)
TwoPaths == {[p \in {p1, p2} |-> IF p = p1 THEN Absent ELSE a]}
(* Operations are alike. *)
OpSymmetry == Permutations(Ops)
(* As OnePath, and an operation without files.                             *)
RemoveOrSession == {[p \in {p1} |-> Absent], EmptyManifest}

MCSolo == Bound(2, 2, 0, 1, 1)
MCShared == Bound(2, 1, 1, 0, 0)
(* Bound: any two of the disturbances MCShared allows.                     *)
TwoFaults == spent["crash"] + spent["fail"] + spent["edit"] <= 2
=============================================================================
