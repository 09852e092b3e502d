--------------------------- MODULE MCRestoreCalls ---------------------------
(* Instances of RestoreCalls for TLC.                                      *)
EXTENDS RestoreCalls

CONSTANTS p1, p2, a, b

(* One target removes a path and writes the other, one writes a single     *)
(* path: both kinds of batch, batches of one and of two records.           *)
MCTargets ==
  {[p \in {p1, p2} |-> IF p = p1 THEN Absent ELSE a],
   [p \in {p1, p2} |-> b]}

Bound(crash, fail, edit, start) ==
  [f \in Faults |->
     CASE f = "crash" -> crash [] f = "fail" -> fail
       [] f = "edit" -> edit [] f = "start" -> start [] OTHER -> 0]

MCCalls == Bound(2, 1, 1, 2)
=============================================================================
