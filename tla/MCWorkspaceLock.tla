-------------------------- MODULE MCWorkspaceLock ---------------------------
(* Instances of WorkspaceLock for TLC.                                     *)
EXTENDS WorkspaceLock, TLC

CONSTANTS c1, c2, c3, q1, q2, q3

(* Each client in a process of its own. *)
Apart == c1 :> q1 @@ c2 :> q2 @@ c3 :> q3
(* Two callers in one process. *)
Shared == c1 :> q1 @@ c2 :> q2 @@ c3 :> q2
=============================================================================
