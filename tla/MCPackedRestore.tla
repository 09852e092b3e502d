-------------------------- MODULE MCPackedRestore --------------------------
(* Small instances of PackedRestore. *)
EXTENDS PackedRestore

CONSTANTS Crashes, Edits, Stops, Refusals, Unpublished

Faulty == [crash |-> Crashes, edit |-> Edits, stop |-> Stops,
           refusal |-> Refusals, unpublished |-> Unpublished]
=============================================================================
