--------------------------- MODULE ExclusiveLease ---------------------------
(***************************************************************************)
(* What the workspace lock promises: one owner at a time; a live client    *)
(* inside loses the lock only by returning it or by giving its own use up; *)
(* the lock of a client whose process is gone may be seized. Directories,  *)
(* files, heartbeats and expiry are invisible here.                        *)
(***************************************************************************)
CONSTANTS Clients, Nobody

VARIABLES owner, inside, gone

Init == owner = Nobody /\ inside = {} /\ gone = {}

Grant(c) ==
  /\ owner = Nobody /\ c \notin gone
  /\ owner' = c /\ inside' = inside \cup {c} /\ UNCHANGED gone

Return(c) ==
  /\ owner = c /\ c \in inside
  /\ owner' = Nobody /\ inside' = inside \ {c} /\ UNCHANGED gone

(* A client that leaves without returning keeps the lock taken.            *)
Forsake(c) == c \in inside /\ inside' = inside \ {c} /\ UNCHANGED <<owner, gone>>

Seize == owner \in gone /\ owner' = Nobody /\ UNCHANGED <<inside, gone>>

Vanish ==
  \E C \in SUBSET Clients :
    gone' = gone \cup C /\ inside' = inside \ C /\ UNCHANGED owner

Next == (\E c \in Clients : Grant(c) \/ Return(c) \/ Forsake(c)) \/ Seize \/ Vanish

Spec == Init /\ [][Next]_<<owner, inside, gone>>
=============================================================================
