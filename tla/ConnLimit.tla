------------------------------ MODULE ConnLimit ------------------------------
(***************************************************************************)
(* What `conn: {max: N}` promises: no more than N requests of the rule are *)
(* served at the same time.                                                *)
(***************************************************************************)
EXTENDS Naturals, FiniteSets

CONSTANTS Clients, ConnMax

VARIABLE holders  \* the requests being served

Init == holders = {}

Enter(c) ==
  /\ c \notin holders
  /\ Cardinality(holders) < ConnMax
  /\ holders' = holders \cup {c}

Leave(c) ==
  /\ c \in holders
  /\ holders' = holders \ {c}

Next == \E c \in Clients : Enter(c) \/ Leave(c)

Spec == Init /\ [][Next]_holders

=============================================================================
