----------------------------- MODULE Collection -----------------------------
(***************************************************************************)
(* What an in-memory REST resource promises its clients: a create gives an *)
(* item a name no item has ever had, or one that was set apart as          *)
(* reusable, and any other change is to one item that is there.            *)
(***************************************************************************)
CONSTANT Keys

VARIABLES
  items,    \* a function from the names of the items to the items
  named,    \* every name an item has ever had
  reusable  \* the names a create may give again

Init == DOMAIN items \subseteq Keys /\ named = DOMAIN items /\ reusable \subseteq Keys

\* The items in S are as they were.
Kept(S) == \A i \in S : items'[i] = items[i]

Add(k) ==
  /\ k \in Keys \ (named \ reusable)
  /\ DOMAIN items' = DOMAIN items \cup {k}
  /\ Kept(DOMAIN items \ {k})
  /\ named' = named \cup {k}
  /\ reusable \subseteq reusable'

Change(k) ==
  /\ k \in DOMAIN items
  /\ DOMAIN items' = DOMAIN items
  /\ Kept(DOMAIN items \ {k})
  /\ UNCHANGED <<named, reusable>>

Remove(k) ==
  /\ k \in DOMAIN items
  /\ DOMAIN items' = DOMAIN items \ {k}
  /\ Kept(DOMAIN items \ {k})
  /\ UNCHANGED <<named, reusable>>

Next == \E k \in Keys : Add(k) \/ Change(k) \/ Remove(k)

Spec == Init /\ [][Next]_<<items, named, reusable>>

=============================================================================
