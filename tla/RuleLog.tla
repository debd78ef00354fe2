------------------------------- MODULE RuleLog -------------------------------
(***************************************************************************)
(* The rule list as a client of /_mx sees it: POST appends a batch whole,  *)
(* PUT resets the list and loads a batch.  Priority is the order of log.   *)
(***************************************************************************)
EXTENDS Sequences

CONSTANT Batches  \* the rule lists clients send

VARIABLE log      \* the rules in force, oldest first

Init == log = <<>>

Load(b) == log' = log \o b

Reset == log' = <<>>

Next == Reset \/ \E b \in Batches : Load(b)

Spec == Init /\ [][Next]_log

=============================================================================
