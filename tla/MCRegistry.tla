----------------------------- MODULE MCRegistry -----------------------------
(***************************************************************************)
(* Instances of Registry for TLC: two rules, a static one and a crud! one, *)
(* in lists of none or two, or, where no list may be empty, one or two.    *)
(***************************************************************************)
EXTENDS Registry, TLC

CONSTANTS page, toys, a1, a2, r1

MCRules == {page, toys}
MCCrud == {toys}

MCBatches == {<<>>, <<page, toys>>}
MCNonEmptyBatches == {<<toys>>, <<page, toys>>}

MCTargets == {{page}, {toys}}
=============================================================================
