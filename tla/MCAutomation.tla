----------------------------- MODULE MCAutomation -----------------------------
(* What the administrator may allow: in one instance only what concerns the   *)
(* quota, in the other what concerns approvals too.                          *)
EXTENDS Automation, TLC

MakeOnly == {{"create"}}

MakeAndChange == {{"create", "stop"}, {"start", "expiry"}, {"snapshot"}}

\* Names and identities are interchangeable.
Symmetry == Permutations(Project) \cup Permutations(Inode)
===============================================================================
