--------------------------- MODULE MCSwarmBudget ---------------------------
(* Instance of SwarmSessions that exercises the hierarchical token budget: *)
(* three sessions, so a parent, a child and a grandchild or two siblings.  *)
EXTENDS SwarmSessions, TLC
CONSTANTS s1, s2, s3
MCIds == {s1, s2, s3}
MCSymmetry == Permutations(MCIds)
MCProbes == {<<FALSE, FALSE>>, <<TRUE, TRUE>>}
MCCommands == {"spawn", "persistent", "wake", "terminate", "context"}
=============================================================================
