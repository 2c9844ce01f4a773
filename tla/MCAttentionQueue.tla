-------------------------- MODULE MCAttentionQueue --------------------------
(* Kinds of event with the scores the default metrics give them: a         *)
(* critical one (floor 0.85), a warning (0.59) and an info event (0.37).   *)
EXTENDS AttentionQueue, TLC
CONSTANTS c1, c2
MCConsumers == {c1, c2}
MCSymmetry == Permutations(MCConsumers)
MCSeverity == [k \in Kinds |-> IF k = "crit" THEN "critical" ELSE k]
MCScore == [k \in Kinds |-> CASE k = "crit" -> 850 [] k = "warn" -> 590 [] OTHER -> 370]
=============================================================================
