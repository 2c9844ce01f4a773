--------------------------- MODULE MCSwarmThorn ----------------------------
(* Instance of SwarmSessions without token budgets that exercises thorn    *)
(* quarantine against termination, resume, restart recovery and shutdown.  *)
(* With one cell per two rows, four identifiers reach two active cells.    *)
EXTENDS SwarmSessions, TLC
CONSTANTS s1, s2, s3, s4
MCIds == {s1, s2, s3, s4}
MCSymmetry == Permutations(MCIds)
MCIdsLive == {s1, s2, s3}
MCProbes == {<<TRUE, TRUE>>}
MCCommands == {"persistent", "thorn", "terminate", "resume", "shutdown"}
MCCommandsLive == {"persistent", "thorn", "terminate", "resume", "tick"}
=============================================================================
