-------------------------- MODULE MCSwarmMessaging --------------------------
(* One mailbox, filled by the coordinator: two messages fill it, a third   *)
(* overflows, and one payload makes the exactly-once keys collide.         *)
EXTENDS SwarmMessaging, TLC
CONSTANTS c
MCOrder == <<c>>
MCParent == c :> None
=============================================================================
