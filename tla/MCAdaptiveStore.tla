-------------------------- MODULE MCAdaptiveStore --------------------------
(* Two processes.  Path a sees every command; path b is only ensured, so   *)
(* that commands that hold different locks meet in the pointer index.      *)
(* Document v2 is not an object and has no pointer rows; the one of b is a *)
(* catalog with two.                                                       *)
EXTENDS AdaptiveStore, TLC
CONSTANTS p1, p2, v1, v2, h1
MCProcs == {p1, p2}
MCPaths == {"a", "b"}
MCPathsOne == {"a"}
MCValues == {v1, v2}
MCKeys == {"a", "b1", "b2"}
MCKeysOne == {"a"}
MCPointers ==
    [x \in Paths |-> [c \in Content |-> CASE x = "b" -> <<<<"b1", h1>>, <<"b2", h1>>>>
                                          [] c = v2  -> <<>>
                                          [] OTHER   -> <<<<"a", h1>>>>]]
MCRequests ==
    {[op |-> "set", path |-> "a", value |-> v2, expect |-> Missing],
     [op |-> "set", path |-> "a", value |-> v1, expect |-> v2],
     [op |-> "delete", path |-> "a"],
     [op |-> "read", path |-> "a"],
     [op |-> "ensure", path |-> "b", value |-> v1]}
MCRequestsOne ==
    {[op |-> "set", path |-> "a", value |-> v2, expect |-> Unchecked],
     [op |-> "ensure", path |-> "a", value |-> v1],
     [op |-> "delete", path |-> "a"]}
=============================================================================
