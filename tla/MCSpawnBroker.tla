--------------------------- MODULE MCSpawnBroker ---------------------------
(* Two processes, two modules and a pool of two cells.  Module m1 asks for *)
(* both and gets one when m2 has the other or when the hardware allows no  *)
(* more (MinCells).  The clock passes the end of the first leases.         *)
EXTENDS SpawnBroker, TLC
CONSTANTS p1, p2, m1, m2
MCProcs == {p1, p2}
MCModules == {m1, m2}
MCQuota == (m1 :> 2) @@ (m2 :> 1)
MCJobs ==
    [op : {"request"}, module : Modules, cells : {2}, ttl : {9}, apply : {TRUE}]
      \cup [op : {"release"}, module : Modules] \cup [op : {"status"}]
=============================================================================
