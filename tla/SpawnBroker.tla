---------------------------- MODULE SpawnBroker ----------------------------
(***************************************************************************)
(* The spawn broker, core/layer0/ops/src/spawn_broker.rs: modules of the   *)
(* system lease cells from one pool.  Every invocation is a process that   *)
(* reads the state file, asks a child process for the hardware plan,       *)
(* computes, and replaces the whole file; there is no lock.  A module has  *)
(* no row in the file exactly when it has no cells.                        *)
(***************************************************************************)
EXTENDS Integers, FiniteSets, FiniteSetsExt, Functions

CONSTANTS
    Procs,
    Modules,
    MinCells, MaxCells, \* pool.min_cells, pool.max_cells
    Quota,              \* max_cells of each module (or the default)
    HardwareCaps,       \* what class, cpu and ram may allow
    Jobs,               \* the command lines
    MinTtl, MaxTtl,     \* 5 seconds, leases.max_ttl_sec
    LeasesEnabled,
    Never,              \* no lease_expires_at
    SaveFails,          \* whether the state file may be unwritable
    MaxNow              \* bound: the clock stops here

ASSUME BrokerAssumption ==
    /\ IsFiniteSet(Modules)
    /\ MinCells \in Nat /\ MaxCells \in Nat /\ MinCells <= MaxCells
    /\ Quota \in [Modules -> 0 .. MaxCells]
    /\ HardwareCaps \subseteq Nat
    /\ MinTtl \in Nat \ {0} /\ MaxTtl \in Nat /\ MinTtl <= MaxTtl
    /\ MaxNow \in Nat /\ Never \notin Int
    /\ LeasesEnabled \in BOOLEAN /\ SaveFails \in BOOLEAN
    /\ Jobs \subseteq
         [op : {"request"}, module : Modules, cells : Nat, ttl : Int, apply : BOOLEAN]
           \cup [op : {"release"}, module : Modules] \cup [op : {"status"}]

VARIABLES
    alloc,  \* the state file: allocations
    now,
    pc, job,
    mem,    \* the allocations a process has loaded and will write back
    held,   \* the lease each module was last told it has
    clean   \* no two commands have overlapped and no save has failed

vars == <<alloc, now, pc, job, mem, held, clean>>

Lease == [cells : 0 .. MaxCells, until : (0 .. MaxNow + MaxTtl) \cup {Never}]
NoLease == [cells |-> 0, until |-> Never]
NoRows == [m \in Modules |-> NoLease]

NoJob == [op |-> "none"]

TypeOK ==
    /\ alloc \in [Modules -> Lease]
    /\ now \in 0 .. MaxNow
    /\ pc \in [Procs -> {"idle", "prune", "plan", "save"}]
    /\ job \in [Procs -> Jobs \cup {NoJob}]
    /\ mem \in [Procs -> [Modules -> Lease]]
    /\ held \in [Modules -> Lease]
    /\ clean \in BOOLEAN

Init ==
    /\ alloc = NoRows /\ held = NoRows
    /\ now = 0
    /\ pc = [p \in Procs |-> "idle"]
    /\ job = [p \in Procs |-> NoJob]
    /\ mem = [p \in Procs |-> NoRows]
    /\ clean = TRUE

-----------------------------------------------------------------------------
Clamp(v, lo, hi) == IF v < lo THEN lo ELSE IF v > hi THEN hi ELSE v

IsExpired(l) == l.until # Never /\ l.until <= now

(* prune_expired.                                                          *)
Live_All(a) == a

Live(a) == [m \in Modules |-> IF IsExpired(a[m]) THEN NoLease ELSE a[m]]

(* sum_allocations, of all modules and of those other than m.              *)
Total(a, M) == SumFunctionOnSet([m \in Modules |-> a[m].cells], M)
Others(a, m) == Total(a, Modules \ {m})

(* hardware_bounds: a failed plan has no profile, and every cap is the     *)
(* pool's own maximum.                                                     *)
GlobalMax(cap) == Max({MinCells, Min({MaxCells, cap})})

(* compute_limits and module_quota_max: max_cells.                         *)
Limit_IgnoresOthers(a, m, cap) == Clamp(Quota[m], 0, GlobalMax(cap))

Limit(a, m, cap) ==
    LET free == Max({0, GlobalMax(cap) - Others(a, m)})
    IN  Min({Clamp(Quota[m], 0, GlobalMax(cap)), free})

(* resolve_lease_expiry.                                                   *)
LeaseEnd(ttl) == IF LeasesEnabled THEN now + Clamp(ttl, MinTtl, MaxTtl) ELSE Never

Granted(a, j, cap) ==
    LET cells == Min({j.cells, Limit(a, j.module, cap)})
    IN  IF cells = 0 THEN NoLease ELSE [cells |-> cells, until |-> LeaseEnd(j.ttl)]

-----------------------------------------------------------------------------
Goto(p, l) == pc' = [pc EXCEPT ![p] = l]

End(p) ==
    /\ Goto(p, "idle")
    /\ job' = [job EXCEPT ![p] = NoJob]
    /\ mem' = [mem EXCEPT ![p] = NoRows]

(* An invocation starts by loading the file.                               *)
Begin(p, j) ==
    /\ pc[p] = "idle"
    /\ job' = [job EXCEPT ![p] = j]
    /\ clean' = (clean /\ \A q \in Procs : pc[q] = "idle")
    /\ UNCHANGED <<alloc, now, held>>

(* cmd_request and cmd_status drop the expired leases and write the rest   *)
(* back at once.                                                           *)
LoadPruned(p, j) ==
    /\ j.op \in {"request", "status"}
    /\ mem' = [mem EXCEPT ![p] = Live(alloc)]
    /\ Goto(p, IF Live(alloc) # alloc THEN "prune" ELSE "plan")
    /\ Begin(p, j)

(* cmd_release keeps them.                                                 *)
LoadToRelease(p, j) ==
    /\ j.op = "release"
    /\ mem' = [mem EXCEPT ![p] = [alloc EXCEPT ![j.module] = NoLease]]
    /\ Goto(p, "save")
    /\ Begin(p, j)

SavePruned(p) ==
    /\ pc[p] = "prune"
    /\ alloc' = mem[p]
    /\ Goto(p, "plan")
    /\ UNCHANGED <<now, job, mem, held, clean>>

(* `let _ = save_state(..)`: a failure is not noticed.                     *)
SavePrunedFails(p) ==
    /\ SaveFails /\ pc[p] = "prune"
    /\ clean' = FALSE
    /\ Goto(p, "plan")
    /\ UNCHANGED <<alloc, now, job, mem, held>>

(* After the hardware plan: status, a request without apply and one that   *)
(* load_autopause blocks only print.                                       *)
Report(p) ==
    /\ pc[p] = "plan"
    /\ End(p)
    /\ UNCHANGED <<alloc, now, held, clean>>

Grant(p) ==
    /\ pc[p] = "plan" /\ job[p].op = "request" /\ job[p].apply
    /\ \E cap \in HardwareCaps \cup {MaxCells} :
         mem' = [mem EXCEPT ![p] = [@ EXCEPT ![job[p].module] = Granted(mem[p], job[p], cap)]]
    /\ Goto(p, "save")
    /\ UNCHANGED <<alloc, now, job, held, clean>>

(* The whole file is replaced, and the module is told.                     *)
Tell(p) == held' = [held EXCEPT ![job[p].module] = mem[p][job[p].module]]

Save_OrInsert(p) ==
    /\ pc[p] = "save"
    /\ alloc' = [mem[p] EXCEPT ![job[p].module] =
                   IF alloc[job[p].module] = NoLease THEN @ ELSE alloc[job[p].module]]
    /\ Tell(p) /\ End(p)
    /\ UNCHANGED <<now, clean>>

Save(p) ==
    /\ pc[p] = "save"
    /\ alloc' = mem[p]
    /\ Tell(p) /\ End(p)
    /\ UNCHANGED <<now, clean>>

SaveFailing(p) ==
    /\ SaveFails /\ pc[p] = "save"
    /\ clean' = FALSE
    /\ Tell(p) /\ End(p)
    /\ UNCHANGED <<alloc, now>>

(* A module gives its cells up when its lease ends.                        *)
Elapse ==
    /\ now < MaxNow
    /\ now' = now + 1
    /\ held' = [m \in Modules |-> IF held[m].until = now' THEN NoLease ELSE held[m]]
    /\ UNCHANGED <<alloc, pc, job, mem, clean>>

-----------------------------------------------------------------------------
Start(p) == \E j \in Jobs : LoadPruned(p, j) \/ LoadToRelease(p, j)

Run(p) ==
    \/ SavePruned(p) \/ SavePrunedFails(p) \/ Report(p) \/ Grant(p)
    \/ Save(p) \/ SaveFailing(p)

Next == (\E p \in Procs : Start(p) \/ Run(p)) \/ Elapse

Spec == Init /\ [][Next]_vars

(* Commands that started end, the clock runs, some caller goes on asking   *)
(* for status or cells, and the disk does not fail for ever.               *)
FairSpec ==
    /\ Spec
    /\ WF_vars(Elapse)
    /\ \A p \in Procs : WF_vars(Run(p))
    /\ SF_vars(\E p \in Procs, j \in Jobs : LoadPruned(p, j))
    /\ SF_vars(\E p \in Procs : SavePruned(p))

-----------------------------------------------------------------------------
(* Properties.                                                             *)

(* The rows of the state file never add up to more than the pool, although *)
(* every process replaces the file with a copy that may be out of date and *)
(* although the hardware plan may shrink, grow or fail in between.         *)
FileWithinPool == Total(alloc, Modules) <= MaxCells

(* While commands do not overlap and saves do not fail, the file records   *)
(* exactly the unexpired leases the modules were told they have.           *)
GrantsRecorded == clean => Live(held) = Live(alloc)

(* An expired lease gives its cells back: it does not stay in the file,    *)
(* even if a process with an old copy brings it back.                      *)
ExpiredLeasesGo == \A m \in Modules : IsExpired(alloc[m]) ~> ~IsExpired(alloc[m])
=============================================================================
