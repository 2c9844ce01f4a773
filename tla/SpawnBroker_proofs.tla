------------------------- MODULE SpawnBroker_proofs -------------------------
(***************************************************************************)
(* Proofs about the spawn broker, for any processes, modules, pool, quotas *)
(* and command lines.  The pool is never exceeded however the processes    *)
(* interleave; the file and the modules agree while they do not.           *)
(***************************************************************************)
EXTENDS SpawnBroker, DataLemmas

(* What a process is doing fits its command line.                          *)
JobsOK ==
    \A p \in Procs :
        /\ pc[p] \in {"prune", "plan"} => job[p].op \in {"request", "status"}
        /\ pc[p] = "save" => job[p].op \in {"request", "release"}

(* The file and every copy of it fit the pool: a copy, however old, may    *)
(* become the file.                                                        *)
WithinPool(a) == Total(a, Modules) <= MaxCells

CopiesWithinPool == \A p \in Procs : WithinPool(mem[p])

PoolInv == TypeOK /\ JobsOK /\ FileWithinPool /\ CopiesWithinPool

(* A lease at time t, and two files that agree on every module.            *)
At(l, t) == IF l.until # Never /\ l.until <= t THEN NoLease ELSE l

Same(a, b, t) == \A m \in Modules : At(a[m], t) = At(b[m], t)

(* While commands do not overlap, one process at most is busy, its copy    *)
(* has the unexpired leases of the file, and all that it changes before it *)
(* saves is the row of its own module.                                     *)
OneBusy == \A p, q \in Procs : pc[p] # "idle" /\ pc[q] # "idle" => p = q

CopySame ==
    \A p \in Procs, m \in Modules :
        \/ pc[p] = "idle"
        \/ pc[p] = "save" /\ m = job[p].module
        \/ At(mem[p][m], now) = At(alloc[m], now)

Clean == clean => OneBusy /\ CopySame /\ Same(held, alloc, now)

-----------------------------------------------------------------------------
(* The operators.                                                          *)

(* The fields of a command line.                                           *)
LEMMA JobFacts ==
    ASSUME NEW j \in Jobs
    PROVE  /\ j.op \in {"request", "release", "status"}
           /\ j.op \in {"request", "release"} => j.module \in Modules
           /\ j.op = "request" => j.cells \in Nat /\ j.ttl \in Int
  BY BrokerAssumption

(* A busy process has one.                                                 *)
LEMMA BusyJob ==
    ASSUME TypeOK, JobsOK, NEW p \in Procs, pc[p] # "idle"
    PROVE  job[p] \in Jobs
  BY DEF TypeOK, JobsOK, NoJob

(* A sum of cells, and the cells of one module apart from the others.      *)
LEMMA TotalNat ==
    ASSUME NEW a \in [Modules -> Lease], NEW M \in SUBSET Modules
    PROVE  Total(a, M) \in Nat
<1>1. IsFiniteSet(M)
  BY BrokerAssumption, FS_Subset
<1> DEFINE f == [m \in Modules |-> a[m].cells]
<1>2. \A m \in M : f[m] \in Nat
  BY BrokerAssumption DEF Lease
<1> HIDE DEF f
<1>3. SumFunctionOnSet(f, M) \in Nat
  BY <1>1, <1>2, SumNat
<1> QED
  BY <1>3 DEF Total, f

LEMMA TotalSplit ==
    ASSUME NEW a \in [Modules -> Lease], NEW m \in Modules, NEW l \in Lease
    PROVE  /\ Total(a, Modules) = a[m].cells + Others(a, m)
           /\ Total([a EXCEPT ![m] = l], Modules) = l.cells + Others(a, m)
<1> DEFINE b == [a EXCEPT ![m] = l]
<1> DEFINE f == [n \in Modules |-> a[n].cells]
<1> DEFINE g == [n \in Modules |-> b[n].cells]
<1>1. IsFiniteSet(Modules) /\ IsFiniteSet(Modules \ {m})
  BY BrokerAssumption, FS_RemoveElement
<1>2. \A n \in Modules : f[n] \in Nat /\ g[n] \in Nat
  BY BrokerAssumption DEF Lease
<1>3. \A n \in Modules \ {m} : g[n] = f[n]
  OBVIOUS
<1>4. f[m] = a[m].cells /\ g[m] = l.cells
  OBVIOUS
<1> HIDE DEF f, g
<1>5. SumFunctionOnSet(f, Modules) = f[m] + SumFunctionOnSet(f, Modules \ {m})
  BY <1>1, <1>2, SumRemove
<1>6. SumFunctionOnSet(g, Modules) = g[m] + SumFunctionOnSet(g, Modules \ {m})
  BY <1>1, <1>2, SumRemove
<1>7. SumFunctionOnSet(g, Modules \ {m}) = SumFunctionOnSet(f, Modules \ {m})
  BY <1>1, <1>3, SumAgrees
<1> QED
  BY <1>4, <1>5, <1>6, <1>7 DEF Total, Others, f, g

(* Dropping leases makes a sum smaller.                                    *)
LEMMA LiveFits ==
    ASSUME NEW a \in [Modules -> Lease], WithinPool(a), now \in Nat
    PROVE  Live(a) \in [Modules -> Lease] /\ WithinPool(Live(a))
<1> DEFINE b == Live(a)
<1> DEFINE f == [n \in Modules |-> a[n].cells]
<1> DEFINE g == [n \in Modules |-> b[n].cells]
<1>1. NoLease \in Lease /\ NoLease.cells = 0
  BY BrokerAssumption DEF NoLease, Lease
<1>2. b \in [Modules -> Lease]
  BY <1>1 DEF Live
<1>3. \A n \in Modules : f[n] \in Nat /\ g[n] \in Nat /\ g[n] <= f[n]
  BY <1>1, BrokerAssumption DEF Live, Lease
<1>4. Total(a, Modules) \in Nat /\ Total(b, Modules) \in Nat
  <2> HIDE DEF b
  <2> QED
    BY <1>2, TotalNat
<1>5. SumFunctionOnSet(g, Modules) <= SumFunctionOnSet(f, Modules)
  <2> HIDE DEF f, g
  <2> QED
    BY <1>3, BrokerAssumption, SumMonotone
<1>6. Total(b, Modules) <= Total(a, Modules)
  BY <1>5 DEF Total
<1> HIDE DEF b
<1>7. WithinPool(b)
  BY <1>4, <1>6, BrokerAssumption DEF WithinPool
<1> QED
  BY <1>2, <1>7 DEF b

LEMMA GlobalMaxBound ==
    ASSUME NEW cap \in HardwareCaps \cup {MaxCells}
    PROVE  GlobalMax(cap) \in Nat /\ GlobalMax(cap) <= MaxCells
<1>1. cap \in Int /\ MaxCells \in Int /\ MinCells \in Int
  BY BrokerAssumption
<1>2. Min({MaxCells, cap}) = IF MaxCells <= cap THEN MaxCells ELSE cap
  BY <1>1, MinOfTwo
<1>3. Min({MaxCells, cap}) \in Int
  BY <1>1, <1>2
<1>4. GlobalMax(cap) = IF MinCells >= Min({MaxCells, cap}) THEN MinCells ELSE Min({MaxCells, cap})
  BY <1>1, <1>3, MaxOfTwo DEF GlobalMax
<1> QED
  BY <1>2, <1>4, BrokerAssumption

(* A grant fits what the other modules of the copy leave of the pool, or   *)
(* is nothing.                                                             *)
LEMMA GrantFits ==
    ASSUME NEW a \in [Modules -> Lease], WithinPool(a), now \in 0 .. MaxNow,
           NEW j \in Jobs, j.op = "request", NEW cap \in HardwareCaps \cup {MaxCells}
    PROVE  /\ Granted(a, j, cap) \in Lease
           /\ WithinPool([a EXCEPT ![j.module] = Granted(a, j, cap)])
<1> DEFINE m == j.module
<1> DEFINE G == GlobalMax(cap)
<1> DEFINE others == Others(a, m)
<1> DEFINE quota == Clamp(Quota[m], 0, G)
<1> DEFINE free == Max({0, G - others})
<1> DEFINE cells == Min({j.cells, Limit(a, m, cap)})
<1> DEFINE l == Granted(a, j, cap)
<1>1. m \in Modules /\ j.cells \in Nat /\ j.ttl \in Int
  BY JobFacts
<1>2. G \in Nat /\ G <= MaxCells
  BY GlobalMaxBound
<1>3. others \in Nat
  BY <1>1, TotalNat DEF Others
<1>4. quota \in Nat /\ quota <= G
  BY <1>1, <1>2, BrokerAssumption DEF Clamp
<1> HIDE DEF G, others
<1>5. free \in Nat /\ (free = 0 \/ free = G - others)
  BY <1>2, <1>3, MaxOfTwo
<1> HIDE DEF quota, free
<1>6. Min({quota, free}) = IF quota <= free THEN quota ELSE free
  BY <1>4, <1>5, MinOfTwo
<1>7. Limit(a, m, cap) = Min({quota, free})
  BY DEF Limit, G, others, quota, free
<1> DEFINE lim == Limit(a, m, cap)
<1>8. lim \in Nat /\ lim <= MaxCells /\ (lim = 0 \/ lim + others <= MaxCells)
  BY <1>2, <1>3, <1>4, <1>5, <1>6, <1>7, BrokerAssumption
<1> HIDE DEF lim, m
<1>9. cells = IF j.cells <= lim THEN j.cells ELSE lim
  BY <1>1, <1>8, MinOfTwo DEF lim
<1>10. /\ cells \in 0 .. MaxCells
       /\ cells = 0 \/ cells + others <= MaxCells
  BY <1>1, <1>3, <1>8, <1>9, BrokerAssumption
<1> HIDE DEF cells
<1>11. LeaseEnd(j.ttl) \in (0 .. MaxNow + MaxTtl) \cup {Never}
  BY <1>1, BrokerAssumption DEF LeaseEnd, Clamp
<1>12. l = IF cells = 0 THEN NoLease ELSE [cells |-> cells, until |-> LeaseEnd(j.ttl)]
  BY DEF Granted, cells, m
<1> HIDE DEF l
<1>13. l \in Lease /\ l.cells = cells
  BY <1>10, <1>11, <1>12, BrokerAssumption DEF Lease, NoLease
<1>14. /\ Total(a, Modules) = a[m].cells + others
       /\ Total([a EXCEPT ![m] = l], Modules) = l.cells + others
  BY <1>1, <1>13, TotalSplit DEF others
<1>15. a[m].cells \in Nat
  BY <1>1, BrokerAssumption DEF Lease
<1>16. l.cells + others <= MaxCells
  BY <1>3, <1>10, <1>13, <1>14, <1>15, BrokerAssumption DEF WithinPool
<1>17. WithinPool([a EXCEPT ![m] = l])
  BY <1>14, <1>16 DEF WithinPool
<1> QED
  BY <1>13, <1>17 DEF l, m

(* Giving a lease up.                                                      *)
LEMMA ReleaseFits ==
    ASSUME NEW a \in [Modules -> Lease], WithinPool(a), NEW m \in Modules
    PROVE  /\ [a EXCEPT ![m] = NoLease] \in [Modules -> Lease]
           /\ WithinPool([a EXCEPT ![m] = NoLease])
<1>1. NoLease \in Lease /\ NoLease.cells = 0
  BY BrokerAssumption DEF NoLease, Lease
<1>2. /\ Total(a, Modules) = a[m].cells + Others(a, m)
      /\ Total([a EXCEPT ![m] = NoLease], Modules) = NoLease.cells + Others(a, m)
  BY <1>1, TotalSplit
<1>3. a[m].cells \in Nat /\ Others(a, m) \in Nat
  BY BrokerAssumption, TotalNat DEF Lease, Others
<1>4. WithinPool([a EXCEPT ![m] = NoLease])
  BY <1>1, <1>2, <1>3, BrokerAssumption DEF WithinPool
<1> QED
  BY <1>1, <1>4

-----------------------------------------------------------------------------
(* The pool.                                                               *)

(* The empty file.                                                         *)
LEMMA NoRowsFit == NoRows \in [Modules -> Lease] /\ WithinPool(NoRows)
<1>1. NoRows \in [Modules -> Lease] /\ \A m \in Modules : NoRows[m].cells = 0
  BY BrokerAssumption DEF NoRows, NoLease, Lease
<1>2. WithinPool(NoRows)
  <2> DEFINE zero == [m \in Modules |-> NoRows[m].cells]
  <2>1. \A m \in Modules : zero[m] = 0
    BY <1>1
  <2> HIDE DEF zero
  <2>2. SumFunctionOnSet(zero, Modules) = 0
    BY <2>1, SumZero, BrokerAssumption
  <2> QED
    BY <2>2, BrokerAssumption DEF WithinPool, Total, zero
<1> QED
  BY <1>1, <1>2

LEMMA PoolInit == Init => PoolInv
<1> SUFFICES ASSUME Init PROVE PoolInv
  OBVIOUS
<1>1. TypeOK
  BY NoRowsFit, BrokerAssumption DEF Init, TypeOK, NoRows
<1>2. JobsOK
  BY DEF Init, JobsOK
<1>3. FileWithinPool /\ CopiesWithinPool
  BY NoRowsFit DEF Init, FileWithinPool, CopiesWithinPool, WithinPool
<1> QED
  BY <1>1, <1>2, <1>3 DEF PoolInv

(* A command ends with an empty copy.                                      *)
LEMMA EndKeeps ==
    ASSUME PoolInv, NEW p \in Procs, End(p)
    PROVE  /\ pc' \in [Procs -> {"idle", "prune", "plan", "save"}]
           /\ job' \in [Procs -> Jobs \cup {NoJob}]
           /\ mem' \in [Procs -> [Modules -> Lease]]
           /\ JobsOK' /\ CopiesWithinPool'
<1>1. NoRows \in [Modules -> Lease] /\ WithinPool(NoRows)
  BY NoRowsFit
<1>2. /\ pc' = [pc EXCEPT ![p] = "idle"]
      /\ job' = [job EXCEPT ![p] = NoJob]
      /\ mem' = [mem EXCEPT ![p] = NoRows]
  BY DEF End, Goto
<1>3. /\ pc' \in [Procs -> {"idle", "prune", "plan", "save"}]
      /\ job' \in [Procs -> Jobs \cup {NoJob}]
      /\ mem' \in [Procs -> [Modules -> Lease]]
  BY <1>1, <1>2 DEF PoolInv, TypeOK
<1>4. JobsOK'
  BY <1>2 DEF PoolInv, TypeOK, JobsOK
<1>5. CopiesWithinPool'
  <2> SUFFICES ASSUME NEW q \in Procs PROVE WithinPool(mem'[q])
    BY DEF CopiesWithinPool, WithinPool, Total
  <2> QED
    BY <1>1, <1>2 DEF PoolInv, TypeOK, CopiesWithinPool
<1> QED
  BY <1>3, <1>4, <1>5

(* A process goes on with a copy that fits and a fitting command line.     *)
LEMMA CopyKeeps ==
    ASSUME PoolInv, NEW p \in Procs, NEW c \in [Modules -> Lease], WithinPool(c),
           NEW j \in Jobs, NEW l \in {"prune", "plan", "save"},
           l \in {"prune", "plan"} => j.op \in {"request", "status"},
           l = "save" => j.op \in {"request", "release"},
           pc' = [pc EXCEPT ![p] = l],
           job' = [job EXCEPT ![p] = j],
           mem' = [mem EXCEPT ![p] = c],
           UNCHANGED <<alloc, now, held>>, clean' \in BOOLEAN
    PROVE  PoolInv'
<1>1. TypeOK'
  BY DEF PoolInv, TypeOK
<1>2. JobsOK'
  BY DEF PoolInv, TypeOK, JobsOK
<1>3. FileWithinPool'
  BY DEF PoolInv, FileWithinPool, Total
<1>4. CopiesWithinPool'
  <2> SUFFICES ASSUME NEW q \in Procs PROVE WithinPool(mem'[q])
    BY DEF CopiesWithinPool, WithinPool, Total
  <2> QED
    BY DEF PoolInv, TypeOK, CopiesWithinPool
<1> QED
  BY <1>1, <1>2, <1>3, <1>4 DEF PoolInv

LEMMA PoolNext == PoolInv /\ [Next]_vars => PoolInv'
<1> SUFFICES ASSUME PoolInv, [Next]_vars PROVE PoolInv'
  OBVIOUS
<1> USE DEF PoolInv
<1>0. now \in Nat /\ now \in 0 .. MaxNow
  BY BrokerAssumption DEF TypeOK
<1>1. ASSUME NEW p \in Procs, NEW j \in Jobs, LoadPruned(p, j) PROVE PoolInv'
  <2>1. Live(alloc) \in [Modules -> Lease] /\ WithinPool(Live(alloc))
    BY <1>0, LiveFits DEF TypeOK, FileWithinPool, WithinPool
  <2>2. PICK l \in {"prune", "plan"} : pc' = [pc EXCEPT ![p] = l]
    BY <1>1 DEF LoadPruned, Goto
  <2>3. /\ j.op \in {"request", "status"}
        /\ job' = [job EXCEPT ![p] = j]
        /\ mem' = [mem EXCEPT ![p] = Live(alloc)]
        /\ UNCHANGED <<alloc, now, held>> /\ clean' \in BOOLEAN
    BY <1>1 DEF LoadPruned, Begin
  <2> HIDE DEF PoolInv
  <2> QED
    BY <2>1, <2>2, <2>3, CopyKeeps
<1>2. ASSUME NEW p \in Procs, NEW j \in Jobs, LoadToRelease(p, j) PROVE PoolInv'
  <2>1. j.op = "release" /\ j.module \in Modules
    BY <1>2, JobFacts DEF LoadToRelease
  <2> DEFINE c == [alloc EXCEPT ![j.module] = NoLease]
  <2>2. c \in [Modules -> Lease] /\ WithinPool(c)
    BY <2>1, ReleaseFits DEF TypeOK, FileWithinPool, WithinPool
  <2>3. /\ pc' = [pc EXCEPT ![p] = "save"]
        /\ job' = [job EXCEPT ![p] = j]
        /\ mem' = [mem EXCEPT ![p] = c]
        /\ UNCHANGED <<alloc, now, held>> /\ clean' \in BOOLEAN
    BY <1>2 DEF LoadToRelease, Begin, Goto
  <2> HIDE DEF PoolInv, c
  <2> QED
    BY <2>1, <2>2, <2>3, CopyKeeps
<1>3. ASSUME NEW p \in Procs, SavePruned(p) PROVE PoolInv'
  <2>1. TypeOK' /\ JobsOK'
    BY <1>3 DEF SavePruned, Goto, TypeOK, JobsOK
  <2>2. FileWithinPool'
    <3>1. WithinPool(mem[p]) /\ alloc' = mem[p]
      BY <1>3 DEF SavePruned, CopiesWithinPool
    <3> QED
      BY <3>1 DEF WithinPool, FileWithinPool, Total
  <2>3. CopiesWithinPool'
    BY <1>3 DEF SavePruned, CopiesWithinPool, WithinPool, Total
  <2> QED
    BY <2>1, <2>2, <2>3
<1>4. ASSUME NEW p \in Procs, SavePrunedFails(p) PROVE PoolInv'
  <2>1. TypeOK' /\ JobsOK'
    BY <1>4 DEF SavePrunedFails, Goto, TypeOK, JobsOK
  <2>2. FileWithinPool' /\ CopiesWithinPool'
    BY <1>4 DEF SavePrunedFails, FileWithinPool, CopiesWithinPool, WithinPool, Total
  <2> QED
    BY <2>1, <2>2
<1>5. ASSUME NEW p \in Procs, Report(p) PROVE PoolInv'
  <2>1. End(p) /\ UNCHANGED <<alloc, now, held, clean>>
    BY <1>5 DEF Report
  <2>2. FileWithinPool'
    BY <2>1 DEF FileWithinPool, Total
  <2>3. TypeOK'
    BY <2>1, EndKeeps DEF TypeOK
  <2> QED
    BY <2>1, <2>2, <2>3, EndKeeps
<1>6. ASSUME NEW p \in Procs, Grant(p) PROVE PoolInv'
  <2>1. /\ pc[p] = "plan" /\ job[p].op = "request"
        /\ pc' = [pc EXCEPT ![p] = "save"]
        /\ UNCHANGED <<alloc, now, job, held, clean>>
    BY <1>6 DEF Grant, Goto
  <2>2. job[p] \in Jobs /\ job[p].module \in Modules /\ mem[p] \in [Modules -> Lease]
    BY <2>1, BusyJob, JobFacts DEF TypeOK
  <2>3. PICK cap \in HardwareCaps \cup {MaxCells} :
          mem' = [mem EXCEPT ![p] = [@ EXCEPT ![job[p].module] = Granted(mem[p], job[p], cap)]]
    BY <1>6 DEF Grant
  <2> DEFINE c == [mem[p] EXCEPT ![job[p].module] = Granted(mem[p], job[p], cap)]
  <2>4. Granted(mem[p], job[p], cap) \in Lease /\ WithinPool(c)
    BY <1>0, <2>1, <2>2, GrantFits DEF CopiesWithinPool
  <2>5. c \in [Modules -> Lease]
    BY <2>2, <2>4
  <2>6. mem' = [mem EXCEPT ![p] = c]
    BY <2>3
  <2>7. job' = [job EXCEPT ![p] = job[p]]
    BY <2>1 DEF TypeOK
  <2>8. clean' \in BOOLEAN
    BY <2>1 DEF TypeOK
  <2> HIDE DEF PoolInv, c
  <2> QED
    BY <2>1, <2>2, <2>4, <2>5, <2>6, <2>7, <2>8, CopyKeeps
<1>7. ASSUME NEW p \in Procs, Tell(p), End(p), pc[p] = "save",
             alloc' = mem[p] \/ alloc' = alloc, now' = now, clean' \in BOOLEAN
      PROVE  PoolInv'
  <2>1. job[p].module \in Modules
    BY <1>7, BusyJob, JobFacts DEF JobsOK
  <2>2. held' \in [Modules -> Lease]
    BY <1>7, <2>1 DEF Tell, TypeOK
  <2>3. TypeOK'
    BY <1>7, <2>2, EndKeeps DEF TypeOK
  <2>4. FileWithinPool'
    BY <1>7 DEF FileWithinPool, CopiesWithinPool, WithinPool, Total
  <2> QED
    BY <1>7, <2>3, <2>4, EndKeeps
<1>8. CASE Elapse
  <2>1. NoLease \in Lease
    BY BrokerAssumption DEF NoLease, Lease
  <2>2. held' \in [Modules -> Lease]
    BY <1>8, <2>1 DEF Elapse, TypeOK
  <2>3. TypeOK'
    BY <1>8, <2>2, BrokerAssumption DEF Elapse, TypeOK
  <2>4. JobsOK' /\ FileWithinPool' /\ CopiesWithinPool'
    BY <1>8 DEF Elapse, JobsOK, FileWithinPool, CopiesWithinPool, WithinPool, Total
  <2> QED
    BY <2>3, <2>4
<1>9. CASE UNCHANGED vars
  BY <1>9 DEF vars, TypeOK, JobsOK, FileWithinPool, CopiesWithinPool, WithinPool, Total
<1>10. ASSUME NEW p \in Procs, Save(p) \/ SaveFailing(p) PROVE PoolInv'
  BY <1>7, <1>10 DEF Save, SaveFailing, TypeOK
<1> QED
  BY <1>1, <1>2, <1>3, <1>4, <1>5, <1>6, <1>8, <1>9, <1>10 DEF Next, Start, Run

(* Every state of every behaviour has its type.                            *)
THEOREM Typed == Spec => []TypeOK
<1>1. PoolInv => TypeOK
  BY DEF PoolInv
<1> QED
  BY <1>1, PoolInit, PoolNext, PTL DEF Spec

(* The leases in the file never exceed the pool.                           *)
THEOREM PoolSafe == Spec => []FileWithinPool
<1>1. PoolInv => FileWithinPool
  BY DEF PoolInv
<1> QED
  BY <1>1, PoolInit, PoolNext, PTL DEF Spec

-----------------------------------------------------------------------------
(* What the modules know.                                                  *)

(* Leases that agree go on agreeing as time passes, also if the holder of  *)
(* one gives it up at its end.                                             *)
LEMMA AgreeLater ==
    ASSUME NEW x \in Lease, NEW y \in Lease, NEW t \in Nat, At(x, t) = At(y, t)
    PROVE  /\ At(x, t + 1) = At(y, t + 1)
           /\ At(IF x.until = t + 1 THEN NoLease ELSE x, t + 1) = At(y, t + 1)
<1>1. /\ x.until \in Int \cup {Never} /\ y.until \in Int \cup {Never}
      /\ NoLease.until = Never /\ Never \notin Int
  BY BrokerAssumption DEF Lease, NoLease
<1>2. At(x, t + 1) = At(y, t + 1)
  BY <1>1 DEF At
<1>3. At(IF x.until = t + 1 THEN NoLease ELSE x, t + 1) = At(x, t + 1)
  BY <1>1 DEF At
<1> QED
  BY <1>2, <1>3

(* GrantsRecorded, lease by lease.                                         *)
LEMMA Leasewise == (Live(held) = Live(alloc)) <=> Same(held, alloc, now)
<1>1. \A a, m : m \in Modules => Live(a)[m] = At(a[m], now)
  BY DEF Live, IsExpired, At
<1>2. (Live(held) = Live(alloc)) <=> \A m \in Modules : Live(held)[m] = Live(alloc)[m]
  BY DEF Live
<1> QED
  BY <1>1, <1>2 DEF Same

(* Every step keeps Clean.                                                 *)
LEMMA CleanNext ==
    ASSUME TypeOK, JobsOK, Clean, [Next]_vars
    PROVE  Clean'
<1> USE DEF OneBusy, CopySame, Same, Clean
<1>0. now \in Nat
  BY BrokerAssumption DEF TypeOK
<1>1. \A t, l : At(At(l, t), t) = At(l, t)
  BY DEF At, NoLease
<1>2. ASSUME NEW p \in Procs, NEW j \in Jobs, LoadPruned(p, j) PROVE Clean'
  <2>1. \A m \in Modules : Live(alloc)[m] = At(alloc[m], now)
    BY DEF Live, IsExpired, At
  <2>2. \A m \in Modules : At(mem'[p][m], now) = At(alloc[m], now)
    BY <1>1, <1>2, <2>1 DEF LoadPruned, TypeOK
  <2> QED
    BY <1>2, <2>2 DEF LoadPruned, Begin, Goto, TypeOK
<1>3. ASSUME NEW p \in Procs, NEW j \in Jobs, LoadToRelease(p, j) PROVE Clean'
  BY <1>3 DEF LoadToRelease, Begin, Goto, TypeOK
<1>4. ASSUME NEW p \in Procs, SavePruned(p) PROVE Clean'
  BY <1>4 DEF SavePruned, Goto, TypeOK
<1>5. ASSUME NEW p \in Procs, Report(p) PROVE Clean'
  BY <1>5 DEF Report, End, Goto, TypeOK
<1>6. ASSUME NEW p \in Procs, Grant(p) PROVE Clean'
  BY <1>6 DEF Grant, Goto, TypeOK
<1>7. ASSUME NEW p \in Procs, Save(p) PROVE Clean'
  <2>1. job[p].module \in Modules
    BY <1>7, BusyJob, JobFacts DEF Save, JobsOK
  <2> QED
    BY <1>7, <2>1 DEF Save, Tell, End, Goto, TypeOK
<1>8. ASSUME NEW p \in Procs, SavePrunedFails(p) \/ SaveFailing(p) PROVE Clean'
  BY <1>8 DEF SavePrunedFails, SaveFailing
<1>9. CASE Elapse
  <2> SUFFICES ASSUME clean, OneBusy, CopySame, Same(held, alloc, now) PROVE Clean'
    BY <1>9 DEF Elapse
  <2>1. now' = now + 1 /\ UNCHANGED <<alloc, pc, job, mem, clean>>
    BY <1>9 DEF Elapse
  <2>2. \A m \in Modules : held'[m] = IF held[m].until = now + 1 THEN NoLease ELSE held[m]
    BY <1>9, <2>1 DEF Elapse
  <2>3. \A m \in Modules : At(held'[m], now') = At(alloc[m], now')
    BY <1>0, <2>1, <2>2, AgreeLater DEF TypeOK
  <2>4. ASSUME NEW p \in Procs, NEW m \in Modules, At(mem[p][m], now) = At(alloc[m], now)
        PROVE  At(mem[p][m], now') = At(alloc[m], now')
    BY <1>0, <2>1, <2>4, AgreeLater DEF TypeOK
  <2> QED
    BY <2>1, <2>3, <2>4
<1>10. CASE UNCHANGED vars
  BY <1>10 DEF vars
<1> QED
  BY <1>2, <1>3, <1>4, <1>5, <1>6, <1>7, <1>8, <1>9, <1>10 DEF Next, Start, Run

(* While no two commands overlap and no save fails, the file has exactly   *)
(* the unexpired leases the modules were told of.                          *)
THEOREM LeasesAgree == Spec => []GrantsRecorded
<1>1. Init => PoolInv /\ Clean
  BY PoolInit DEF Init, Clean, OneBusy, CopySame, Same
<1>2. PoolInv /\ Clean /\ [Next]_vars => (PoolInv /\ Clean)'
  BY PoolNext, CleanNext DEF PoolInv
<1>3. PoolInv /\ Clean => GrantsRecorded
  BY Leasewise DEF Clean, GrantsRecorded
<1> QED
  BY <1>1, <1>2, <1>3, PTL DEF Spec
=============================================================================
