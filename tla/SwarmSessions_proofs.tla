------------------------ MODULE SwarmSessions_proofs ------------------------
(***************************************************************************)
(* The inductive invariant of the session table, action by action, and the *)
(* theorems that follow from it for every set of sessions, every budget    *)
(* and every tool plan.                                                    *)
(***************************************************************************)
EXTENDS SwarmSessions_lemmas

(* The sessions a tick has still to visit are persistent and have rows,    *)
(* and only a tick has any.                                                *)
TodoOK ==
    /\ pc \notin {"autotick", "tick"} => todo = {}
    /\ \A s \in todo : IsPersistent(sess[s]) /\ sess[s].status \notin NoRow

IInv == TypeOK /\ TablesOK(sess, tele) /\ TodoOK

-----------------------------------------------------------------------------
(* The new values of a row, each in its frames.                            *)

(* A failed check-in.                                                      *)
LEMMA FailedRow ==
    ASSUME NEW r \in Session, IsPersistent(r), r.status \notin NoRow
    PROVE  LET n == [r EXCEPT !.status = "failed"]
           IN  n \in Session /\ Frame(r, n) /\ ThornFrame(r, n) /\ n.terminated = r.terminated
<1> DEFINE n == [r EXCEPT !.status = "failed"]
<1>1. "failed" \in Status /\ "failed" \notin NoRow \cup {"quarantined_thorn"}
  BY DEF Status, NoRow
<1>2. n \in Session
  BY <1>1 DEF Session
<1>3. /\ n.status = "failed" /\ n.kind = r.kind /\ n.parent = r.parent /\ n.res = r.res
      /\ n.settled = r.settled /\ n.prev = r.prev /\ n.terminated = r.terminated
      /\ n.target = r.target
  BY DEF Session
<1> QED
  BY <1>1, <1>2, <1>3 DEF Frame, ThornFrame, IsPersistent

(* A check-in that was made.                                               *)
LEMMA CheckedInRow ==
    ASSUME NEW r \in Session, NEW k \in Nat
    PROVE  LET n == [r EXCEPT !.checkIn = k]
           IN  n \in Session /\ Frame(r, n) /\ ThornFrame(r, n) /\ n.terminated = r.terminated
<1> DEFINE n == [r EXCEPT !.checkIn = k]
<1>1. n \in Session
  BY DEF Session
<1>2. /\ n.status = r.status /\ n.kind = r.kind /\ n.parent = r.parent /\ n.res = r.res
      /\ n.settled = r.settled /\ n.prev = r.prev /\ n.terminated = r.terminated
      /\ n.target = r.target
  BY DEF Session
<1> QED
  BY <1>1, <1>2 DEF Frame, ThornFrame

(* sessions_resume.                                                        *)
LEMMA ResumedRowFrame ==
    ASSUME NEW r \in Session, IsPersistent(r), r.status \notin NoRow
    PROVE  LET n == ResumedRow(r)
           IN  n \in Session /\ Frame(r, n) /\ ThornFrame(r, n) /\ n.terminated = r.terminated
<1> DEFINE st == IF r.kind = "background" THEN "background_running" ELSE "persistent_running"
<1> DEFINE m == [r EXCEPT !.reachable = TRUE]
<1> DEFINE n == [r EXCEPT !.reachable = TRUE, !.checkIn = CheckInInterval, !.status = st]
<1>1. st \notin NoRow \cup {"quarantined_thorn"}
  BY DEF NoRow
<1>2. ResumedRow(r) = m \/ ResumedRow(r) = n
  BY DEF ResumedRow
<1> HIDE DEF st
<1>3. /\ m.status = r.status /\ m.kind = r.kind /\ m.parent = r.parent /\ m.res = r.res
      /\ m.settled = r.settled /\ m.prev = r.prev /\ m.terminated = r.terminated
      /\ m.target = r.target
  BY DEF Session
<1>4. /\ n.status = st /\ n.kind = r.kind /\ n.parent = r.parent /\ n.res = r.res
      /\ n.settled = r.settled /\ n.prev = r.prev /\ n.terminated = r.terminated
      /\ n.target = r.target
  BY DEF Session
<1> HIDE DEF m, n
<1>5. Frame(r, m) /\ ThornFrame(r, m)
  BY <1>3 DEF Frame, ThornFrame
<1>6. Frame(r, n) /\ ThornFrame(r, n)
  BY <1>1, <1>4 DEF Frame, ThornFrame, IsPersistent
<1> QED
  BY <1>2, <1>3, <1>4, <1>5, <1>6, ResumedRowTyped

(* The end of a session, before it settles.                                *)
LEMMA EndRowFrame ==
    ASSUME NEW r \in Session, IsPersistent(r), r.status \notin NoRow, NEW st \in Stopped
    PROVE  LET n == EndRow(r, st)
           IN  /\ n \in Session /\ Frame(r, n) /\ ThornFrame(r, n)
               /\ n.terminated /\ IsPersistent(n) /\ n.status \notin NoRow
<1> DEFINE n == EndRow(r, st)
<1> DEFINE h == SetHealth(r, "unhealthy")
<1>1. st \in Status /\ st \notin NoRow \cup {"quarantined_thorn"}
  BY DEF Status, Stopped, NoRow
<1>2. n \in Session
  BY <1>1, EndRowTyped
<1>3. n = [r EXCEPT !.status = st, !.terminated = TRUE, !.service = h]
  BY DEF EndRow
<1> HIDE DEF n, h
<1>4. /\ n.status = st /\ n.kind = r.kind /\ n.parent = r.parent /\ n.res = r.res
      /\ n.settled = r.settled /\ n.prev = r.prev /\ n.terminated
      /\ n.target = r.target
  BY <1>3 DEF Session
<1> QED
  BY <1>1, <1>2, <1>4 DEF Frame, ThornFrame, IsPersistent, n

-----------------------------------------------------------------------------
(* Steps made of a single row's change.                                    *)

(* A denied check-in of any command: the row fails, and the plan's first   *)
(* tool may have been booked.                                              *)
LEMMA FailStep ==
    ASSUME TablesOK(sess, tele), NEW s \in Ids, IsPersistent(sess[s]),
           sess[s].status \notin NoRow
    PROVE  TablesOK([sess EXCEPT ![s].status = "failed"], [tele EXCEPT ![s] = ApplyToolPlan(@)])
<1> DEFINE r == [sess[s] EXCEPT !.status = "failed"]
<1> DEFINE tf == [tele EXCEPT ![s] = ApplyToolPlan(tele[s])]
<1>1. sess[s] \in Session /\ tele[s] \in Telemetry /\ Balanced(tele[s]) /\ LedgersOK(tele)
  BY DEF TablesOK, RowsOK, LedgersOK
<1>2. r \in Session /\ Frame(sess[s], r) /\ ThornFrame(sess[s], r) /\ r.terminated = sess[s].terminated
  BY <1>1, FailedRow
<1>3. Booked(tele[s], ApplyToolPlan(tele[s]))
  BY <1>1, PlanKeepsLedger
<1>4. LedgersOK(tf) /\ \A q \in Ids : LedgerFrame(tele[q], tf[q])
  BY <1>1, <1>3, BookKeepsLedgers
<1> HIDE DEF r, tf
<1>5. TablesOK([sess EXCEPT ![s] = r], tf)
  BY <1>2, <1>4, RowStep
<1> QED
  BY <1>5 DEF r, tf

(* A check-in that goes through.                                           *)
LEMMA CheckInStep ==
    ASSUME TablesOK(sess, tele), NEW s \in Ids, NEW k \in Nat
    PROVE  TablesOK([sess EXCEPT ![s].checkIn = k], [tele EXCEPT ![s] = ApplyToolPlan(@)])
<1> DEFINE r == [sess[s] EXCEPT !.checkIn = k]
<1> DEFINE tf == [tele EXCEPT ![s] = ApplyToolPlan(tele[s])]
<1>1. sess[s] \in Session /\ tele[s] \in Telemetry /\ Balanced(tele[s]) /\ LedgersOK(tele)
  BY DEF TablesOK, RowsOK, LedgersOK
<1>2. r \in Session /\ Frame(sess[s], r) /\ ThornFrame(sess[s], r) /\ r.terminated = sess[s].terminated
  BY <1>1, CheckedInRow
<1>3. Booked(tele[s], ApplyToolPlan(tele[s]))
  BY <1>1, PlanKeepsLedger
<1>4. LedgersOK(tf) /\ \A q \in Ids : LedgerFrame(tele[q], tf[q])
  BY <1>1, <1>3, BookKeepsLedgers
<1> HIDE DEF r, tf
<1>5. TablesOK([sess EXCEPT ![s] = r], tf)
  BY <1>2, <1>4, RowStep
<1> QED
  BY <1>5 DEF r, tf

(* Finalization and termination: the row ends, then settles.               *)
LEMMA EndStep ==
    ASSUME TablesOK(sess, tele), NEW s \in Ids, IsPersistent(sess[s]),
           sess[s].status \notin NoRow, NEW st \in Stopped,
           NEW te, te = tele \/ te = [tele EXCEPT ![s] = ApplyToolPlan(@)]
    PROVE  LET e == SettleBudgetReservation([sess EXCEPT ![s] = EndRow(@, st)], te, s)
           IN  TablesOK(e[1], e[2])
<1> DEFINE r == EndRow(sess[s], st)
<1> DEFINE sf == [sess EXCEPT ![s] = r]
<1> DEFINE e == SettleBudgetReservation(sf, te, s)
<1>1. sess[s] \in Session /\ tele[s] \in Telemetry /\ Balanced(tele[s]) /\ LedgersOK(tele)
  BY DEF TablesOK, RowsOK, LedgersOK
<1>2. /\ r \in Session /\ Frame(sess[s], r) /\ ThornFrame(sess[s], r)
      /\ r.terminated /\ IsPersistent(r) /\ r.status \notin NoRow
  BY <1>1, EndRowFrame
<1>3. Booked(tele[s], ApplyToolPlan(tele[s]))
  BY <1>1, PlanKeepsLedger
<1>4. LedgersOK(te) /\ \A q \in Ids : LedgerFrame(tele[q], te[q])
  <2>1. CASE te = tele
    BY <1>1, <2>1 DEF LedgerFrame
  <2>2. CASE te = [tele EXCEPT ![s] = ApplyToolPlan(@)]
    BY <1>1, <1>3, <2>2, BookKeepsLedgers
  <2> QED
    BY <2>1, <2>2
<1> HIDE DEF r
<1>5. RowsOK(sf)
  BY <1>2, SetRow DEF TablesOK
<1>6. \A c \in Ids : sf[c] = IF c = s THEN r ELSE sess[c]
  BY DEF TablesOK, RowsOK
<1> HIDE DEF sf
<1>7. /\ \A c \in Ids : Frame(sess[c], sf[c])
      /\ \A c \in Ids : ThornFrame(sess[c], sf[c])
  BY <1>2, <1>6 DEF Frame, ThornFrame
<1>8. BudgetInv(sf, te)
  BY <1>4, <1>7, FrameKeepsBudget DEF TablesOK
<1>9. ThornInv(sf)
  BY <1>7, FrameKeepsThorn DEF TablesOK
<1>10. RowsOK(e[1]) /\ LedgersOK(e[2])
  BY <1>4, <1>5, <1>8, BookedChild, SettleTyped
<1>11. /\ BudgetInv(e[1], e[2]) /\ ~Unsettled(e[1][s])
       /\ \A c \in Ids : c # s => e[1][c] = sf[c]
  BY <1>2, <1>4, <1>5, <1>6, <1>8, SettleKeepsBudget
<1>12. ThornInv(e[1])
  BY <1>5, <1>9, SettleThorn
<1> HIDE DEF e
<1>13. Done(e[1])
  BY <1>6, <1>11 DEF Done, TablesOK
<1> QED
  BY <1>10, <1>11, <1>12, <1>13 DEF TablesOK, e, sf, r
-----------------------------------------------------------------------------
(* The prelude of an invocation.                                           *)

(* Expired thorn cells are drained on well-formed tables.                  *)
LEMMA DrainStep ==
    ASSUME NEW se, NEW te, TablesOK(se, te)
    PROVE  LET sf == DrainExpiredThornCells(se)
           IN  TablesOK(sf, te) /\ \A s \in Ids : Frame(se[s], sf[s])
<1> DEFINE T == {se[c].target : c \in {d \in ActiveThorns(se) : se[d].ttl = 0}}
<1> DEFINE sf == DrainExpiredThornCells(se)
<1>1. RowsOK(se) /\ ThornInv(se) /\ \A g \in T : Guarded(se, g)
  BY DEF TablesOK, Guarded
<1>2. sf = ReleaseThornCells(se, T)
  BY DEF DrainExpiredThornCells
<1> HIDE DEF T, sf
<1>3. RowsOK(sf) /\ ThornInv(sf)
  BY <1>1, <1>2, ReleaseTyped, ReleaseKeepsThorn
<1>4. \A s \in Ids : Frame(se[s], sf[s]) /\ sf[s].terminated = se[s].terminated
  BY <1>1, <1>2, ReleaseFrame
<1>5. LedgersOK(te) /\ \A q \in Ids : LedgerFrame(te[q], te[q])
  BY DEF TablesOK, LedgerFrame
<1>6. TablesOK(sf, te)
  BY <1>3, <1>4, <1>5, QuietStep
<1> QED
  BY <1>4, <1>6 DEF sf

(* recover_persistent_sessions_after_reload and then the drain.            *)
LEMMA PreludeStep ==
    ASSUME NEW se, NEW te, TablesOK(se, te)
    PROVE  TablesOK(DrainExpiredThornCells(RecoverPersistent(se)), te)
<1> DEFINE sf == RecoverPersistent(se)
<1>1. RowsOK(sf) /\ RowsOK(se) /\ ThornInv(se)
  BY RecoverTyped DEF TablesOK
<1>2. ASSUME NEW s \in Ids
      PROVE  Frame(se[s], sf[s]) /\ ThornFrame(se[s], sf[s])
               /\ sf[s].terminated = se[s].terminated
  <2>1. /\ Frame(se[s], sf[s])
        /\ sf[s].status = se[s].status /\ sf[s].prev = se[s].prev
        /\ sf[s].target = se[s].target /\ sf[s].kind = se[s].kind
    BY <1>1, RecoverFrame
  <2>2. sf[s].terminated = se[s].terminated
    BY <1>1, RecoverEnds
  <2> QED
    BY <2>1, <2>2 DEF ThornFrame
<1> HIDE DEF sf
<1>3. ThornInv(sf)
  BY <1>1, <1>2, FrameKeepsThorn
<1>4. LedgersOK(te) /\ \A q \in Ids : LedgerFrame(te[q], te[q])
  BY DEF TablesOK, LedgerFrame
<1>5. TablesOK(sf, te)
  BY <1>1, <1>2, <1>3, <1>4, QuietStep
<1> QED
  BY <1>5, DrainStep DEF sf

(* The sessions of a tick are persistent rows.                             *)
LEMMA PersistentRows ==
    ASSUME NEW se
    PROVE  /\ PersistentIds(se) \subseteq Ids
           /\ \A s \in PersistentIds(se) : IsPersistent(se[s]) /\ se[s].status \notin NoRow
BY DEF PersistentIds, Persistent, NoRow

-----------------------------------------------------------------------------
(* Spawns.                                                                 *)

(* What reserve_budget_from_parent grants fits into what the parent has    *)
(* left, and is never nothing.                                             *)
LEMMA GrantFits ==
    ASSUME LedgersOK(tele), NEW p \in Ids \cup {None}, NEW b \in Nat, ReserveGranted(p, b)
    PROVE  /\ BudgetParent(p) \in {p, None} /\ BudgetParent(p) \in Ids \cup {None}
           /\ Granted(p, b) \in Nat
           /\ BudgetParent(p) \in Ids =>
                 Granted(p, b) # 0 /\ tele[p].used + Granted(p, b) <= tele[p].max
<1>0. None \notin Ids
  BY SessionsAssumption
<1>1. BudgetParent(p) \in {p, None} /\ BudgetParent(p) \in Ids \cup {None}
  BY DEF BudgetParent
<1>2. CASE BudgetParent(p) = None
  BY <1>0, <1>1, <1>2 DEF Granted
<1>3. CASE BudgetParent(p) # None
  <2>1. p \in Ids /\ BudgetParent(p) = p
    BY <1>1, <1>3
  <2>2. tele[p].used \in Nat /\ tele[p].max \in Nat /\ tele[p].reserved \in Nat
    BY <2>1 DEF LedgersOK, Telemetry
  <2>3. RemainingTokens(tele[p]) > 0 /\ b <= RemainingTokens(tele[p])
    BY <1>3 DEF ReserveGranted
  <2>4. /\ RemainingTokens(tele[p]) \in Nat
        /\ tele[p].used + RemainingTokens(tele[p]) <= tele[p].max
    BY <2>2, <2>3 DEF RemainingTokens, Monus
  <2>5. Granted(p, b) = IF b = 0 THEN RemainingTokens(tele[p]) ELSE b
    BY <1>3 DEF Granted, NoBudget
  <2>6. Granted(p, b) \in Nat /\ Granted(p, b) # 0 /\ Granted(p, b) <= RemainingTokens(tele[p])
    BY <2>3, <2>4, <2>5
  <2> QED
    BY <1>1, <2>2, <2>4, <2>6
<1> QED
  BY <1>2, <1>3

(* The telemetry of a new session: nothing used, nothing held.             *)
LEMMA FreshLedgerTyped ==
    ASSUME NEW g \in Nat, NEW a \in BudgetAction
    PROVE  LET n == FreshLedger(g, a)
           IN  /\ n \in Telemetry /\ Balanced(n) /\ n.max = g /\ n.used = 0 /\ n.settled = 0
               /\ \A d \in Ids : n.held[d] = 0
<1>1. CASE g = NoBudget
  <2>1. FreshLedger(g, a) = NoTelemetry
    BY <1>1 DEF FreshLedger
  <2>2. /\ NoTelemetry.max = 0 /\ NoTelemetry.used = 0 /\ NoTelemetry.settled = 0
        /\ \A d \in Ids : NoTelemetry.held[d] = 0
    BY DEF NoTelemetry
  <2> QED
    BY <1>1, <2>1, <2>2, EmptyLedger DEF NoBudget
<1>2. CASE g # NoBudget
  BY <1>2, FreshTelemetry DEF FreshLedger
<1> QED
  BY <1>1, <1>2

(* ... and once its first plan has run it is still within its grant.       *)
LEMMA FirstPlan ==
    ASSUME NEW g \in Nat, NEW a \in BudgetAction
    PROVE  LET n == ApplyToolPlan(FreshLedger(g, a))
           IN  /\ n \in Telemetry /\ Balanced(n) /\ n.max = g /\ n.used <= g /\ n.settled = 0
               /\ \A d \in Ids : n.held[d] = 0
<1> DEFINE t == FreshLedger(g, a)
<1> DEFINE n == ApplyToolPlan(t)
<1>1. /\ t \in Telemetry /\ Balanced(t) /\ t.max = g /\ t.used = 0 /\ t.settled = 0
      /\ \A d \in Ids : t.held[d] = 0
  BY FreshLedgerTyped
<1> HIDE DEF t
<1>2. Booked(t, n)
  BY <1>1, PlanKeepsLedger
<1> HIDE DEF n
<1>3. n.used \in Nat /\ n.max \in Nat
  BY <1>2 DEF Booked, Telemetry
<1> QED
  BY <1>1, <1>2, <1>3 DEF Booked, n, t

(* Nobody holds anything for an identifier that was not issued.            *)
LEMMA NoHoldYet ==
    ASSUME BudgetInv(sess, tele), NEW s \in Ids, sess[s].status = "absent"
    PROVE  \A q \in Ids : tele[q].held[s] = 0
<1>1. sess[s].parent = None /\ None \notin Ids
  BY SessionsAssumption DEF BudgetInv, Blank, NoRow
<1> QED
  BY <1>1 DEF BudgetInv, HoldMatches

(* The parent's book after a reservation.                                  *)
LEMMA HeldTable ==
    ASSUME LedgersOK(tele), NEW s \in Ids, NEW p \in Ids \cup {None}, NEW k \in Nat,
           \A q \in Ids : tele[q].held[s] = 0
    PROVE  LET h == ReserveBudgetFromParent(tele, s, p, k)
           IN  /\ LedgersOK(h)
               /\ BudgetParent(p) \in Ids => Held(tele[p], h[p], s, k)
               /\ \A q \in Ids : q # BudgetParent(p) => h[q] = tele[q]
<1>0. None \notin Ids
  BY SessionsAssumption
<1>1. CASE BudgetParent(p) = None
  BY <1>0, <1>1 DEF ReserveBudgetFromParent
<1>2. CASE BudgetParent(p) # None
  <2>1. p \in Ids /\ BudgetParent(p) = p
    BY <1>2 DEF BudgetParent
  <2> DEFINE n == HoldFor(tele[p], s, k)
  <2>2. ReserveBudgetFromParent(tele, s, p, k) = [tele EXCEPT ![p] = n]
    BY <1>2 DEF ReserveBudgetFromParent
  <2>3. tele[p] \in Telemetry /\ Balanced(tele[p]) /\ tele \in [Ids -> Telemetry]
    BY <2>1 DEF LedgersOK
  <2>4. Held(tele[p], n, s, k)
    BY <2>1, <2>3, HoldKeepsLedger
  <2> HIDE DEF n
  <2>5. LedgersOK([tele EXCEPT ![p] = n])
    BY <2>1, <2>4, SetLedger DEF Held
  <2>6. [tele EXCEPT ![p] = n][p] = n /\ \A q \in Ids : q # p => [tele EXCEPT ![p] = n][q] = tele[q]
    BY <2>1, <2>3
  <2> QED
    BY <2>1, <2>2, <2>4, <2>5, <2>6
<1> QED
  BY <1>1, <1>2

(* A row that a spawn under p with budget flag b may insert.               *)
SpawnRow(n, p, b) ==
    /\ n \in Session /\ n.parent = BudgetParent(p)
    /\ n.res = (IF BudgetParent(p) = None THEN 0 ELSE Granted(p, b))
    /\ n.prev = "absent" /\ ~n.settled /\ ~n.terminated
    /\ n.kind # "thorn" /\ n.status \notin {"quarantined_thorn"}

(* The row spawn_single and spawn_persistent_session start from.           *)
LEMMA NewRowSound ==
    ASSUME TablesOK(sess, tele), NEW p \in Ids \cup {None}, NEW b \in Nat,
           ReserveGranted(p, b), NEW role \in BOOLEAN
    PROVE  SpawnRow(NewRow(p, b, role), p, b)
<1> DEFINE d == SpawnDepth(p)
<1> DEFINE q == BudgetParent(p)
<1> DEFINE k == IF q = None THEN 0 ELSE Granted(p, b)
<1> DEFINE h == IF role THEN "healthy" ELSE "none"
<1> DEFINE n == NewRow(p, b, role)
<1>1. q \in Ids \cup {None} /\ Granted(p, b) \in Nat
  BY GrantFits DEF TablesOK
<1>2. d \in Nat
  BY DEF SpawnDepth, TablesOK, RowsOK, Session
<1>3. k \in Nat /\ h \in {"none", "healthy", "unhealthy"} /\ p \in Ids \cup {None}
  BY <1>1
<1>4. n = [AbsentRow EXCEPT !.reachable = TRUE, !.depth = d, !.up = p, !.parent = q,
                            !.res = k, !.service = h]
  BY DEF NewRow
<1>5. k = IF q = None THEN 0 ELSE Granted(p, b)
  OBVIOUS
<1>6. q = BudgetParent(p)
  OBVIOUS
<1> HIDE DEF d, q, k, h, n
<1>7. n \in Session
  BY <1>1, <1>2, <1>3, <1>4, AbsentRowTyped DEF Session
<1>8. /\ n.parent = q /\ n.res = k /\ n.prev = "absent" /\ ~n.settled /\ ~n.terminated
      /\ n.kind = "task" /\ n.status = "absent"
  BY <1>4 DEF AbsentRow
<1> QED
  BY <1>5, <1>6, <1>7, <1>8 DEF SpawnRow, n

(* The rows of spawn_single: running, unreachable, or failed.              *)
LEMMA TaskRow ==
    ASSUME NEW p, NEW b, NEW m, SpawnRow(m, p, b), NEW st \in {"failed", "running"},
           NEW up \in BOOLEAN
    PROVE  LET n == [m EXCEPT !.reachable = up, !.status = st]
           IN  SpawnRow(n, p, b) /\ n.status \notin NoRow
<1> DEFINE n == [m EXCEPT !.reachable = up, !.status = st]
<1>1. st \in Status /\ st \notin NoRow /\ st # "quarantined_thorn" /\ m \in Session
  BY DEF Status, Running, NoRow, SpawnRow
<1>2. n \in Session
  BY <1>1 DEF Session
<1>3. /\ n.parent = m.parent /\ n.res = m.res /\ n.prev = m.prev /\ n.settled = m.settled
      /\ n.terminated = m.terminated /\ n.kind = m.kind /\ n.status = st
  BY <1>1 DEF Session
<1> HIDE DEF n
<1> QED
  BY <1>1, <1>2, <1>3 DEF SpawnRow, n

(* The row of spawn_persistent_session.                                    *)
LEMMA PersistentRow ==
    ASSUME NEW p, NEW b, NEW m, SpawnRow(m, p, b), NEW st \in Persistent,
           NEW kind \in {"persistent", "background"}, NEW life \in Nat, NEW ci \in Nat
    PROVE  LET n == [m EXCEPT !.kind = kind, !.lifespan = life, !.checkIn = ci, !.status = st]
           IN  SpawnRow(n, p, b) /\ n.status \notin NoRow
<1> DEFINE n == [m EXCEPT !.kind = kind, !.lifespan = life, !.checkIn = ci, !.status = st]
<1>1. /\ st \in Status /\ st \notin NoRow /\ st # "quarantined_thorn" /\ m \in Session
      /\ kind \in Kinds
  BY DEF Status, Running, Persistent, NoRow, SpawnRow, Kinds
<1>2. n \in Session
  BY <1>1 DEF Session
<1>3. /\ n.parent = m.parent /\ n.res = m.res /\ n.prev = m.prev /\ n.settled = m.settled
      /\ n.terminated = m.terminated /\ n.kind = kind /\ n.status = st
  BY <1>1 DEF Session
<1> HIDE DEF n
<1> QED
  BY <1>1, <1>2, <1>3 DEF SpawnRow, n

(* Listing a child changes nothing else of the parent's row.               *)
LEMMA KidsRow ==
    ASSUME NEW r \in Session, NEW s \in Ids
    PROVE  LET n == [r EXCEPT !.kids = @ \cup {s}]
           IN  /\ n \in Session /\ Frame(r, n) /\ ThornFrame(r, n)
               /\ n.terminated = r.terminated
<1> DEFINE k == r.kids \cup {s}
<1> DEFINE n == [r EXCEPT !.kids = k]
<1>1. k \in SUBSET Ids
  BY DEF Session
<1> HIDE DEF k
<1>2. n \in Session
  BY <1>1 DEF Session
<1>3. /\ n.status = r.status /\ n.kind = r.kind /\ n.parent = r.parent /\ n.res = r.res
      /\ n.settled = r.settled /\ n.prev = r.prev /\ n.terminated = r.terminated
      /\ n.target = r.target
  BY DEF Session
<1> HIDE DEF n
<1>4. Frame(r, n) /\ ThornFrame(r, n)
  BY <1>3 DEF Frame, ThornFrame
<1> QED
  BY <1>2, <1>3, <1>4 DEF n, k

(* A table that differs from sess by a new row for s only, parents' lists  *)
(* of children aside.                                                      *)
OnlyNew(sf, s) ==
    \A c \in Ids : c # s => /\ Frame(sess[c], sf[c]) /\ ThornFrame(sess[c], sf[c])
                            /\ sf[c].terminated = sess[c].terminated

(* Both ways a spawn writes its row, with and without the entry in the     *)
(* parent's children, leave the other rows in their frames.                *)
LEMMA InsertRowTable ==
    ASSUME RowsOK(sess), NEW s \in Ids, NEW p \in Ids \cup {None}, NEW r \in Session
    PROVE  /\ RowsOK(InsertRow(s, p, r)) /\ InsertRow(s, p, r)[s] = r
           /\ OnlyNew(InsertRow(s, p, r), s)
           /\ RowsOK([sess EXCEPT ![s] = r]) /\ [sess EXCEPT ![s] = r][s] = r
           /\ OnlyNew([sess EXCEPT ![s] = r], s)
<1>1. \A c \in Ids : sess[c] \in Session
  BY DEF RowsOK
<1>2. \A c \in Ids : Frame(sess[c], sess[c]) /\ ThornFrame(sess[c], sess[c])
  BY DEF Frame, ThornFrame
<1>3. /\ RowsOK([sess EXCEPT ![s] = r]) /\ [sess EXCEPT ![s] = r][s] = r
      /\ \A c \in Ids : c # s => [sess EXCEPT ![s] = r][c] = sess[c]
  BY SetRow DEF RowsOK
<1>4. OnlyNew([sess EXCEPT ![s] = r], s)
  BY <1>2, <1>3 DEF OnlyNew
<1> DEFINE sf == InsertRow(s, p, r)
<1> DEFINE K(c) == [sess[c] EXCEPT !.kids = @ \cup {s}]
<1>5. /\ sf = [c \in Ids |-> sf[c]] /\ sf[s] = r
      /\ \A c \in Ids : c # s => sf[c] \in {sess[c], K(c)}
  BY DEF InsertRow
<1>6. ASSUME NEW c \in Ids
      PROVE  /\ K(c) \in Session /\ Frame(sess[c], K(c)) /\ ThornFrame(sess[c], K(c))
             /\ K(c).terminated = sess[c].terminated
  BY <1>1, KidsRow
<1> HIDE DEF sf, K
<1>7. \A c \in Ids : sf[c] \in Session
  BY <1>1, <1>5, <1>6
<1>8. RowsOK(sf)
  BY <1>5, <1>7 DEF RowsOK
<1>9. OnlyNew(sf, s)
  BY <1>2, <1>5, <1>6 DEF OnlyNew
<1> QED
  BY <1>3, <1>4, <1>5, <1>8, <1>9 DEF sf

(* The tables once a spawn has reserved, run its first plan and inserted   *)
(* its row: sound, and the new session fits into its parent's budget.      *)
LEMMA SpawnInserts ==
    ASSUME TablesOK(sess, tele), NEW s \in Ids, sess[s].status = "absent",
           NEW p \in Ids \cup {None}, p \in Ids => sess[p].status \notin NoRow,
           NEW b \in Nat, ReserveGranted(p, b), NEW a \in BudgetAction,
           NEW sf, RowsOK(sf), OnlyNew(sf, s), SpawnRow(sf[s], p, b),
           sf[s].status \notin NoRow,
           NEW te, te = [ReserveBudgetFromParent(tele, s, p, Granted(p, b)) EXCEPT
                            ![s] = ApplyToolPlan(FreshLedger(Granted(p, b), a))]
    PROVE  /\ TablesOK(sf, te)
           /\ sf[s].parent \in Ids =>
                 te[sf[s].parent].used + te[s].used <= te[sf[s].parent].max
<1>0. None \notin Ids
  BY SessionsAssumption
<1> DEFINE g == Granted(p, b)
<1> DEFINE hp == BudgetParent(p)
<1> DEFINE h == ReserveBudgetFromParent(tele, s, p, g)
<1> DEFINE t == ApplyToolPlan(FreshLedger(g, a))
<1>1. /\ hp \in {p, None} /\ hp \in Ids \cup {None} /\ g \in Nat
      /\ hp \in Ids => g # 0 /\ tele[p].used + g <= tele[p].max
  BY GrantFits DEF TablesOK
<1>2. /\ LedgersOK(h) /\ (hp \in Ids => Held(tele[p], h[p], s, g))
      /\ \A q \in Ids : q # hp => h[q] = tele[q]
  BY <1>0, <1>1, NoHoldYet, HeldTable DEF TablesOK
<1>3. /\ t \in Telemetry /\ Balanced(t) /\ t.max = g /\ t.used <= g
      /\ \A d \in Ids : t.held[d] = 0
  BY <1>1, FirstPlan
<1>4. sf[s].parent = hp /\ sf[s].res = IF hp = None THEN 0 ELSE g
  BY DEF SpawnRow
<1>5. te = [h EXCEPT ![s] = t]
  OBVIOUS
<1> HIDE DEF g, hp, h, t
<1>6. LedgersOK(te)
  <2>1. LedgersOK([h EXCEPT ![s] = t])
    BY <1>2, <1>3, SetLedger
  <2> QED
    BY <1>5, <2>1
<1>7. te[s] = t /\ \A q \in Ids : q # s => te[q] = h[q]
  BY <1>2, <1>5 DEF LedgersOK
<1>8. hp # s /\ (hp \in Ids => sess[hp].status \notin NoRow)
  BY <1>0, <1>1 DEF NoRow
<1>9. hp \in Ids => g # 0 /\ Held(tele[hp], te[hp], s, g)
  BY <1>0, <1>1, <1>2, <1>7, <1>8
<1>10. \A q \in Ids : q # s /\ q # hp => te[q] = tele[q]
  BY <1>2, <1>7
<1>11. ~(te[s].used > te[s].max) /\ \A d \in Ids : te[s].held[d] = 0
  BY <1>1, <1>3, <1>7 DEF Telemetry
<1>12. /\ \A c \in Ids : c # s => Frame(sess[c], sf[c])
       /\ \A c \in Ids : sf[c].terminated => c # s /\ sess[c].terminated
  BY DEF OnlyNew, SpawnRow
<1> DEFINE k == IF hp = None THEN 0 ELSE g
<1>13. /\ Blank(sf[s]) /\ sf[s].prev # "lost" /\ ~sf[s].settled /\ sf[s].status # "absent"
       /\ sf[s].parent = hp /\ sf[s].res = k /\ k \in Nat /\ (hp \in Ids => k = g)
  BY <1>0, <1>1, <1>4 DEF Blank, SpawnRow, NoRow
<1> HIDE DEF k
<1>14. hp \in Ids => k # 0 /\ Held(tele[hp], te[hp], s, k)
  BY <1>9, <1>13
<1>15. BudgetInv(sf, te) /\ Done(sf)
  <2>1. LedgersOK(tele) /\ BudgetInv(sess, tele) /\ Done(sess)
    BY DEF TablesOK
  <2>2. Inserts(sess, tele, sf, te, s, hp, k)
    BY <1>1, <1>8, <1>10, <1>11, <1>12, <1>13, <1>14 DEF Inserts
  <2> QED
    BY <1>12, <2>1, <2>2, InsertKeepsBudget
<1>16. PlainInsert(sess[s], sf[s])
  BY DEF PlainInsert, SpawnRow, NoRow
<1>17. ThornInv(sf)
  BY <1>16, FrameKeepsThorn DEF TablesOK, OnlyNew
<1>18. sf[s].parent \in Ids => te[sf[s].parent].used + te[s].used <= te[sf[s].parent].max
  <2>1. SUFFICES ASSUME hp \in Ids
                 PROVE  te[hp].used + te[s].used <= te[hp].max
    BY <1>4
  <2>2. te[hp].used = tele[hp].used /\ te[hp].max = tele[hp].max /\ hp = p
    BY <1>0, <1>1, <1>9, <2>1 DEF Held
  <2>3. tele[hp].used \in Nat /\ tele[hp].max \in Nat /\ t.used \in Nat
    BY <1>3, <2>1 DEF TablesOK, LedgersOK, Telemetry
  <2> QED
    BY <1>1, <1>3, <1>7, <2>1, <2>2, <2>3
<1> QED
  BY <1>6, <1>15, <1>17, <1>18 DEF TablesOK

(* Settling a row of sound tables whose use fits its parent.               *)
LEMMA SettleStep ==
    ASSUME NEW se, NEW te, TablesOK(se, te), NEW s \in Ids, se[s].status \notin NoRow,
           se[s].parent \in Ids => te[se[s].parent].used + te[s].used <= te[se[s].parent].max
    PROVE  LET e == SettleBudgetReservation(se, te, s)
           IN  TablesOK(e[1], e[2])
<1> DEFINE e == SettleBudgetReservation(se, te, s)
<1>1. RowsOK(se) /\ LedgersOK(te) /\ BudgetInv(se, te) /\ ThornInv(se) /\ Done(se)
  BY DEF TablesOK
<1>2. Unsettled(se[s]) => se[s].parent \in Ids
  BY <1>1 DEF Unsettled, RowsOK, Session
<1>3. RowsOK(e[1]) /\ LedgersOK(e[2])
  BY <1>1, BookedChild, SettleTyped
<1>4. /\ BudgetInv(e[1], e[2]) /\ ~Unsettled(e[1][s])
      /\ \A c \in Ids : c # s => e[1][c] = se[c]
  BY <1>1, <1>2, SettleKeepsBudget
<1>5. ThornInv(e[1])
  BY <1>1, SettleThorn
<1> HIDE DEF e
<1>6. Done(e[1])
  BY <1>1, <1>4 DEF Done
<1> QED
  BY <1>3, <1>4, <1>5, <1>6 DEF TablesOK, e

(* spawn_single                                                            *)
LEMMA SpawnSingleStep ==
    ASSUME IInv, NEW s \in Ids, NEW p \in Parents, NEW b \in Requests, NEW a \in Actions,
           NEW role \in Roles, NEW probe \in Probes, SpawnSingle(s, p, b, a, role, probe)
    PROVE  TablesOK(sess, tele)'
<1>0. /\ TablesOK(sess, tele) /\ RowsOK(sess)
      /\ p \in Ids \cup {None} /\ b \in Nat /\ a \in BudgetAction
      /\ role \in BOOLEAN /\ probe \in BOOLEAN \X BOOLEAN
  BY SessionsAssumption DEF IInv, TablesOK, Parents, Requests, NoBudget
<1>1. /\ sess[s].status = "absent" /\ ReserveGranted(p, b)
      /\ p \in Ids => sess[p].status \notin NoRow
  BY SessionsAssumption DEF SpawnSingle, SpawnAllowed, Rows
<1> DEFINE te == [ReserveBudgetFromParent(tele, s, p, Granted(p, b)) EXCEPT
                     ![s] = ApplyToolPlan(FreshLedger(Granted(p, b), a))]
<1> DEFINE up == ~probe[2]
<1> DEFINE st == IF probe[1] /\ probe[2] THEN "failed" ELSE "running"
<1> DEFINE m == NewRow(p, b, role)
<1> DEFINE row == [m EXCEPT !.reachable = up, !.status = st]
<1> DEFINE m2 == NewRow(p, b, FALSE)
<1> DEFINE failed == [m2 EXCEPT !.reachable = FALSE, !.status = "failed"]
<1> DEFINE A == SettleBudgetReservation([sess EXCEPT ![s] = failed], te, s)
<1> DEFINE B == SettleBudgetReservation(InsertRow(s, p, row), te, s)
<1>2. (sess' = A[1] /\ tele' = A[2]) \/ (sess' = B[1] /\ tele' = B[2])
  BY DEF SpawnSingle
<1>3. up \in BOOLEAN /\ st \in {"failed", "running"}
  OBVIOUS
<1>4. SpawnRow(m, p, b) /\ SpawnRow(m2, p, b)
  BY <1>0, <1>1, NewRowSound
<1> HIDE DEF m, m2, up, st
<1>5. SpawnRow(row, p, b) /\ row.status \notin NoRow
  BY <1>3, <1>4, TaskRow
<1>6. SpawnRow(failed, p, b) /\ failed.status \notin NoRow
  BY <1>4, TaskRow
<1> HIDE DEF row, failed
<1>7. TablesOK(A[1], A[2])
  <2> DEFINE sf == [sess EXCEPT ![s] = failed]
  <2>0. failed \in Session
    BY <1>6 DEF SpawnRow
  <2>1. RowsOK(sf) /\ OnlyNew(sf, s) /\ sf[s] = failed
    BY <1>0, <2>0, InsertRowTable
  <2> HIDE DEF sf
  <2>2. /\ TablesOK(sf, te)
        /\ sf[s].parent \in Ids => te[sf[s].parent].used + te[s].used <= te[sf[s].parent].max
    BY <1>0, <1>1, <1>6, <2>1, SpawnInserts
  <2> HIDE DEF te
  <2> QED
    BY <1>6, <2>1, <2>2, SettleStep DEF sf
<1>8. TablesOK(B[1], B[2])
  <2> DEFINE sf == InsertRow(s, p, row)
  <2>0. row \in Session
    BY <1>5 DEF SpawnRow
  <2>1. RowsOK(sf) /\ OnlyNew(sf, s) /\ sf[s] = row
    <3>1. /\ RowsOK(InsertRow(s, p, row)) /\ InsertRow(s, p, row)[s] = row
          /\ OnlyNew(InsertRow(s, p, row), s)
      <4>1. RowsOK(sess) /\ p \in Ids \cup {None} /\ row \in Session
        BY <1>0, <2>0
      <4> HIDE DEF te, A, B, sf
      <4> QED
        BY <4>1, InsertRowTable, ZenonT(60)
    <3> QED
      BY <3>1, Zenon
  <2> HIDE DEF sf
  <2>2. /\ TablesOK(sf, te)
        /\ sf[s].parent \in Ids => te[sf[s].parent].used + te[s].used <= te[sf[s].parent].max
    BY <1>0, <1>1, <1>5, <2>1, SpawnInserts
  <2> HIDE DEF te
  <2> QED
    BY <1>5, <2>1, <2>2, SettleStep DEF sf
<1> HIDE DEF A, B
<1> QED
  BY <1>2, <1>7, <1>8

(* spawn_persistent_session, when its initial check-in is denied: the      *)
(* identifier is spent and the tokens stay in the parent's book.           *)
LEMMA LostSpawn ==
    ASSUME TablesOK(sess, tele), NEW s \in Ids, sess[s].status = "absent",
           NEW p \in Ids \cup {None}, p \in Ids => sess[p].status \notin NoRow,
           NEW b \in Nat, ReserveGranted(p, b)
    PROVE  TablesOK([sess EXCEPT ![s].status = "lost"],
                    ReserveBudgetFromParent(tele, s, p, Granted(p, b)))
<1>0. None \notin Ids
  BY SessionsAssumption
<1> DEFINE g == Granted(p, b)
<1> DEFINE hp == BudgetParent(p)
<1> DEFINE h == ReserveBudgetFromParent(tele, s, p, g)
<1> DEFINE n == [sess[s] EXCEPT !.status = "lost"]
<1> DEFINE sf == [sess EXCEPT ![s] = n]
<1>1. /\ hp \in {p, None} /\ hp \in Ids \cup {None} /\ g \in Nat
      /\ hp \in Ids => g # 0
  BY GrantFits DEF TablesOK
<1>2. /\ LedgersOK(h) /\ (hp \in Ids => Held(tele[p], h[p], s, g))
      /\ \A q \in Ids : q # hp => h[q] = tele[q]
  BY <1>0, <1>1, NoHoldYet, HeldTable DEF TablesOK
<1> HIDE DEF g, hp, h
<1>3. /\ sess[s] \in Session /\ sess \in [Ids -> Session] /\ Blank(sess[s])
      /\ sess[s].prev # "lost"
  BY DEF TablesOK, RowsOK, BudgetInv
<1>4. n \in Session
  BY <1>3 DEF Session, Status, NoRow
<1>5. /\ n.status = "lost" /\ n.parent = sess[s].parent /\ n.settled = sess[s].settled
      /\ n.terminated = sess[s].terminated /\ n.prev = sess[s].prev
  BY <1>3 DEF Session
<1> HIDE DEF n
<1>6. RowsOK(sf) /\ OnlyNew(sf, s) /\ sf[s] = n
  BY <1>4, InsertRowTable DEF TablesOK
<1> HIDE DEF sf
<1>7. hp # s /\ (hp \in Ids => sess[hp].status \notin NoRow)
  BY <1>0, <1>1 DEF NoRow
<1> DEFINE k == IF hp = None THEN 0 ELSE g
<1>8. k \in Nat /\ (hp \in Ids => k # 0 /\ Held(tele[hp], h[hp], s, k))
  BY <1>0, <1>1, <1>2
<1> HIDE DEF k
<1>9. Blank(sf[s]) /\ sf[s].prev # "lost" /\ ~sf[s].settled /\ sf[s].parent = None
        /\ sf[s].status = "lost" /\ ~sf[s].terminated
  BY <1>3, <1>5, <1>6 DEF Blank, NoRow
<1>10. /\ \A c \in Ids : c # s => Frame(sess[c], sf[c])
       /\ \A c \in Ids : sf[c].terminated => c # s /\ sess[c].terminated
  BY <1>6, <1>9 DEF OnlyNew
<1>11. h[s] = tele[s]
  BY <1>2, <1>7
<1>12. Inserts(sess, tele, sf, h, s, hp, k)
  BY <1>1, <1>2, <1>7, <1>8, <1>9, <1>10, <1>11 DEF Inserts
<1>13. BudgetInv(sf, h) /\ Done(sf)
  BY <1>10, <1>12, InsertKeepsBudget DEF TablesOK
<1>14. PlainInsert(sess[s], sf[s])
  BY <1>9 DEF PlainInsert, NoRow
<1>15. ThornInv(sf)
  BY <1>6, <1>14, FrameKeepsThorn DEF TablesOK, OnlyNew
<1>16. TablesOK(sf, h)
  BY <1>2, <1>6, <1>13, <1>15 DEF TablesOK
<1> QED
  BY <1>16 DEF sf, h, n, g

(* spawn_persistent_session                                                *)
LEMMA SpawnPersistentStep ==
    ASSUME IInv, NEW s \in Ids, NEW p \in Parents, NEW b \in Requests, NEW a \in Actions,
           NEW role \in Roles, NEW kind \in Modes, NEW life \in Lifespans,
           SpawnPersistent(s, p, b, a, role, kind, life)
    PROVE  TablesOK(sess, tele)'
<1>0. /\ TablesOK(sess, tele) /\ RowsOK(sess)
      /\ p \in Ids \cup {None} /\ b \in Nat /\ a \in BudgetAction /\ role \in BOOLEAN
      /\ kind \in {"persistent", "background"} /\ life \in Nat /\ CheckInInterval \in Nat
  BY SessionsAssumption DEF IInv, TablesOK, Parents, Requests, NoBudget
<1>1. /\ sess[s].status = "absent" /\ ReserveGranted(p, b)
      /\ p \in Ids => sess[p].status \notin NoRow
  BY SessionsAssumption DEF SpawnPersistent, SpawnAllowed, Rows
<1> DEFINE h == ReserveBudgetFromParent(tele, s, p, Granted(p, b))
<1> DEFINE te == [h EXCEPT ![s] = ApplyToolPlan(FreshLedger(Granted(p, b), a))]
<1> DEFINE m == NewRow(p, b, role)
<1> DEFINE st == IF kind = "background" THEN "background_running" ELSE "persistent_running"
<1> DEFINE row == [m EXCEPT !.kind = kind, !.lifespan = life, !.checkIn = CheckInInterval,
                            !.status = st]
<1>2. \/ sess' = [sess EXCEPT ![s].status = "lost"] /\ tele' = h
      \/ sess' = InsertRow(s, p, row) /\ tele' = te
  BY DEF SpawnPersistent
<1>3. st \in Persistent
  BY DEF Persistent
<1>4. SpawnRow(m, p, b)
  BY <1>0, <1>1, NewRowSound
<1> HIDE DEF m, st
<1>5. SpawnRow(row, p, b) /\ row.status \notin NoRow
  BY <1>0, <1>3, <1>4, PersistentRow
<1> HIDE DEF row
<1>6. TablesOK([sess EXCEPT ![s].status = "lost"], h)
  BY <1>0, <1>1, LostSpawn
<1>7. TablesOK(InsertRow(s, p, row), te)
  <2> DEFINE sf == InsertRow(s, p, row)
  <2>0. row \in Session
    BY <1>5 DEF SpawnRow
  <2>1. RowsOK(sf) /\ OnlyNew(sf, s) /\ sf[s] = row
    <3>1. /\ RowsOK(InsertRow(s, p, row)) /\ InsertRow(s, p, row)[s] = row
          /\ OnlyNew(InsertRow(s, p, row), s)
      BY <1>0, <2>0, InsertRowTable
    <3> QED
      BY <3>1, Zenon
  <2> HIDE DEF sf
  <2>2. TablesOK(sf, te)
    BY <1>0, <1>1, <1>5, <2>1, SpawnInserts
  <2> QED
    BY <2>2 DEF sf
<1> HIDE DEF h, te
<1> QED
  BY <1>2, <1>6, <1>7

-----------------------------------------------------------------------------
(* Thorn quarantine, shutdown and the clock.                               *)

(* quarantine_into_thorn                                                   *)
LEMMA QuarantineStep ==
    ASSUME IInv, NEW s \in Ids, NEW c \in Ids, Quarantine(s, c)
    PROVE  TablesOK(sess, tele)'
<1>0. None \notin Ids
  BY SessionsAssumption
<1> DEFINE h == SetHealth(sess[s], "unhealthy")
<1> DEFINE d == sess[s].depth + 1
<1> DEFINE q == [sess[s] EXCEPT !.reachable = FALSE, !.prev = sess[s].status,
                                !.status = "quarantined_thorn", !.service = h]
<1> DEFINE n == [AbsentRow EXCEPT !.status = "thorn_active", !.kind = "thorn",
                          !.reachable = TRUE, !.depth = d, !.up = s,
                          !.ttl = ThornTtl, !.target = s, !.service = "healthy"]
<1>1. /\ TablesOK(sess, tele) /\ sess \in [Ids -> Session] /\ sess[s] \in Session
      /\ tele' = tele
  BY DEF IInv, TablesOK, RowsOK, Quarantine
<1>2. /\ sess[s].status \notin NoRow \cup {"quarantined_thorn"} /\ sess[s].kind # "thorn"
      /\ sess[c].status = "absent" /\ c # s
  BY DEF Quarantine, Rows, NoRow
<1>3. sess' = [sess EXCEPT ![s] = q, ![c] = n]
  BY DEF Quarantine
<1>4. /\ h \in {"none", "healthy", "unhealthy"} /\ d \in Nat /\ ThornTtl \in Nat
      /\ {"quarantined_thorn", "thorn_active"} \subseteq Status \ NoRow /\ "thorn" \in Kinds
      /\ sess[s].status \in Status
  BY <1>1, SessionsAssumption DEF SetHealth, Session, Status, NoRow, Kinds
<1> HIDE DEF h, d
<1>5. q \in Session
  BY <1>1, <1>4 DEF Session
<1>6. n \in Session
  BY <1>4, AbsentRowTyped DEF Session
<1>7. /\ q.kind = sess[s].kind /\ q.parent = sess[s].parent /\ q.res = sess[s].res
      /\ q.settled = sess[s].settled /\ q.terminated = sess[s].terminated
      /\ q.status = "quarantined_thorn" /\ q.prev = sess[s].status
      /\ q.target = sess[s].target
  BY <1>1 DEF Session
<1>8. /\ n.kind = "thorn" /\ n.status = "thorn_active" /\ n.target = s /\ n.parent = None
      /\ n.res = 0 /\ ~n.settled /\ ~n.terminated /\ n.prev = "absent"
  BY DEF AbsentRow
<1> HIDE DEF q, n
<1> DEFINE sf == [sess EXCEPT ![s] = q, ![c] = n]
<1>9. RowsOK(sf)
  BY <1>1, <1>5, <1>6 DEF RowsOK
<1>10. \A t \in Ids : sf[t] = IF t = c THEN n ELSE IF t = s THEN q ELSE sess[t]
  BY <1>1, <1>2
<1> HIDE DEF sf
<1>11. /\ \A t \in Ids : t # c => Frame(sess[t], sf[t])
       /\ \A t \in Ids : sf[t].terminated => t # c /\ sess[t].terminated
  BY <1>2, <1>4, <1>7, <1>8, <1>10 DEF Frame, NoRow
<1>12. /\ Blank(sf[c]) /\ sf[c].prev # "lost" /\ ~sf[c].settled /\ sf[c].parent = None
       /\ sf[c].res = 0 /\ sf[c].status # "absent"
  BY <1>8, <1>10 DEF Blank, NoRow
<1>13. Inserts(sess, tele, sf, tele, c, None, 0)
  BY <1>0, <1>2, <1>11, <1>12 DEF Inserts
<1>14. BudgetInv(sf, tele) /\ Done(sf)
  BY <1>1, <1>11, <1>13, InsertKeepsBudget DEF TablesOK
<1>15. ASSUME NEW t \in ActiveThorns(sess)
       PROVE  t \in Ids /\ t # c /\ t # s /\ sf[t] = sess[t] /\ t \in ActiveThorns(sf)
  BY <1>2, <1>10 DEF ActiveThorns
<1>16. c \in ActiveThorns(sf)
  BY <1>8, <1>10 DEF ActiveThorns
<1>17. ASSUME NEW t \in Ids, sf[t].status = "quarantined_thorn"
       PROVE  Guarded(sf, t)
  <2>1. CASE t = s
    BY <1>8, <1>10, <1>16, <2>1 DEF Guarded
  <2>2. CASE t # s
    <3>1. sess[t].status = "quarantined_thorn"
      BY <1>8, <1>10, <1>17, <2>2
    <3> QED
      BY <1>1, <1>15, <3>1 DEF TablesOK, ThornInv, Guarded
  <2> QED
    BY <2>1, <2>2
<1>18. ASSUME NEW t \in ActiveThorns(sf)
       PROVE  CellSound(sf, t)
  <2>1. CASE t = c
    <3>1. sf[t].target = s /\ sf[s] = q
      BY <1>2, <1>8, <1>10, <2>1
    <3> QED
      BY <1>2, <1>4, <1>7, <3>1 DEF CellSound
  <2>2. CASE t # c
    <3>1. t \in Ids /\ t # s /\ sf[t] = sess[t] /\ t \in ActiveThorns(sess)
      BY <1>7, <1>10, <2>2 DEF ActiveThorns
    <3>2. CellSound(sess, t)
      BY <1>1, <3>1 DEF TablesOK, ThornInv
    <3>3. sess[t].target \in Ids /\ sess[t].target # c
      BY <1>2, <3>2 DEF CellSound, NoRow
    <3>4. CASE sess[t].target = s
      BY <1>2, <1>4, <1>7, <1>10, <3>1, <3>4 DEF CellSound
    <3>5. CASE sess[t].target # s
      <4>1. sf[sess[t].target] = sess[sess[t].target]
        BY <1>10, <3>3, <3>5
      <4> QED
        BY <3>1, <3>2, <4>1 DEF CellSound
    <3> QED
      BY <3>4, <3>5
  <2> QED
    BY <2>1, <2>2
<1>19. TablesOK(sf, tele)
  BY <1>1, <1>9, <1>14, <1>17, <1>18 DEF TablesOK, ThornInv
<1> QED
  BY <1>1, <1>3, <1>19 DEF sf

(* thorn release                                                           *)
LEMMA ThornReleaseStep ==
    ASSUME IInv, NEW s \in Ids, ThornRelease(s)
    PROVE  TablesOK(sess, tele)'
<1> DEFINE sf == ReleaseThornCells(sess, {s})
<1>1. /\ TablesOK(sess, tele) /\ RowsOK(sess) /\ ThornInv(sess)
      /\ \A g \in {s} : Guarded(sess, g)
      /\ sess' = sf /\ tele' = tele
  BY DEF IInv, TablesOK, ThornRelease, Guarded
<1>2. RowsOK(sf) /\ ThornInv(sf)
  BY <1>1, ReleaseTyped, ReleaseKeepsThorn
<1>3. \A t \in Ids : Frame(sess[t], sf[t]) /\ sf[t].terminated = sess[t].terminated
  BY <1>1, ReleaseFrame
<1> HIDE DEF sf
<1>4. LedgersOK(tele) /\ \A q \in Ids : LedgerFrame(tele[q], tele[q])
  BY <1>1 DEF TablesOK, LedgerFrame
<1>5. TablesOK(sf, tele)
  BY <1>1, <1>2, <1>3, <1>4, QuietStep
<1> QED
  BY <1>1, <1>5

(* force_shutdown                                                          *)
LEMMA ForceShutdownStep ==
    ASSUME IInv, ForceShutdown
    PROVE  TablesOK(sess, tele)'
<1> DEFINE D(s) == [sess[s] EXCEPT !.reachable = FALSE, !.status = "shutdown_t0",
                                   !.service = SetHealth(sess[s], "unhealthy")]
<1> DEFINE sf == [s \in Ids |-> IF s \in Rows(sess) THEN D(s) ELSE sess[s]]
<1>1. /\ TablesOK(sess, tele) /\ RowsOK(sess) /\ sess' = sf /\ tele' = tele
  BY DEF IInv, TablesOK, ForceShutdown
<1>2. ASSUME NEW s \in Ids
      PROVE  /\ D(s) \in Session /\ D(s).status = "shutdown_t0" /\ D(s).kind = sess[s].kind
             /\ D(s).parent = sess[s].parent /\ D(s).res = sess[s].res
             /\ D(s).settled = sess[s].settled /\ D(s).prev = sess[s].prev
             /\ D(s).terminated = sess[s].terminated
  <2> DEFINE h == SetHealth(sess[s], "unhealthy")
  <2>1. sess[s] \in Session
    BY <1>1 DEF RowsOK
  <2>2. h \in {"none", "healthy", "unhealthy"} /\ "shutdown_t0" \in Status
    BY <2>1 DEF SetHealth, Session, Status
  <2> HIDE DEF h
  <2>3. D(s) = [sess[s] EXCEPT !.reachable = FALSE, !.status = "shutdown_t0", !.service = h]
    BY DEF h
  <2> HIDE DEF D
  <2>4. D(s) \in Session
    BY <2>1, <2>2, <2>3 DEF Session
  <2> QED
    BY <2>1, <2>3, <2>4 DEF Session
<1>3. /\ sf = [s \in Ids |-> sf[s]]
      /\ \A s \in Ids : sf[s] = IF sess[s].status \notin NoRow THEN D(s) ELSE sess[s]
  BY DEF Rows
<1> HIDE DEF D, sf
<1>4. RowsOK(sf)
  <2>1. \A s \in Ids : sf[s] \in Session
    BY <1>1, <1>2, <1>3 DEF RowsOK
  <2> QED
    BY <1>3, <2>1 DEF RowsOK
<1>5. ASSUME NEW s \in Ids
      PROVE  Frame(sess[s], sf[s]) /\ sf[s].terminated = sess[s].terminated
  <2>1. CASE sess[s].status \in NoRow
    BY <1>3, <2>1 DEF Frame
  <2>2. CASE sess[s].status \notin NoRow
    <3>1. sf[s] = D(s) /\ "shutdown_t0" \notin NoRow
      BY <1>3, <2>2 DEF NoRow
    <3> QED
      BY <1>2, <2>2, <3>1 DEF Frame
  <2> QED
    BY <2>1, <2>2
<1>6. ThornInv(sf)
  BY <1>2, <1>3 DEF ThornInv, ActiveThorns, NoRow
<1>7. LedgersOK(tele) /\ \A q \in Ids : LedgerFrame(tele[q], tele[q])
  BY <1>1 DEF TablesOK, LedgerFrame
<1>8. TablesOK(sf, tele)
  BY <1>1, <1>4, <1>5, <1>6, <1>7, QuietStep
<1> QED
  BY <1>1, <1>8

(* The clock.                                                              *)
LEMMA ElapseStep ==
    ASSUME IInv, Elapse
    PROVE  TablesOK(sess, tele)'
<1> DEFINE D(s) == [sess[s] EXCEPT !.lifespan = Monus(@, 1), !.checkIn = Monus(@, 1),
                                   !.ttl = Monus(@, 1)]
<1> DEFINE sf == [s \in Ids |-> D(s)]
<1>1. /\ TablesOK(sess, tele) /\ RowsOK(sess) /\ sess' = sf /\ tele' = tele
  BY DEF IInv, TablesOK, Elapse
<1>2. ASSUME NEW s \in Ids
      PROVE  /\ D(s) \in Session /\ D(s).status = sess[s].status /\ D(s).kind = sess[s].kind
             /\ D(s).parent = sess[s].parent /\ D(s).res = sess[s].res
             /\ D(s).settled = sess[s].settled /\ D(s).prev = sess[s].prev
             /\ D(s).terminated = sess[s].terminated /\ D(s).target = sess[s].target
  <2> DEFINE x == Monus(sess[s].lifespan, 1)
  <2> DEFINE y == Monus(sess[s].checkIn, 1)
  <2> DEFINE z == Monus(sess[s].ttl, 1)
  <2>1. sess[s] \in Session
    BY <1>1 DEF RowsOK
  <2>2. x \in Nat /\ y \in Nat /\ z \in Nat
    BY <2>1, MonusNat DEF Session
  <2> DEFINE r == sess[s]
  <2> DEFINE n == [r EXCEPT !.lifespan = x, !.checkIn = y, !.ttl = z]
  <2>3. D(s) = [sess[s] EXCEPT !.lifespan = x, !.checkIn = y, !.ttl = z] /\ D(s) = n
    OBVIOUS
  <2> HIDE DEF x, y, z, D
  <2>4. D(s) \in Session
    <3> HIDE DEF r
    <3>1. n \in Session
      BY <2>1, <2>2 DEF Session, r
    <3> HIDE DEF n
    <3> QED
      BY <2>3, <3>1
  <2> QED
    BY <2>1, <2>3, <2>4 DEF Session
<1>3. /\ sf = [s \in Ids |-> sf[s]]
      /\ \A s \in Ids : sf[s] = D(s)
  <2> HIDE DEF D
  <2> QED
    OBVIOUS
<1> HIDE DEF D, sf
<1>4. RowsOK(sf)
  <2>1. \A s \in Ids : sf[s] \in Session
    BY <1>2, <1>3
  <2> QED
    BY <1>3, <2>1 DEF RowsOK
<1>5. /\ \A s \in Ids : Frame(sess[s], sf[s]) /\ sf[s].terminated = sess[s].terminated
      /\ \A s \in Ids : ThornFrame(sess[s], sf[s])
  BY <1>2, <1>3 DEF Frame, ThornFrame
<1>6. ThornInv(sf)
  BY <1>1, <1>5, FrameKeepsThorn DEF TablesOK
<1>7. LedgersOK(tele) /\ \A q \in Ids : LedgerFrame(tele[q], tele[q])
  BY <1>1 DEF TablesOK, LedgerFrame
<1>8. TablesOK(sf, tele)
  BY <1>1, <1>4, <1>5, <1>6, <1>7, QuietStep
<1> QED
  BY <1>1, <1>8

-----------------------------------------------------------------------------
(* The invariant.                                                          *)

(* The empty tables of Init.                                               *)
LEMMA InitSound == Init => IInv
<1> SUFFICES ASSUME Init PROVE IInv
  OBVIOUS
<1>1. /\ \A s \in Ids : sess[s] = AbsentRow /\ tele[s] = NoTelemetry
      /\ sess \in [Ids -> Session] /\ tele \in [Ids -> Telemetry]
  BY AbsentRowTyped, EmptyLedger DEF Init
<1>2. TypeOK /\ TodoOK
  BY <1>1 DEF Init, TypeOK, TodoOK
<1>3. /\ AbsentRow.status = "absent" /\ ~AbsentRow.settled /\ ~AbsentRow.terminated
      /\ AbsentRow.parent = None /\ AbsentRow.prev = "absent"
  BY DEF AbsentRow
<1>4. /\ NoTelemetry.used = 0 /\ NoTelemetry.max = 0
      /\ \A c \in Ids : NoTelemetry.held[c] = 0
  BY DEF NoTelemetry
<1>5. BudgetInv(sess, tele)
  <2>0. None \notin Ids
    BY SessionsAssumption
  <2>1. \A s \in Ids : Blank(sess[s]) /\ sess[s].prev # "lost" /\ ParentExists(sess, s)
    BY <1>1, <1>3, <2>0 DEF Blank, ParentExists
  <2>2. ASSUME NEW s \in Ids, tele[s].used > tele[s].max
        PROVE  Excused(sess, s)
    <3>1. tele[s].used = 0 /\ tele[s].max = 0
      BY <1>1, <1>4
    <3> QED
      BY <2>2, <3>1
  <2>3. ASSUME NEW p \in Ids, NEW c \in Ids
        PROVE  HoldMatches(sess, tele, p, c)
    <3>1. tele[p] = NoTelemetry /\ sess[c] = AbsentRow
      BY <1>1
    <3>2. tele[p].held[c] = 0 /\ sess[c].parent # p
      BY <1>3, <1>4, <2>0, <3>1
    <3> QED
      BY <3>2 DEF HoldMatches
  <2> QED
    BY <2>1, <2>2, <2>3 DEF BudgetInv
<1>6. Done(sess) /\ ThornInv(sess)
  BY <1>1, <1>3 DEF Done, ThornInv, ActiveThorns
<1>7. RowsOK(sess) /\ LedgersOK(tele)
  BY <1>1, EmptyLedger DEF RowsOK, LedgersOK
<1> QED
  BY <1>2, <1>5, <1>6, <1>7 DEF IInv, TablesOK

(* The other variables of a command, and of a step without one.            *)
LEMMA ReturnSound ==
    ASSUME IInv, pc \notin {"autotick", "tick"}, Return, TablesOK(sess, tele)'
    PROVE  IInv'
BY DEF IInv, TypeOK, TodoOK, Return, TablesOK, RowsOK, LedgersOK

(* ... and of one visit of the tick.                                       *)
LEMMA VisitSound ==
    ASSUME IInv, NEW s \in Ids, Visiting(s), NEW rest, rest \in {{}, todo \ {s}},
           EndVisit(rest), \A c \in rest : sess'[c] = sess[c], TablesOK(sess, tele)'
    PROVE  IInv'
<1>1. rest \subseteq todo /\ todo \subseteq Ids /\ adv \in Nat /\ pc \in {"autotick", "tick"}
  BY DEF IInv, TypeOK, Visiting
<1>2. todo' = rest /\ adv' \in Nat
  BY <1>1 DEF EndVisit
<1>3. /\ pc' \in {"autotick", "tick", "command", "idle"}
      /\ pc' \in {"command", "idle"} => todo' = {}
  BY <1>1 DEF EndVisit
<1>4. TypeOK'
  BY <1>1, <1>2, <1>3 DEF TypeOK, TablesOK, RowsOK, LedgersOK
<1>5. \A c \in todo' : IsPersistent(sess'[c]) /\ sess'[c].status \notin NoRow
  BY <1>1, <1>2 DEF IInv, TodoOK
<1>6. TodoOK'
  BY <1>3, <1>5 DEF TodoOK
<1> QED
  BY <1>4, <1>6 DEF IInv

(* Reload and drain, the start of every invocation.                        *)
LEMMA BeginSound ==
    ASSUME IInv, Begin
    PROVE  IInv'
<1>1. TablesOK(sess, tele) /\ todo \subseteq Ids /\ adv \in Nat
  BY DEF IInv, TypeOK
<1>2. TablesOK(DrainExpiredThornCells(RecoverPersistent(sess)), tele)
  BY <1>1, PreludeStep
<1>3. PersistentIds(sess') \subseteq Ids
      /\ \A s \in PersistentIds(sess') : IsPersistent(sess'[s]) /\ sess'[s].status \notin NoRow
  BY PersistentRows
<1>4. ASSUME NEW auto \in BOOLEAN, BeginRun(auto)
      PROVE  IInv'
  <2>1. TablesOK(sess, tele)'
    BY <1>2, <1>4 DEF BeginRun
  <2> QED
    BY <1>3, <1>4, <2>1 DEF BeginRun, IInv, TypeOK, TodoOK, TablesOK, RowsOK, LedgersOK
<1>5. ASSUME NEW d \in Advances, BeginTick(d)
      PROVE  IInv'
  <2>1. TablesOK(sess, tele)' /\ d \in Nat
    BY <1>2, <1>5, SessionsAssumption DEF BeginTick
  <2> QED
    BY <1>3, <1>5, <2>1 DEF BeginTick, IInv, TypeOK, TodoOK, TablesOK, RowsOK, LedgersOK
<1>6. CASE BeginThorn
  <2>1. TablesOK(DrainExpiredThornCells(sess), tele)
    BY <1>1, DrainStep
  <2>2. TablesOK(sess, tele)'
    BY <1>6, <2>1 DEF BeginThorn
  <2> QED
    BY <1>1, <1>6, <2>2 DEF BeginThorn, IInv, TypeOK, TodoOK, TablesOK, RowsOK, LedgersOK
<1> QED
  BY <1>4, <1>5, <1>6 DEF Begin

(* One visit of tick_persistent_sessions.                                  *)
LEMMA TickSound ==
    ASSUME IInv, TickStep
    PROVE  IInv'
<1>1. PICK s \in Ids : TickSkip(s) \/ TickAbort(s) \/ TickCheckIn(s) \/ TickFinalize(s)
  BY DEF TickStep
<1>2. /\ Visiting(s) /\ TablesOK(sess, tele) /\ adv \in Nat /\ CheckInInterval \in Nat
      /\ sess \in [Ids -> Session] /\ todo \subseteq Ids
  BY <1>1, SessionsAssumption DEF TickSkip, TickAbort, TickCheckIn, TickFinalize, IInv, TypeOK
<1>3. IsPersistent(sess[s]) /\ sess[s].status \notin NoRow
  BY <1>2 DEF IInv, TodoOK, Visiting
<1>4. CASE TickSkip(s)
  <2>1. EndVisit(todo \ {s}) /\ sess' = sess /\ tele' = tele
    BY <1>4 DEF TickSkip
  <2>2. TablesOK(sess, tele)'
    BY <1>2, <2>1
  <2> QED
    BY <1>2, <2>1, <2>2, VisitSound
<1>5. CASE TickAbort(s)
  <2>1. /\ EndVisit({})
        /\ sess' = [sess EXCEPT ![s].status = "failed"]
        /\ tele' = [tele EXCEPT ![s] = ApplyToolPlan(@)]
    BY <1>5 DEF TickAbort
  <2>2. TablesOK(sess, tele)'
    BY <1>2, <1>3, <2>1, FailStep
  <2> QED
    BY <1>2, <2>1, <2>2, VisitSound
<1>6. CASE TickCheckIn(s)
  <2> DEFINE k == adv + CheckInInterval
  <2>1. /\ EndVisit(todo \ {s}) /\ k \in Nat
        /\ sess' = [sess EXCEPT ![s].checkIn = k]
        /\ tele' = [tele EXCEPT ![s] = ApplyToolPlan(@)]
    BY <1>2, <1>6 DEF TickCheckIn
  <2> HIDE DEF k
  <2>2. TablesOK(sess, tele)'
    BY <1>2, <2>1, CheckInStep
  <2>3. \A c \in todo \ {s} : sess'[c] = sess[c]
    BY <1>2, <2>1
  <2> QED
    BY <1>2, <2>1, <2>2, <2>3, VisitSound
<1>7. CASE TickFinalize(s)
  <2> DEFINE te == [tele EXCEPT ![s] = ApplyToolPlan(@)]
  <2> DEFINE se == [sess EXCEPT ![s] = EndRow(@, "completed")]
  <2> DEFINE e == SettleBudgetReservation(se, te, s)
  <2>1. EndVisit(todo \ {s}) /\ sess' = e[1] /\ tele' = e[2]
    BY <1>7 DEF TickFinalize
  <2>2. "completed" \in Stopped
    BY DEF Stopped
  <2>3. TablesOK(e[1], e[2])
    BY <1>2, <1>3, <2>2, EndStep
  <2>4. \A c \in Ids : c # s => e[1][c] = sess[c]
    <3>1. \A c \in Ids : c # s =>
             se[c] = sess[c] /\ [se EXCEPT ![s].settled = TRUE][c] = sess[c]
      BY <1>2
    <3>2. e[1] \in {se, [se EXCEPT ![s].settled = TRUE]}
      BY DEF SettleBudgetReservation
    <3> HIDE DEF se, e
    <3> QED
      BY <3>1, <3>2
  <2> HIDE DEF e
  <2>5. TablesOK(sess, tele)' /\ \A c \in todo \ {s} : sess'[c] = sess[c]
    BY <1>2, <2>1, <2>3, <2>4
  <2> QED
    BY <1>2, <2>1, <2>5, VisitSound
<1> QED
  BY <1>1, <1>4, <1>5, <1>6, <1>7

(* sessions wake: a check-in out of turn.                                  *)
LEMMA WakeStep ==
    ASSUME IInv, NEW s \in Ids, Wake(s)
    PROVE  TablesOK(sess, tele)'
<1>1. TablesOK(sess, tele) /\ CheckInInterval \in Nat
  BY SessionsAssumption DEF IInv
<1>2. IsPersistent(sess[s]) /\ sess[s].status \notin NoRow
  BY DEF Wake, PersistentIds, Persistent, NoRow
<1>3. /\ tele' = [tele EXCEPT ![s] = ApplyToolPlan(@)]
      /\ \/ sess' = [sess EXCEPT ![s].status = "failed"]
         \/ sess' = [sess EXCEPT ![s].checkIn = CheckInInterval]
  BY DEF Wake
<1>4. CASE sess' = [sess EXCEPT ![s].status = "failed"]
  BY <1>1, <1>2, <1>3, <1>4, FailStep
<1>5. CASE sess' = [sess EXCEPT ![s].checkIn = CheckInInterval]
  BY <1>1, <1>3, <1>5, CheckInStep
<1> QED
  BY <1>3, <1>4, <1>5

(* sessions terminate                                                      *)
LEMMA TerminateStep ==
    ASSUME IInv, NEW s \in Ids, NEW graceful \in BOOLEAN, Terminate(s, graceful)
    PROVE  TablesOK(sess, tele)'
<1> DEFINE te == IF graceful THEN [tele EXCEPT ![s] = ApplyToolPlan(@)] ELSE tele
<1> DEFINE st == IF graceful THEN "terminated_graceful" ELSE "terminated"
<1> DEFINE e == SettleBudgetReservation([sess EXCEPT ![s] = EndRow(@, st)], te, s)
<1>1. TablesOK(sess, tele) /\ IsPersistent(sess[s]) /\ sess[s].status \notin NoRow
  BY DEF IInv, Terminate, Rows
<1>2. \/ /\ graceful
         /\ sess' = [sess EXCEPT ![s].status = "failed"]
         /\ tele' = [tele EXCEPT ![s] = ApplyToolPlan(@)]
      \/ sess' = e[1] /\ tele' = e[2]
  BY DEF Terminate
<1>3. st \in Stopped
  BY DEF Stopped
<1>4. te = tele \/ te = [tele EXCEPT ![s] = ApplyToolPlan(@)]
  OBVIOUS
<1> HIDE DEF te, st
<1>5. TablesOK(e[1], e[2])
  BY <1>1, <1>3, <1>4, EndStep
<1> HIDE DEF e
<1>6. CASE sess' = e[1] /\ tele' = e[2]
  BY <1>5, <1>6
<1>7. CASE /\ sess' = [sess EXCEPT ![s].status = "failed"]
           /\ tele' = [tele EXCEPT ![s] = ApplyToolPlan(@)]
  BY <1>1, <1>7, FailStep
<1> QED
  BY <1>2, <1>6, <1>7

(* sessions resume                                                         *)
LEMMA ResumeStep ==
    ASSUME IInv, NEW s \in Ids, Resume(s)
    PROVE  TablesOK(sess, tele)'
<1> DEFINE r == ResumedRow(sess[s])
<1>1. /\ TablesOK(sess, tele) /\ IsPersistent(sess[s]) /\ sess[s].status \notin NoRow
      /\ sess[s] \in Session /\ LedgersOK(tele)
  BY DEF IInv, Resume, Rows, TablesOK, RowsOK
<1>2. sess' = [sess EXCEPT ![s] = r] /\ tele' = tele
  BY DEF Resume
<1>3. r \in Session /\ Frame(sess[s], r) /\ ThornFrame(sess[s], r) /\ r.terminated = sess[s].terminated
  BY <1>1, ResumedRowFrame
<1>4. \A q \in Ids : LedgerFrame(tele[q], tele[q])
  BY DEF LedgerFrame
<1> HIDE DEF r
<1>5. TablesOK([sess EXCEPT ![s] = r], tele)
  BY <1>1, <1>3, <1>4, RowStep
<1> QED
  BY <1>2, <1>5

(* sessions context-put                                                    *)
LEMMA ContextPutStep ==
    ASSUME IInv, NEW s \in Ids, NEW k \in ContextTokens, ContextPut(s, k)
    PROVE  TablesOK(sess, tele)'
<1> DEFINE tf == [tele EXCEPT ![s] = RecordToolUsage(tele[s], k)]
<1>1. /\ TablesOK(sess, tele) /\ LedgersOK(tele) /\ RowsOK(sess) /\ ThornInv(sess) /\ k \in Nat
      /\ tele[s] \in Telemetry /\ Balanced(tele[s])
  BY SessionsAssumption DEF IInv, TablesOK, LedgersOK
<1>2. sess' = sess /\ tele' = tf
  BY DEF ContextPut
<1>3. Booked(tele[s], RecordToolUsage(tele[s], k))
  BY <1>1, RecordKeepsLedger
<1>4. LedgersOK(tf) /\ \A q \in Ids : LedgerFrame(tele[q], tf[q])
  BY <1>1, <1>3, BookKeepsLedgers
<1> HIDE DEF tf
<1>5. \A c \in Ids : Frame(sess[c], sess[c])
  BY DEF Frame
<1>6. TablesOK(sess, tf)
  BY <1>1, <1>4, <1>5, QuietStep
<1> QED
  BY <1>2, <1>6

(* Every command.                                                          *)
LEMMA RunSound ==
    ASSUME IInv, Run
    PROVE  IInv'
<1>1. CASE Status_
  <2>1. TablesOK(sess, tele)' /\ Return /\ pc \notin {"autotick", "tick"}
    BY <1>1 DEF Status_, IInv
  <2> QED
    BY <2>1, ReturnSound
<1>2. ASSUME NEW s \in Ids, NEW p \in Parents, NEW b \in Requests, NEW a \in Actions,
             NEW role \in Roles, NEW probe \in Probes, SpawnSingle(s, p, b, a, role, probe)
      PROVE  IInv'
  <2>1. Return /\ pc \notin {"autotick", "tick"}
    BY <1>2 DEF SpawnSingle, Command
  <2> QED
    BY <1>2, <2>1, SpawnSingleStep, ReturnSound
<1>3. ASSUME NEW s \in Ids, NEW p \in Parents, NEW b \in Requests, NEW a \in Actions,
             NEW role \in Roles, NEW kind \in Modes, NEW life \in Lifespans,
             SpawnPersistent(s, p, b, a, role, kind, life)
      PROVE  IInv'
  <2>1. Return /\ pc \notin {"autotick", "tick"}
    BY <1>3 DEF SpawnPersistent, Command
  <2> QED
    BY <1>3, <2>1, SpawnPersistentStep, ReturnSound
<1>4. ASSUME NEW s \in Ids, Wake(s) \/ Resume(s) \/ ThornRelease(s)
      PROVE  IInv'
  <2>1. Return /\ pc \notin {"autotick", "tick"}
    BY <1>4 DEF Wake, Resume, ThornRelease, Command, Thorn
  <2> QED
    BY <1>4, <2>1, WakeStep, ResumeStep, ThornReleaseStep, ReturnSound
<1>5. ASSUME NEW s \in Ids, NEW graceful \in BOOLEAN, Terminate(s, graceful)
      PROVE  IInv'
  <2>1. Return /\ pc \notin {"autotick", "tick"}
    BY <1>5 DEF Terminate, Command
  <2> QED
    BY <1>5, <2>1, TerminateStep, ReturnSound
<1>6. ASSUME NEW s \in Ids, NEW n \in ContextTokens, ContextPut(s, n)
      PROVE  IInv'
  <2>1. Return /\ pc \notin {"autotick", "tick"}
    BY <1>6 DEF ContextPut, Command
  <2> QED
    BY <1>6, <2>1, ContextPutStep, ReturnSound
<1>7. ASSUME NEW s \in Ids, NEW c \in Ids, Quarantine(s, c)
      PROVE  IInv'
  <2>1. Return /\ pc \notin {"autotick", "tick"}
    BY <1>7 DEF Quarantine, Thorn
  <2> QED
    BY <1>7, <2>1, QuarantineStep, ReturnSound
<1> QED
  BY <1>1, <1>2, <1>3, <1>4, <1>5, <1>6, <1>7 DEF Run

(* Every step of the specification keeps the invariant.                    *)
LEMMA NextSound == IInv /\ [Next]_vars => IInv'
<1> SUFFICES ASSUME IInv, [Next]_vars
             PROVE  IInv'
  OBVIOUS
<1>1. CASE Begin
  BY <1>1, BeginSound
<1>2. CASE TickStep
  BY <1>2, TickSound
<1>3. CASE Run
  BY <1>3, RunSound
<1>4. CASE ForceShutdown
  <2>1. pc' = pc /\ todo' = todo /\ adv' = adv /\ pc = "idle"
    BY <1>4 DEF ForceShutdown
  <2>2. TablesOK(sess, tele)'
    BY <1>4, ForceShutdownStep
  <2> QED
    BY <2>1, <2>2 DEF IInv, TypeOK, TodoOK, TablesOK, RowsOK, LedgersOK
<1>5. CASE Elapse
  <2>1. pc' = pc /\ todo' = todo /\ adv' = adv /\ pc = "idle"
    BY <1>5 DEF Elapse
  <2>2. TablesOK(sess, tele)'
    BY <1>5, ElapseStep
  <2> QED
    BY <2>1, <2>2 DEF IInv, TypeOK, TodoOK, TablesOK, RowsOK, LedgersOK
<1>6. CASE UNCHANGED vars
  BY <1>6 DEF vars, IInv, TypeOK, TodoOK, TablesOK, RowsOK, LedgersOK, BudgetInv, Done,
              ThornInv, HoldMatches, ParentExists, Excused, Guarded, CellSound, ActiveThorns
<1> QED
  BY <1>1, <1>2, <1>3, <1>4, <1>5, <1>6 DEF Next

(* The inductive invariant holds in every reachable state.                 *)
THEOREM Inductive == Spec => []IInv
BY InitSound, NextSound, PTL DEF Spec

(* Type correctness of the session and ledger tables, for every set of     *)
(* sessions, budget, tool plan and lifespan.                               *)
THEOREM TypeCorrect == Spec => []TypeOK
<1>1. IInv => TypeOK
  BY DEF IInv
<1> QED
  BY <1>1, Inductive, PTL

(* record_tool_usage and settle_budget_reservation keep every ledger in    *)
(* balance, and a session's own tools never exceed its budget.             *)
THEOREM LedgersBalance == Spec => []LedgerBalances
<1>1. IInv => LedgerBalances
  BY DEF IInv, TablesOK, LedgersOK, Balanced, LedgerBalances
<1> QED
  BY <1>1, Inductive, PTL

(* The reservations a parent holds are exactly those its children have     *)
(* still to settle, whatever the tree of sessions.                         *)
THEOREM HoldsMatch == Spec => []HoldsMatchChildren
<1>1. IInv => HoldsMatchChildren
  BY DEF IInv, TablesOK, BudgetInv, HoldMatches, HoldsMatchChildren
<1> QED
  BY <1>1, Inductive, PTL

(* Only the settlement of a persistent child takes a session past its      *)
(* budget.                                                                 *)
THEOREM OverspendExplained == Spec => []OverspendNeedsPersistentChild
<1>1. IInv => OverspendNeedsPersistentChild
  BY DEF IInv, TablesOK, BudgetInv, Excused, OverspendNeedsPersistentChild
<1> QED
  BY <1>1, Inductive, PTL

(* A session that has ended holds nothing in any book.                     *)
THEOREM TerminatedReturns == Spec => []TerminatedReturnsBudget
<1>1. ASSUME IInv, NEW p \in Ids, NEW c \in Ids, sess[c].terminated
      PROVE  tele[p].held[c] = 0
  <2>1. HoldMatches(sess, tele, p, c) /\ Blank(sess[c])
    BY <1>1 DEF IInv, TablesOK, BudgetInv
  <2>2. ~Unsettled(sess[c])
    BY <1>1 DEF IInv, TablesOK, Done
  <2>3. sess[c].status # "lost"
    BY <1>1, <2>1 DEF Blank, NoRow
  <2> QED
    BY <2>1, <2>2, <2>3 DEF HoldMatches
<1>2. IInv => TerminatedReturnsBudget
  BY <1>1 DEF TerminatedReturnsBudget
<1> QED
  BY <1>2, Inductive, PTL

(* No interleaving of quarantine, release, expiry, termination, resume and *)
(* shutdown strands a session in quarantine without the cell that will     *)
(* put it back.                                                            *)
THEOREM QuarantineGuarded == Spec => []QuarantineIsGuarded
<1>1. ASSUME IInv
      PROVE  QuarantineIsGuarded
  <2>1. ThornInv(sess)
    BY <1>1 DEF IInv, TablesOK
  <2> QED
    BY <2>1 DEF ThornInv, Guarded, CellSound, QuarantineIsGuarded
<1> QED
  BY <1>1, Inductive, PTL

(* reserved_for_children is the sum of child_reservations in every ledger: *)
(* a reservation is booked once, under a name nobody held anything for,    *)
(* and a settlement gives back exactly what was booked.                    *)
THEOREM ReservationsAddUp == Spec => []ReservedIsSumOfHolds
<1>1. IInv => ReservedIsSumOfHolds
  BY DEF IInv, TablesOK, LedgersOK, Balanced, Summed, ReservedIsSumOfHolds
<1> QED
  BY <1>1, Inductive, PTL

-----------------------------------------------------------------------------
(* Lineage, thorn cells and revival.  What a step keeps of a row that is   *)
(* there, beside its children list ...                                     *)
Kept(r, n) ==
    /\ n.up = r.up /\ n.depth = r.depth /\ n.kind = r.kind
    /\ n.status = r.status \/ (n.status \notin NoRow /\ r.status \notin NoRow)
    /\ n.kind = "thorn" /\ n.status = "thorn_active" => r.status = "thorn_active"

(* ... and that it does not revive a stopped session.                      *)
Lives(r, n) == r.terminated /\ r.status \notin Running => n.status \notin Running

(* A step that creates no session and lists none, and revives one only if  *)
(* an active cell has it as its target.                                    *)
Quiet(se, sf) ==
    \A c \in Ids : /\ Kept(se[c], sf[c]) /\ sf[c].kids = se[c].kids
                   /\ Lives(se[c], sf[c]) \/ Guarded(se, c)

(* A step that gives s a row; p may list it as a child.                    *)
Grows(se, sf, s, p) ==
    /\ se[s].status = "absent" /\ ~se[s].terminated /\ sf[s].kids = {}
    /\ \A c \in Ids : c # s => Kept(se[c], sf[c]) /\ Lives(se[c], sf[c])
    /\ \A c \in Ids : c # s =>
          \/ sf[c].kids = se[c].kids
          \/ /\ c = p /\ sf[c].kids = se[c].kids \cup {s}
             /\ sf[s].up = p /\ sf[s].depth = se[p].depth + 1 /\ sf[s].depth < MaxDepth
             /\ sf[s].status \notin NoRow /\ se[p].status \notin NoRow

IsCell(r) == r.kind = "thorn" /\ r.status = "thorn_active"

(* LineageSound, with the facts that make it inductive: only sessions that *)
(* have a row are listed, and only by sessions that have one.              *)
Listed(se, p, c) ==
    /\ se[c].up = p /\ se[c].depth = se[p].depth + 1 /\ se[c].depth < MaxDepth
    /\ se[c].status \notin NoRow

LineInv(se) ==
    /\ \A p, c \in Ids : c \in se[p].kids => Listed(se, p, c)
    /\ \A p \in Ids : se[p].status \in NoRow => se[p].kids = {}

CapInv(se) == Cardinality(ActiveThorns(se)) <= ThornCellLimit(se)

(* A quiet step keeps the lineage.                                         *)
LEMMA QuietKeepsLine ==
    ASSUME NEW se, NEW sf, Quiet(se, sf), LineInv(se)
    PROVE  LineInv(sf)
<1>0. \A p \in Ids : sf[p].status \in NoRow => sf[p].kids = {}
  BY DEF LineInv, Quiet, Kept
<1> SUFFICES ASSUME NEW p \in Ids, NEW c \in Ids, c \in sf[p].kids PROVE Listed(sf, p, c)
  BY <1>0 DEF LineInv
<1>1. Listed(se, p, c)
  BY DEF LineInv, Quiet
<1> QED
  BY <1>1 DEF Listed, Quiet, Kept

(* So does a step that gives an unused identifier a row.                   *)
LEMMA GrowthKeepsLine ==
    ASSUME NEW se, NEW sf, NEW s \in Ids, NEW q, Grows(se, sf, s, q), LineInv(se)
    PROVE  LineInv(sf)
<1>0. \A p \in Ids : sf[p].status \in NoRow => sf[p].kids = {}
  BY DEF LineInv, Grows, Kept
<1> SUFFICES ASSUME NEW p \in Ids, NEW c \in Ids, c \in sf[p].kids PROVE Listed(sf, p, c)
  BY <1>0 DEF LineInv
<1>1. p # s
  BY DEF Grows
<1>2. CASE c \in se[p].kids
  <2>1. Listed(se, p, c)
    BY <1>2 DEF LineInv
  <2>2. c # s
    BY <2>1 DEF Listed, Grows, NoRow
  <2> QED
    BY <1>1, <2>1, <2>2 DEF Listed, Grows, Kept
<1>3. CASE c \notin se[p].kids
  <2>1. /\ p = q /\ c = s /\ sf[s].up = p /\ sf[s].depth = se[p].depth + 1
        /\ sf[s].depth < MaxDepth /\ sf[s].status \notin NoRow
    BY <1>1, <1>3 DEF Grows
  <2>2. sf[p].depth = se[p].depth
    BY <1>1 DEF Grows, Kept
  <2> QED
    BY <2>1, <2>2 DEF Listed
<1> QED
  BY <1>2, <1>3

(* More rows never lower the number of cells allowed.                      *)
LEMMA DivMonotone ==
    ASSUME NEW a \in Nat, NEW b \in Nat, NEW k \in Nat \ {0}, a <= b
    PROVE  a \div k <= b \div k /\ a \div k \in Nat /\ b \div k \in Nat
<1> DEFINE q == a \div k
<1> DEFINE r == b \div k
<1>1. q \in Nat /\ r \in Nat
  OBVIOUS
<1>2. k * q <= a /\ b < k * r + k
  OBVIOUS
<1> HIDE DEF q, r
<1>3. k * q < k * (r + 1)
  BY <1>1, <1>2
<1>4. q < r + 1
  BY <1>1, <1>3
<1> QED
  BY <1>1, <1>4 DEF q, r

(* ... so a table that has all the rows of another allows as many cells.   *)
LEMMA LimitGrows ==
    ASSUME NEW se, NEW sf, Rows(se) \subseteq Rows(sf)
    PROVE  /\ ThornCellLimit(se) <= ThornCellLimit(sf)
           /\ ThornCellLimit(se) \in Nat /\ ThornCellLimit(sf) \in Nat
<1> DEFINE x == Cardinality(Rows(se))
<1> DEFINE y == Cardinality(Rows(sf))
<1>1. IsFiniteSet(Rows(sf)) /\ IsFiniteSet(Rows(se))
  BY FS_Subset, SessionsAssumption DEF Rows
<1>2. x \in Nat /\ y \in Nat /\ x <= y
  BY <1>1, FS_CardinalityType, FS_Subset
<1> HIDE DEF x, y
<1> DEFINE m == Max({1, x})
<1> DEFINE n == Max({1, y})
<1>3. m \in Nat /\ n \in Nat /\ m <= n /\ m >= 1
  BY <1>2, MaxOfTwo
<1>4. /\ ThornCellLimit(se) = (m + ThornShare - 1) \div ThornShare
      /\ ThornCellLimit(sf) = (n + ThornShare - 1) \div ThornShare
  BY DEF ThornCellLimit, x, y
<1> HIDE DEF m, n
<1> DEFINE a == m + ThornShare - 1
<1> DEFINE b == n + ThornShare - 1
<1>5. a \in Nat /\ b \in Nat /\ a <= b /\ ThornShare \in Nat \ {0}
  BY <1>3, SessionsAssumption
<1> HIDE DEF a, b
<1>6. a \div ThornShare <= b \div ThornShare /\ a \div ThornShare \in Nat /\ b \div ThornShare \in Nat
  BY <1>5, DivMonotone
<1> QED
  BY <1>4, <1>6 DEF a, b

(* The cells can be counted.                                               *)
LEMMA CellsFinite ==
    ASSUME NEW se
    PROVE  IsFiniteSet(ActiveThorns(se)) /\ Cardinality(ActiveThorns(se)) \in Nat
<1>1. ActiveThorns(se) \subseteq Ids
  BY DEF ActiveThorns
<1>2. IsFiniteSet(ActiveThorns(se))
  BY <1>1, FS_Subset, SessionsAssumption
<1> QED
  BY <1>2, FS_CardinalityType

(* Fewer cells in a larger table.                                          *)
LEMMA CapKept ==
    ASSUME NEW se, NEW sf, CapInv(se), Rows(se) \subseteq Rows(sf),
           ActiveThorns(sf) \subseteq ActiveThorns(se)
    PROVE  CapInv(sf)
<1>1. Cardinality(ActiveThorns(sf)) <= Cardinality(ActiveThorns(se))
  BY CellsFinite, FS_Subset
<1> QED
  BY <1>1, LimitGrows, CellsFinite DEF CapInv

(* A quiet step adds no cell and drops no row.                             *)
LEMMA QuietKeepsCap ==
    ASSUME NEW se, NEW sf, Quiet(se, sf), CapInv(se)
    PROVE  CapInv(sf)
<1>1. \A c \in Ids : Kept(se[c], sf[c])
  BY DEF Quiet
<1>2. Rows(se) \subseteq Rows(sf)
  BY <1>1 DEF Rows, Kept
<1>3. ActiveThorns(sf) \subseteq ActiveThorns(se)
  BY <1>1 DEF ActiveThorns, Kept
<1> QED
  BY <1>2, <1>3, CapKept

(* A new row is a cell only if there was a slot for it.                    *)
LEMMA GrowthKeepsCap ==
    ASSUME NEW se, NEW sf, NEW s \in Ids, NEW p, Grows(se, sf, s, p), CapInv(se),
           IsCell(sf[s]) => Cardinality(ActiveThorns(se)) < ThornCellLimit(se)
    PROVE  CapInv(sf)
<1>1. /\ \A c \in Ids : c # s => Kept(se[c], sf[c])
      /\ se[s].status = "absent"
  BY DEF Grows
<1>2. Rows(se) \subseteq Rows(sf)
  BY <1>1 DEF Rows, Kept, NoRow
<1>3. CASE ~IsCell(sf[s])
  <2>1. ActiveThorns(sf) \subseteq ActiveThorns(se)
    BY <1>1, <1>3 DEF ActiveThorns, Kept, IsCell
  <2> QED
    BY <1>2, <2>1, CapKept
<1>4. CASE IsCell(sf[s])
  <2>1. ActiveThorns(sf) \subseteq ActiveThorns(se) \cup {s}
    BY <1>1 DEF ActiveThorns, Kept
  <2>2. /\ IsFiniteSet(ActiveThorns(se) \cup {s})
        /\ Cardinality(ActiveThorns(se) \cup {s}) <= Cardinality(ActiveThorns(se)) + 1
    <3> DEFINE A == ActiveThorns(se)
    <3>1. IsFiniteSet(A) /\ Cardinality(A) \in Nat
      BY CellsFinite
    <3> HIDE DEF A
    <3>2. /\ IsFiniteSet(A \cup {s})
          /\ Cardinality(A \cup {s}) = IF s \in A THEN Cardinality(A) ELSE Cardinality(A) + 1
      BY <3>1, FS_AddElement
    <3> QED
      BY <3>1, <3>2 DEF A
  <2>3. Cardinality(ActiveThorns(sf)) <= Cardinality(ActiveThorns(se) \cup {s})
    BY <2>1, <2>2, FS_Subset
  <2>4. Cardinality(ActiveThorns(se) \cup {s}) \in Nat
    BY <2>2, FS_CardinalityType
  <2> QED
    BY <1>2, <1>4, <2>2, <2>3, <2>4, LimitGrows, CellsFinite DEF CapInv
<1> QED
  BY <1>3, <1>4

(* Rows that stay what they are.                                           *)
Stays(r, n) == Kept(r, n) /\ n.kids = r.kids /\ Lives(r, n)

(* A row that is not written.                                              *)
LEMMA SameStays == \A r : Stays(r, r)
  BY DEF Stays, Kept, Lives

(* A row whose new status, if it has one, is a proper one and no running   *)
(* one.                                                                    *)
LEMMA StoppedStays ==
    ASSUME NEW r, NEW n, n.up = r.up, n.depth = r.depth, n.kind = r.kind, n.kids = r.kids,
           \/ n.status = r.status
           \/ /\ r.status \notin NoRow
              /\ n.status \notin NoRow \cup Running \cup {"thorn_active"}
    PROVE  Stays(r, n)
  BY DEF Stays, Kept, Lives

(* The rows the commands write.                                            *)
LEMMA WrittenRows ==
    ASSUME NEW r \in Session, r.status \notin NoRow
    PROVE  /\ Stays(r, [r EXCEPT !.status = "failed"])
           /\ \A k \in Nat : Stays(r, [r EXCEPT !.checkIn = k])
           /\ \A st \in Stopped : Stays(r, EndRow(r, st)) /\ Stays(r, [EndRow(r, st) EXCEPT !.settled = TRUE])
           /\ IsPersistent(r) => Stays(r, ResumedRow(r))
<1>1. Stays(r, [r EXCEPT !.status = "failed"])
  <2> DEFINE n == [r EXCEPT !.status = "failed"]
  <2>1. n.up = r.up /\ n.depth = r.depth /\ n.kind = r.kind /\ n.kids = r.kids /\ n.status = "failed"
    BY DEF Session
  <2>2. "failed" \notin NoRow \cup Running \cup {"thorn_active"}
    BY DEF NoRow, Running, Persistent
  <2> HIDE DEF n
  <2>3. Stays(r, n)
    BY <2>1, <2>2, StoppedStays
  <2> QED
    BY <2>3 DEF n
<1>2. ASSUME NEW k \in Nat
      PROVE  Stays(r, [r EXCEPT !.checkIn = k])
  <2> DEFINE n == [r EXCEPT !.checkIn = k]
  <2>1. n.up = r.up /\ n.depth = r.depth /\ n.kind = r.kind /\ n.kids = r.kids /\ n.status = r.status
    BY DEF Session
  <2> HIDE DEF n
  <2>2. Stays(r, n)
    BY <2>1, StoppedStays
  <2> QED
    BY <2>2 DEF n
<1>3. ASSUME NEW st \in Stopped
      PROVE  Stays(r, EndRow(r, st)) /\ Stays(r, [EndRow(r, st) EXCEPT !.settled = TRUE])
  <2> DEFINE h == SetHealth(r, "unhealthy")
  <2> DEFINE n == [r EXCEPT !.status = st, !.terminated = TRUE, !.service = h]
  <2> DEFINE m == [n EXCEPT !.settled = TRUE]
  <2>0. EndRow(r, st) = n
    BY DEF EndRow
  <2> HIDE DEF h
  <2>1. n.up = r.up /\ n.depth = r.depth /\ n.kind = r.kind /\ n.kids = r.kids /\ n.status = st
    BY DEF Session
  <2>2. m.up = r.up /\ m.depth = r.depth /\ m.kind = r.kind /\ m.kids = r.kids /\ m.status = st
    BY DEF Session
  <2>3. st \notin NoRow \cup Running \cup {"thorn_active"}
    BY DEF NoRow, Running, Persistent, Stopped
  <2> HIDE DEF n, m
  <2>4. Stays(r, n) /\ Stays(r, m)
    BY <2>1, <2>2, <2>3, StoppedStays
  <2> QED
    BY <2>0, <2>4 DEF m
<1>4. ASSUME IsPersistent(r)
      PROVE  Stays(r, ResumedRow(r))
  <2> DEFINE st == IF r.kind = "background" THEN "background_running" ELSE "persistent_running"
  <2> DEFINE m == [r EXCEPT !.reachable = TRUE]
  <2> DEFINE n == [r EXCEPT !.reachable = TRUE, !.checkIn = CheckInInterval, !.status = st]
  <2>1. ResumedRow(r) = IF r.terminated THEN m ELSE n
    BY DEF ResumedRow
  <2>2. st \notin NoRow \cup {"thorn_active"}
    BY DEF NoRow
  <2> HIDE DEF st
  <2>3. m.up = r.up /\ m.depth = r.depth /\ m.kind = r.kind /\ m.kids = r.kids /\ m.status = r.status
    BY DEF Session
  <2>4. n.up = r.up /\ n.depth = r.depth /\ n.kind = r.kind /\ n.kids = r.kids /\ n.status = st
    BY DEF Session
  <2> HIDE DEF m, n
  <2>5. Stays(r, m)
    BY <2>3, StoppedStays
  <2>6. ~r.terminated => Stays(r, n)
    BY <2>2, <2>4 DEF Stays, Kept, Lives
  <2> QED
    BY <2>1, <2>5, <2>6
<1> QED
  BY <1>1, <1>2, <1>3, <1>4

(* A step that rewrites one row so is quiet.                               *)
LEMMA OneRowQuiet ==
    ASSUME NEW se, RowsOK(se), NEW s \in Ids, NEW n, Stays(se[s], n)
    PROVE  Quiet(se, [se EXCEPT ![s] = n])
<1>1. \A c \in Ids : [se EXCEPT ![s] = n][c] = IF c = s THEN n ELSE se[c]
  BY DEF RowsOK
<1> DEFINE sf == [se EXCEPT ![s] = n]
<1> HIDE DEF sf
<1>2. \A c \in Ids : Stays(se[c], sf[c])
  BY <1>1, SameStays DEF sf
<1>3. Quiet(se, sf)
  BY <1>2 DEF Quiet, Stays
<1> QED
  BY <1>3 DEF sf

(* The end of a session and its settlement.                                *)
LEMMA EndQuiet ==
    ASSUME NEW se, RowsOK(se), NEW te, NEW s \in Ids, se[s].status \notin NoRow, NEW st \in Stopped
    PROVE  Quiet(se, SettleBudgetReservation([se EXCEPT ![s] = EndRow(@, st)], te, s)[1])
<1> DEFINE r == EndRow(se[s], st)
<1> DEFINE m == [r EXCEPT !.settled = TRUE]
<1> DEFINE sf == [se EXCEPT ![s] = r]
<1> DEFINE e == SettleBudgetReservation(sf, te, s)[1]
<1>1. se[s] \in Session /\ se \in [Ids -> Session]
  BY DEF RowsOK
<1>2. Stays(se[s], r) /\ Stays(se[s], m)
  BY <1>1, WrittenRows
<1> HIDE DEF r
<1>3. e \in {sf, [sf EXCEPT ![s].settled = TRUE]}
  BY DEF SettleBudgetReservation
<1>4. [sf EXCEPT ![s].settled = TRUE] = [se EXCEPT ![s] = m]
  BY <1>1
<1> HIDE DEF m, e
<1>5. Quiet(se, sf) /\ Quiet(se, [se EXCEPT ![s] = m])
  BY <1>2, OneRowQuiet
<1> QED
  BY <1>3, <1>4, <1>5 DEF e, r

(* Recovery after reload.                                                  *)
LEMMA RecoverStays ==
    ASSUME NEW se, RowsOK(se), NEW s \in Ids
    PROVE  LET n == RecoverPersistent(se)[s]
           IN  Stays(se[s], n) /\ n.status = se[s].status /\ n.terminated = se[s].terminated
                 /\ n.settled = se[s].settled
<1>1. se[s] \in Session
  BY DEF RowsOK
<1> DEFINE m == [se[s] EXCEPT !.reachable = TRUE]
<1>2. RecoverPersistent(se)[s] \in {se[s], m}
  BY DEF RecoverPersistent
<1>3. /\ m.up = se[s].up /\ m.depth = se[s].depth /\ m.kind = se[s].kind /\ m.kids = se[s].kids
      /\ m.status = se[s].status /\ m.terminated = se[s].terminated /\ m.settled = se[s].settled
  BY <1>1 DEF Session
<1> HIDE DEF m
<1>4. Stays(se[s], m)
  BY <1>3, StoppedStays
<1> QED
  BY <1>2, <1>3, <1>4, SameStays

(* Recovery changes no cell.                                               *)
LEMMA RecoverGuards ==
    ASSUME NEW se, RowsOK(se), NEW g
    PROVE  Guarded(RecoverPersistent(se), g) => Guarded(se, g)
<1> DEFINE sf == RecoverPersistent(se)
<1>1. \A c \in Ids : sf[c].status = se[c].status /\ sf[c].target = se[c].target /\ sf[c].kind = se[c].kind
  BY RecoverFrame
<1> HIDE DEF sf
<1>2. Guarded(sf, g) => Guarded(se, g)
  BY <1>1 DEF Guarded, ActiveThorns
<1> QED
  BY <1>2 DEF sf

(* The release of guarded targets.                                         *)
LEMMA ReleaseQuiet ==
    ASSUME NEW se, RowsOK(se), ThornInv(se), NEW T, \A g \in T : Guarded(se, g)
    PROVE  /\ Quiet(se, ReleaseThornCells(se, T))
           /\ \A s \in Ids : ReleaseThornCells(se, T)[s].settled = se[s].settled
<1> SUFFICES ASSUME NEW s \in Ids
             PROVE  LET n == ReleaseThornCells(se, T)[s]
                    IN  /\ Kept(se[s], n) /\ n.kids = se[s].kids /\ n.settled = se[s].settled
                        /\ Lives(se[s], n) \/ Guarded(se, s)
  BY DEF Quiet
<1> DEFINE st == IF se[s].prev = "absent" THEN "running" ELSE se[s].prev
<1> DEFINE cell == [se[s] EXCEPT !.status = "thorn_destroyed", !.reachable = FALSE,
                             !.ttl = 0, !.service = SetHealth(se[s], "unhealthy")]
<1> DEFINE back == [se[s] EXCEPT !.status = st, !.reachable = TRUE, !.prev = "absent",
                             !.service = SetHealth(se[s], "healthy")]
<1>1. se[s] \in Session
  BY DEF RowsOK
<1>2. s \in T => /\ se[s].kind # "thorn" /\ se[s].status \notin NoRow
                 /\ se[s].prev \notin NoRow \cup {"quarantined_thorn"}
  BY DEF Guarded, ThornInv, CellSound
<1>3. s \in ActiveThorns(se) => se[s].kind = "thorn" /\ se[s].status = "thorn_active"
  BY DEF ActiveThorns
<1>4. ReleaseThornCells(se, T)[s] =
        IF s \in ActiveThorns(se) /\ se[s].target \in T THEN cell
        ELSE IF s \in T THEN back ELSE se[s]
  BY <1>2, <1>3 DEF ReleaseThornCells
<1>5. /\ cell.status = "thorn_destroyed" /\ cell.kind = se[s].kind /\ cell.up = se[s].up
      /\ cell.depth = se[s].depth /\ cell.kids = se[s].kids /\ cell.settled = se[s].settled
  BY <1>1 DEF Session
<1>6. /\ back.status = st /\ back.kind = se[s].kind /\ back.up = se[s].up
      /\ back.depth = se[s].depth /\ back.kids = se[s].kids /\ back.settled = se[s].settled
  BY <1>1 DEF Session
<1>7. s \in T => st \notin NoRow
  BY <1>2 DEF NoRow
<1> HIDE DEF cell, back, st
<1>8. CASE s \in ActiveThorns(se) /\ se[s].target \in T
  <2>1. "thorn_destroyed" \notin NoRow \cup Running \cup {"thorn_active"} /\ se[s].status \notin NoRow
    BY <1>3, <1>8 DEF NoRow, Running, Persistent
  <2>2. Stays(se[s], cell)
    BY <1>5, <2>1, StoppedStays
  <2> QED
    BY <1>4, <1>5, <1>8, <2>2 DEF Stays
<1>9. CASE ~(s \in ActiveThorns(se) /\ se[s].target \in T) /\ s \in T
  BY <1>2, <1>4, <1>6, <1>7, <1>9 DEF Kept
<1>10. CASE ~(s \in ActiveThorns(se) /\ se[s].target \in T) /\ s \notin T
  BY <1>4, <1>10, SameStays DEF Stays
<1> QED
  BY <1>8, <1>9, <1>10

(* The drain of expired cells.                                             *)
LEMMA DrainQuiet ==
    ASSUME NEW se, RowsOK(se), ThornInv(se)
    PROVE  /\ Quiet(se, DrainExpiredThornCells(se))
           /\ \A s \in Ids : DrainExpiredThornCells(se)[s].settled = se[s].settled
<1> DEFINE T == {se[c].target : c \in {d \in ActiveThorns(se) : se[d].ttl = 0}}
<1>1. \A g \in T : Guarded(se, g)
  BY DEF Guarded
<1>2. DrainExpiredThornCells(se) = ReleaseThornCells(se, T)
  BY DEF DrainExpiredThornCells
<1> HIDE DEF T
<1> QED
  BY <1>1, <1>2, ReleaseQuiet

(* The prelude of run().                                                   *)
LEMMA PreludeQuiet ==
    ASSUME NEW se, NEW te, TablesOK(se, te)
    PROVE  /\ Quiet(se, DrainExpiredThornCells(RecoverPersistent(se)))
           /\ \A s \in Ids : DrainExpiredThornCells(RecoverPersistent(se))[s].settled = se[s].settled
<1> DEFINE m == RecoverPersistent(se)
<1> DEFINE n == DrainExpiredThornCells(m)
<1>0. RowsOK(se) /\ ThornInv(se)
  BY DEF TablesOK
<1>1. \A s \in Ids : /\ Stays(se[s], m[s]) /\ m[s].status = se[s].status
                     /\ m[s].terminated = se[s].terminated /\ m[s].settled = se[s].settled
  BY <1>0, RecoverStays
<1>2. RowsOK(m)
  BY <1>0, RecoverTyped
<1>3. \A s \in Ids : ThornFrame(se[s], m[s])
  <2>1. \A s \in Ids : /\ m[s].status = se[s].status /\ m[s].prev = se[s].prev
                       /\ m[s].target = se[s].target /\ m[s].kind = se[s].kind
    BY <1>0, RecoverFrame
  <2> QED
    BY <2>1 DEF ThornFrame
<1>4. \A s \in Ids : Guarded(m, s) => Guarded(se, s)
  BY <1>0, RecoverGuards
<1> HIDE DEF m
<1>5. ThornInv(m)
  BY <1>0, <1>3, FrameKeepsThorn
<1>6. Quiet(m, n) /\ \A s \in Ids : n[s].settled = m[s].settled
  BY <1>2, <1>5, DrainQuiet
<1> HIDE DEF n
<1>7. Quiet(se, n)
  <2> SUFFICES ASSUME NEW s \in Ids
               PROVE  /\ Kept(se[s], n[s]) /\ n[s].kids = se[s].kids
                      /\ Lives(se[s], n[s]) \/ Guarded(se, s)
    BY DEF Quiet
  <2>1. /\ Kept(m[s], n[s]) /\ n[s].kids = m[s].kids
        /\ Lives(m[s], n[s]) \/ Guarded(m, s)
    BY <1>6 DEF Quiet
  <2>2. Kept(se[s], n[s]) /\ n[s].kids = se[s].kids
    BY <1>1, <2>1 DEF Stays, Kept
  <2>3. Lives(m[s], n[s]) => Lives(se[s], n[s])
    BY <1>1 DEF Lives
  <2> QED
    BY <1>4, <2>1, <2>2, <2>3
<1> QED
  BY <1>1, <1>6, <1>7 DEF n, m

-----------------------------------------------------------------------------
(* Charges.  The children a step settles with p, and the step's bill.      *)
NewlySettled(se, sf, p) == {c \in Ids : sf[c].parent = p /\ sf[c].settled /\ ~se[c].settled}

Bill(se, sf, tf, p) == SumFunctionOnSet([c \in Ids |-> tf[c].used], NewlySettled(se, sf, p))

Charges(se, sf, te, tf) ==
    \A p \in Ids : /\ tf[p].settled = te[p].settled + Bill(se, sf, tf, p)
                   /\ se[p].status \in NoRow => tf[p].settled = te[p].settled

(* A step that settles nobody and leaves the charges alone.                *)
LEMMA NoCharge ==
    ASSUME NEW se, NEW sf, NEW te, NEW tf, LedgersOK(te),
           \A c \in Ids : sf[c].settled => se[c].settled,
           \A p \in Ids : tf[p].settled = te[p].settled
    PROVE  Charges(se, sf, te, tf)
<1> SUFFICES ASSUME NEW p \in Ids PROVE tf[p].settled = te[p].settled + Bill(se, sf, tf, p)
  BY DEF Charges
<1>1. NewlySettled(se, sf, p) = {}
  BY DEF NewlySettled
<1>2. Bill(se, sf, tf, p) = 0
  BY <1>1, SumEmpty DEF Bill
<1>3. te[p].settled \in Nat
  BY DEF LedgersOK, Telemetry
<1> QED
  BY <1>2, <1>3

(* A sum of one.                                                           *)
LEMMA SumOne ==
    ASSUME NEW f, NEW x, f[x] \in Nat
    PROVE  SumFunctionOnSet(f, {x}) = f[x]
<1>1. IsFiniteSet({x})
  BY FS_Singleton
<1>2. SumFunctionOnSet(f, {x}) = f[x] + SumFunctionOnSet(f, {x} \ {x})
  BY <1>1, SumRemove
<1>3. {x} \ {x} = {}
  OBVIOUS
<1> QED
  BY <1>2, <1>3, SumEmpty

(* A step that settles s with q and charges q what s has used.             *)
LEMMA OneCharge ==
    ASSUME NEW se, NEW sf, NEW te, NEW tf, LedgersOK(te), LedgersOK(tf),
           NEW s \in Ids, NEW q \in Ids, ~se[s].settled, sf[s].settled, sf[s].parent = q,
           \A c \in Ids : c # s => (sf[c].settled => se[c].settled),
           tf[q].settled = te[q].settled + tf[s].used,
           \A p \in Ids : p # q => tf[p].settled = te[p].settled,
           se[q].status \notin NoRow
    PROVE  Charges(se, sf, te, tf)
<1> SUFFICES ASSUME NEW p \in Ids PROVE tf[p].settled = te[p].settled + Bill(se, sf, tf, p)
  BY DEF Charges
<1>1. te[p].settled \in Nat /\ tf[s].used \in Nat
  BY DEF LedgersOK, Telemetry
<1>2. CASE p = q
  <2> DEFINE f == [c \in Ids |-> tf[c].used]
  <2>1. NewlySettled(se, sf, p) = {s}
    BY <1>2 DEF NewlySettled
  <2>2. f[s] = tf[s].used
    OBVIOUS
  <2>3. Bill(se, sf, tf, p) = SumFunctionOnSet(f, {s})
    BY <2>1 DEF Bill
  <2> HIDE DEF f
  <2>4. SumFunctionOnSet(f, {s}) = tf[s].used
    BY <1>1, <2>2, SumOne
  <2> QED
    BY <1>2, <2>3, <2>4
<1>3. CASE p # q
  <2>1. NewlySettled(se, sf, p) = {}
    BY <1>3 DEF NewlySettled
  <2>2. Bill(se, sf, tf, p) = 0
    BY <2>1, SumEmpty DEF Bill
  <2> QED
    BY <1>1, <1>3, <2>2
<1> QED
  BY <1>2, <1>3

(* settle_budget_reservation, after a step from se0, te0 to se, te that    *)
(* settled and charged nobody.                                             *)
LEMMA SettleCharges ==
    ASSUME NEW se0, NEW te0, LedgersOK(te0), NEW se, NEW te,
           RowsOK(se), LedgersOK(te), BudgetInv(se, te), NEW s \in Ids,
           \A c \in Ids : se[c].settled = se0[c].settled,
           \A p \in Ids : te[p].settled = te0[p].settled,
           \A c \in Ids : c # s /\ se0[c].status \in NoRow => se[c].status \in NoRow
    PROVE  LET e == SettleBudgetReservation(se, te, s)
           IN  Charges(se0, e[1], te0, e[2])
<1>1. CASE ~Unsettled(se[s])
  <2>1. SettleBudgetReservation(se, te, s) = <<se, te>>
    BY <1>1 DEF SettleBudgetReservation
  <2>2. Charges(se0, se, te0, te)
    BY NoCharge
  <2> QED
    BY <2>1, <2>2
<1>2. CASE Unsettled(se[s])
  <2> DEFINE q == se[s].parent
  <2> DEFINE sf == [se EXCEPT ![s].settled = TRUE]
  <2> DEFINE t == SettleInto(te[q], s, se[s].res, te[s].used)
  <2> DEFINE tf == [te EXCEPT ![q] = t]
  <2>0. InBook(se, te, s)
    BY BookedChild
  <2>1. SettleBudgetReservation(se, te, s) = <<sf, tf>>
    BY <1>2 DEF SettleBudgetReservation
  <2>2. LedgersOK(tf)
    <3>1. LedgersOK(SettleBudgetReservation(se, te, s)[2])
      BY <2>0, SettleTyped
    <3> QED
      BY <2>1, <3>1
  <2>3. q \in Ids /\ te \in [Ids -> Telemetry]
    BY <1>2, <2>0, SettledParent DEF LedgersOK
  <2>4. q # s /\ se[q].status \notin NoRow
    BY <2>3 DEF BudgetInv, ParentExists
  <2>5. t.settled = te[q].settled + te[s].used
    BY <1>2, <2>0, SettledParent DEF Settled
  <2>6. ~se[s].settled
    BY <1>2 DEF Unsettled
  <2> HIDE DEF t
  <2>7. tf[q] = t /\ \A p \in Ids : p # q => tf[p] = te[p]
    BY <2>3
  <2>8. sf[s].settled /\ sf[s].parent = q /\ \A c \in Ids : c # s => sf[c] = se[c]
    <3>1. se[s] \in Session /\ se \in [Ids -> Session]
      BY DEF RowsOK
    <3> QED
      BY <3>1 DEF Session
  <2> HIDE DEF q, sf, tf
  <2>9. /\ ~se0[s].settled /\ \A c \in Ids : c # s => (sf[c].settled => se0[c].settled)
        /\ se0[q].status \notin NoRow
    BY <2>3, <2>4, <2>6, <2>8
  <2>10. /\ tf[q].settled = te0[q].settled + tf[s].used
         /\ \A p \in Ids : p # q => tf[p].settled = te0[p].settled
    BY <2>3, <2>4, <2>5, <2>7
  <2>11. Charges(se0, sf, te0, tf)
    BY <2>2, <2>3, <2>8, <2>9, <2>10, OneCharge
  <2> QED
    BY <2>1, <2>11
<1> QED
  BY <1>1, <1>2

(* Booking usage charges nobody.                                           *)
LEMMA BookedCharges ==
    ASSUME NEW te, LedgersOK(te), NEW s \in Ids, NEW t, Booked(te[s], t)
    PROVE  \A p \in Ids : [te EXCEPT ![s] = t][p].settled = te[p].settled
<1>1. \A p \in Ids : [te EXCEPT ![s] = t][p] = IF p = s THEN t ELSE te[p]
  BY DEF LedgersOK
<1> QED
  BY <1>1 DEF Booked

-----------------------------------------------------------------------------
(* The shape of every step: it is quiet or gives one identifier a row, a   *)
(* cell only while there is a slot for it, and charges what it settles.    *)

Growth(se, sf) ==
    \E s \in Ids, p \in Ids \cup {None} :
        /\ Grows(se, sf, s, p)
        /\ IsCell(sf[s]) => Cardinality(ActiveThorns(se)) < ThornCellLimit(se)

Shape(se, sf, te, tf) == (Quiet(se, sf) \/ Growth(se, sf)) /\ Charges(se, sf, te, tf)

(* A spawn's row, listed by its parent or not.                             *)
LEMMA SpawnGrows ==
    ASSUME RowsOK(sess), NEW s \in Ids, sess[s].status = "absent", ~sess[s].terminated,
           NEW p \in Ids \cup {None}, p \in Ids => sess[p].status \notin NoRow,
           SpawnDepth(p) < MaxDepth, NEW r \in Session,
           r.up = p, r.kids = {}, r.depth = SpawnDepth(p), r.status \notin NoRow
    PROVE  /\ Grows(sess, InsertRow(s, p, r), s, p)
           /\ Grows(sess, [sess EXCEPT ![s] = r], s, p)
<1>0. None \notin Ids
  BY SessionsAssumption
<1>1. \A c \in Ids : Stays(sess[c], sess[c])
  BY SameStays
<1>2. Grows(sess, [sess EXCEPT ![s] = r], s, p)
  <2> DEFINE sf == [sess EXCEPT ![s] = r]
  <2>1. sf[s] = r /\ \A c \in Ids : c # s => sf[c] = sess[c]
    BY DEF RowsOK
  <2> HIDE DEF sf
  <2>2. Grows(sess, sf, s, p)
    BY <1>1, <2>1 DEF Grows, Stays
  <2> QED
    BY <2>2 DEF sf
<1>3. Grows(sess, InsertRow(s, p, r), s, p)
  <2> DEFINE sf == InsertRow(s, p, r)
  <2> DEFINE k == sess[p].kids \cup {s}
  <2> DEFINE n == [sess[p] EXCEPT !.kids = k]
  <2>1. sf[s] = r /\ \A c \in Ids : c # s /\ c # p => sf[c] = sess[c]
    BY DEF InsertRow
  <2>2. p \in Ids => p # s
    BY DEF NoRow
  <2>3. p \in Ids => sf[p] = n
    BY <2>2 DEF InsertRow
  <2>4. p \in Ids => sess[p] \in Session
    BY DEF RowsOK
  <2> HIDE DEF sf
  <2>5. p \in Ids => /\ n.kids = k /\ n.up = sess[p].up /\ n.depth = sess[p].depth
                     /\ n.kind = sess[p].kind /\ n.status = sess[p].status
    BY <2>4 DEF Session
  <2>6. p \in Ids => r.depth = sess[p].depth + 1
    BY <1>0 DEF SpawnDepth
  <2> HIDE DEF n, k
  <2>7. ASSUME NEW c \in Ids, c # s
        PROVE  Kept(sess[c], sf[c]) /\ Lives(sess[c], sf[c])
    <3>1. CASE c = p
      BY <2>3, <2>5, <3>1 DEF Kept, Lives
    <3>2. CASE c # p
      BY <1>1, <2>1, <2>7, <3>2 DEF Stays
    <3> QED
      BY <3>1, <3>2
  <2>8. ASSUME NEW c \in Ids, c # s
        PROVE  \/ sf[c].kids = sess[c].kids
               \/ /\ c = p /\ sf[c].kids = sess[c].kids \cup {s}
                  /\ sf[s].up = p /\ sf[s].depth = sess[p].depth + 1 /\ sf[s].depth < MaxDepth
                  /\ sf[s].status \notin NoRow /\ sess[p].status \notin NoRow
    <3>1. CASE c = p
      <4>1. sf[c].kids = sess[c].kids \cup {s}
        BY <2>3, <2>5, <3>1 DEF k
      <4>2. sf[s].up = p /\ sf[s].depth = sess[p].depth + 1 /\ sf[s].depth < MaxDepth
        BY <2>1, <2>6, <3>1
      <4> QED
        BY <2>1, <3>1, <4>1, <4>2
    <3>2. CASE c # p
      BY <2>1, <2>8, <3>2
    <3> QED
      BY <3>1, <3>2
  <2>9. Grows(sess, sf, s, p)
    BY <2>1, <2>7, <2>8 DEF Grows
  <2> QED
    BY <2>9 DEF sf
<1> QED
  BY <1>2, <1>3

(* Its settlement.                                                         *)
LEMMA SettleGrows ==
    ASSUME NEW se, NEW sf, RowsOK(sf), NEW te, NEW s \in Ids, NEW p \in Ids \cup {None},
           Grows(se, sf, s, p), ~IsCell(sf[s])
    PROVE  Growth(se, SettleBudgetReservation(sf, te, s)[1])
<1> DEFINE n == [sf[s] EXCEPT !.settled = TRUE]
<1> DEFINE sg == [sf EXCEPT ![s] = n]
<1>1. sf[s] \in Session /\ sf \in [Ids -> Session]
  BY DEF RowsOK
<1>2. SettleBudgetReservation(sf, te, s)[1] \in {sf, sg}
  BY DEF SettleBudgetReservation
<1>3. /\ n.up = sf[s].up /\ n.depth = sf[s].depth /\ n.kids = sf[s].kids
      /\ n.status = sf[s].status /\ n.kind = sf[s].kind
  BY <1>1 DEF Session
<1> HIDE DEF n
<1>4. sg[s] = n /\ \A c \in Ids : c # s => sg[c] = sf[c]
  BY <1>1
<1> HIDE DEF sg
<1>5. Grows(se, sg, s, p) /\ ~IsCell(sg[s])
  BY <1>3, <1>4 DEF Grows, IsCell
<1> QED
  BY <1>2, <1>5 DEF Growth

(* A spawn that is lost before its row is inserted.                        *)
LEMMA LostGrows ==
    ASSUME RowsOK(sess), LineInv(sess), NEW s \in Ids, sess[s].status = "absent",
           ~sess[s].terminated
    PROVE  /\ Growth(sess, [sess EXCEPT ![s].status = "lost"])
           /\ [sess EXCEPT ![s].status = "lost"][s].settled = sess[s].settled
<1> DEFINE n == [sess[s] EXCEPT !.status = "lost"]
<1> DEFINE sf == [sess EXCEPT ![s] = n]
<1>1. sess[s] \in Session /\ sess \in [Ids -> Session]
  BY DEF RowsOK
<1>2. n.kids = {} /\ n.status = "lost" /\ n.settled = sess[s].settled
  BY <1>1 DEF Session, LineInv, NoRow
<1> HIDE DEF n
<1>3. sf[s] = n /\ \A c \in Ids : c # s => sf[c] = sess[c]
  BY <1>1
<1>4. \A c \in Ids : Stays(sess[c], sess[c])
  BY SameStays
<1> HIDE DEF sf
<1>5. Grows(sess, sf, s, None) /\ ~IsCell(sf[s])
  BY <1>2, <1>3, <1>4 DEF Grows, IsCell, Stays
<1>6. Growth(sess, sf)
  BY <1>5 DEF Growth
<1> QED
  BY <1>2, <1>3, <1>6 DEF sf, n

(* quarantine_into_thorn                                                   *)
LEMMA QuarantineGrows ==
    ASSUME RowsOK(sess), NEW s \in Ids, NEW c \in Ids, Quarantine(s, c), ~sess[c].terminated
    PROVE  /\ Growth(sess, sess')
           /\ \A t \in Ids : sess'[t].settled => sess[t].settled
<1> DEFINE h == SetHealth(sess[s], "unhealthy")
<1> DEFINE d == sess[s].depth + 1
<1> DEFINE q == [sess[s] EXCEPT !.reachable = FALSE, !.prev = sess[s].status,
                                !.status = "quarantined_thorn", !.service = h]
<1> DEFINE n == [AbsentRow EXCEPT !.status = "thorn_active", !.kind = "thorn",
                          !.reachable = TRUE, !.depth = d, !.up = s,
                          !.ttl = ThornTtl, !.target = s, !.service = "healthy"]
<1>1. sess \in [Ids -> Session] /\ sess[s] \in Session
  BY DEF RowsOK
<1>2. /\ sess[s].status \notin NoRow /\ sess[c].status = "absent" /\ c # s
      /\ Cardinality(ActiveThorns(sess)) < ThornCellLimit(sess)
  BY DEF Quarantine, Rows, NoRow, ThornSlotFree
<1>3. sess' = [sess EXCEPT ![s] = q, ![c] = n]
  BY DEF Quarantine
<1> HIDE DEF h, d
<1>4. /\ q.kind = sess[s].kind /\ q.up = sess[s].up /\ q.depth = sess[s].depth
      /\ q.kids = sess[s].kids /\ q.settled = sess[s].settled /\ q.status = "quarantined_thorn"
  BY <1>1 DEF Session
<1>5. n.kids = {} /\ ~n.settled
  BY DEF AbsentRow
<1> HIDE DEF q, n
<1>6. sess'[c] = n /\ sess'[s] = q /\ \A t \in Ids : t # c /\ t # s => sess'[t] = sess[t]
  BY <1>1, <1>2, <1>3
<1>7. Stays(sess[s], q)
  <2>1. "quarantined_thorn" \notin NoRow \cup Running \cup {"thorn_active"}
    BY DEF NoRow, Running, Persistent
  <2> QED
    BY <1>2, <1>4, <2>1, StoppedStays
<1>8. \A t \in Ids : t # c => Stays(sess[t], sess'[t])
  BY <1>6, <1>7, SameStays
<1>9. Grows(sess, sess', c, s)
  BY <1>2, <1>5, <1>6, <1>8 DEF Grows, Stays
<1>10. Growth(sess, sess')
  BY <1>2, <1>9 DEF Growth
<1>11. \A t \in Ids : sess'[t].settled => sess[t].settled
  BY <1>4, <1>5, <1>6
<1> QED
  BY <1>10, <1>11

(* force_shutdown                                                          *)
LEMMA ShutdownQuiet ==
    ASSUME RowsOK(sess), ForceShutdown
    PROVE  Quiet(sess, sess') /\ \A s \in Ids : sess'[s].settled => sess[s].settled
<1> SUFFICES ASSUME NEW s \in Ids
             PROVE  Stays(sess[s], sess'[s]) /\ sess'[s].settled = sess[s].settled
  BY DEF Quiet, Stays
<1> DEFINE h == SetHealth(sess[s], "unhealthy")
<1> DEFINE n == [sess[s] EXCEPT !.reachable = FALSE, !.status = "shutdown_t0", !.service = h]
<1>1. sess'[s] = IF sess[s].status \notin NoRow THEN n ELSE sess[s]
  BY DEF ForceShutdown, Rows
<1>2. sess[s] \in Session
  BY DEF RowsOK
<1> HIDE DEF h
<1>3. /\ n.up = sess[s].up /\ n.depth = sess[s].depth /\ n.kind = sess[s].kind
      /\ n.kids = sess[s].kids /\ n.status = "shutdown_t0" /\ n.settled = sess[s].settled
  BY <1>2 DEF Session
<1>4. "shutdown_t0" \notin NoRow \cup Running \cup {"thorn_active"}
  BY DEF NoRow, Running, Persistent
<1> HIDE DEF n
<1>5. sess[s].status \notin NoRow => Stays(sess[s], n)
  BY <1>3, <1>4, StoppedStays
<1> QED
  BY <1>1, <1>3, <1>5, SameStays

(* The clock.                                                              *)
LEMMA ElapseQuiet ==
    ASSUME RowsOK(sess), Elapse
    PROVE  Quiet(sess, sess') /\ \A s \in Ids : sess'[s].settled => sess[s].settled
<1> SUFFICES ASSUME NEW s \in Ids
             PROVE  Stays(sess[s], sess'[s]) /\ sess'[s].settled = sess[s].settled
  BY DEF Quiet, Stays
<1> DEFINE x == Monus(sess[s].lifespan, 1)
<1> DEFINE y == Monus(sess[s].checkIn, 1)
<1> DEFINE z == Monus(sess[s].ttl, 1)
<1> DEFINE n == [sess[s] EXCEPT !.lifespan = x, !.checkIn = y, !.ttl = z]
<1>1. sess'[s] = n
  BY DEF Elapse
<1>2. sess[s] \in Session
  BY DEF RowsOK
<1> HIDE DEF x, y, z
<1>3. /\ n.up = sess[s].up /\ n.depth = sess[s].depth /\ n.kind = sess[s].kind
      /\ n.kids = sess[s].kids /\ n.status = sess[s].status /\ n.settled = sess[s].settled
  BY <1>2 DEF Session
<1> HIDE DEF n
<1>4. Stays(sess[s], n)
  BY <1>3, StoppedStays
<1> QED
  BY <1>1, <1>3, <1>4

(* A command that rewrites one row and books usage in its ledger.          *)
LEMMA BookShape ==
    ASSUME NEW se, NEW te, RowsOK(se), LedgersOK(te), NEW s \in Ids, NEW n, Stays(se[s], n),
           n.settled = se[s].settled, NEW t, Booked(te[s], t)
    PROVE  Shape(se, [se EXCEPT ![s] = n], te, [te EXCEPT ![s] = t])
<1> DEFINE sf == [se EXCEPT ![s] = n]
<1> DEFINE tf == [te EXCEPT ![s] = t]
<1>1. Quiet(se, sf)
  BY OneRowQuiet
<1>2. \A p \in Ids : tf[p].settled = te[p].settled
  BY BookedCharges
<1>3. \A c \in Ids : sf[c] = IF c = s THEN n ELSE se[c]
  BY DEF RowsOK
<1> HIDE DEF sf, tf
<1>4. Charges(se, sf, te, tf)
  BY <1>2, <1>3, NoCharge
<1>5. Shape(se, sf, te, tf)
  BY <1>1, <1>4 DEF Shape
<1> QED
  BY <1>5 DEF sf, tf

(* A quiet step that leaves the ledgers alone.                             *)
LEMMA QuietShape ==
    ASSUME NEW se, NEW sf, NEW te, LedgersOK(te), Quiet(se, sf) \/ Growth(se, sf),
           \A c \in Ids : sf[c].settled => se[c].settled
    PROVE  Shape(se, sf, te, te)
<1>1. Charges(se, sf, te, te)
  BY NoCharge
<1> QED
  BY <1>1 DEF Shape

(* A check-in, denied or made.                                             *)
LEMMA PlanShape ==
    ASSUME TablesOK(sess, tele), NEW s \in Ids, IsPersistent(sess[s]),
           sess[s].status \notin NoRow, NEW k \in Nat
    PROVE  /\ Shape(sess, [sess EXCEPT ![s].status = "failed"],
                    tele, [tele EXCEPT ![s] = ApplyToolPlan(@)])
           /\ Shape(sess, [sess EXCEPT ![s].checkIn = k],
                    tele, [tele EXCEPT ![s] = ApplyToolPlan(@)])
<1> DEFINE r == [sess[s] EXCEPT !.status = "failed"]
<1> DEFINE n == [sess[s] EXCEPT !.checkIn = k]
<1> DEFINE t == ApplyToolPlan(tele[s])
<1>1. /\ sess[s] \in Session /\ tele[s] \in Telemetry /\ Balanced(tele[s]) /\ LedgersOK(tele)
      /\ RowsOK(sess)
  BY DEF TablesOK, RowsOK, LedgersOK
<1>2. Stays(sess[s], r) /\ Stays(sess[s], n)
  BY <1>1, WrittenRows
<1>3. r.settled = sess[s].settled /\ n.settled = sess[s].settled
  BY <1>1 DEF Session
<1>4. Booked(tele[s], t)
  BY <1>1, PlanKeepsLedger
<1> HIDE DEF r, n, t
<1>5. /\ Shape(sess, [sess EXCEPT ![s] = r], tele, [tele EXCEPT ![s] = t])
      /\ Shape(sess, [sess EXCEPT ![s] = n], tele, [tele EXCEPT ![s] = t])
  BY <1>1, <1>2, <1>3, <1>4, BookShape
<1> QED
  BY <1>5 DEF r, n, t

(* Finalization and termination.                                           *)
LEMMA EndShape ==
    ASSUME TablesOK(sess, tele), NEW s \in Ids, IsPersistent(sess[s]),
           sess[s].status \notin NoRow, NEW st \in Stopped,
           NEW te, te = tele \/ te = [tele EXCEPT ![s] = ApplyToolPlan(@)]
    PROVE  LET e == SettleBudgetReservation([sess EXCEPT ![s] = EndRow(@, st)], te, s)
           IN  Shape(sess, e[1], tele, e[2])
<1> DEFINE r == EndRow(sess[s], st)
<1> DEFINE sf == [sess EXCEPT ![s] = r]
<1> DEFINE e == SettleBudgetReservation(sf, te, s)
<1>1. /\ sess[s] \in Session /\ tele[s] \in Telemetry /\ Balanced(tele[s]) /\ LedgersOK(tele)
      /\ RowsOK(sess)
  BY DEF TablesOK, RowsOK, LedgersOK
<1>2. r \in Session /\ Frame(sess[s], r) /\ r.status \notin NoRow
  BY <1>1, EndRowFrame
<1>3. Booked(tele[s], ApplyToolPlan(tele[s]))
  BY <1>1, PlanKeepsLedger
<1>4. /\ LedgersOK(te) /\ \A q \in Ids : LedgerFrame(tele[q], te[q])
      /\ \A q \in Ids : te[q].settled = tele[q].settled
  <2>1. CASE te = tele
    BY <1>1, <2>1 DEF LedgerFrame
  <2>2. CASE te = [tele EXCEPT ![s] = ApplyToolPlan(@)]
    <3> DEFINE t == ApplyToolPlan(tele[s])
    <3>1. te = [tele EXCEPT ![s] = t]
      BY <2>2
    <3> HIDE DEF t
    <3>2. /\ LedgersOK([tele EXCEPT ![s] = t])
          /\ \A q \in Ids : LedgerFrame(tele[q], [tele EXCEPT ![s] = t][q])
      BY <1>1, <1>3, BookKeepsLedgers DEF t
    <3>3. \A q \in Ids : [tele EXCEPT ![s] = t][q].settled = tele[q].settled
      BY <1>1, <1>3, BookedCharges DEF t
    <3> QED
      BY <3>1, <3>2, <3>3
  <2> QED
    BY <2>1, <2>2
<1>5. Quiet(sess, e[1])
  BY <1>1, EndQuiet
<1> HIDE DEF r
<1>6. RowsOK(sf) /\ \A c \in Ids : sf[c] = IF c = s THEN r ELSE sess[c]
  BY <1>1, <1>2, SetRow DEF RowsOK
<1> HIDE DEF sf
<1>7. \A c \in Ids : Frame(sess[c], sf[c])
  BY <1>2, <1>6 DEF Frame
<1>8. BudgetInv(sf, te)
  BY <1>4, <1>7, FrameKeepsBudget DEF TablesOK
<1>9. \A c \in Ids : sf[c].settled = sess[c].settled
  BY <1>7 DEF Frame
<1>10. \A c \in Ids : c # s /\ sess[c].status \in NoRow => sf[c].status \in NoRow
  BY <1>6
<1>11. Charges(sess, e[1], tele, e[2])
  BY <1>1, <1>4, <1>6, <1>8, <1>9, <1>10, SettleCharges
<1> HIDE DEF e
<1>12. Shape(sess, e[1], tele, e[2])
  BY <1>5, <1>11 DEF Shape
<1> QED
  BY <1>12 DEF e, sf, r

-----------------------------------------------------------------------------
(* Who has no row was never charged: a spawn starts its ledger afresh.     *)
Unbilled(se, te) == \A s \in Ids : se[s].status \in NoRow => te[s].settled = 0

(* The second invariant, on top of the first.                              *)
TreeInv(se, te) == LineInv(se) /\ CapInv(se) /\ Unbilled(se, te)

(* The ledgers of a spawn, once its plan has run, charge nobody.           *)
LEMMA SpawnBills ==
    ASSUME TablesOK(sess, tele), Unbilled(sess, tele), NEW s \in Ids, sess[s].status = "absent",
           NEW p \in Ids \cup {None}, NEW b \in Nat, ReserveGranted(p, b), NEW a \in BudgetAction
    PROVE  LET h == ReserveBudgetFromParent(tele, s, p, Granted(p, b))
               te == [h EXCEPT ![s] = ApplyToolPlan(FreshLedger(Granted(p, b), a))]
           IN  /\ \A q \in Ids : h[q].settled = tele[q].settled
               /\ \A q \in Ids : te[q].settled = tele[q].settled
<1>0. None \notin Ids
  BY SessionsAssumption
<1> DEFINE g == Granted(p, b)
<1> DEFINE hp == BudgetParent(p)
<1> DEFINE h == ReserveBudgetFromParent(tele, s, p, g)
<1> DEFINE t == ApplyToolPlan(FreshLedger(g, a))
<1> DEFINE te == [h EXCEPT ![s] = t]
<1>1. hp \in {p, None} /\ hp \in Ids \cup {None} /\ g \in Nat
  BY GrantFits DEF TablesOK
<1>2. /\ LedgersOK(h) /\ (hp \in Ids => Held(tele[p], h[p], s, g))
      /\ \A q \in Ids : q # hp => h[q] = tele[q]
  BY <1>0, <1>1, NoHoldYet, HeldTable DEF TablesOK
<1>3. t.settled = 0
  BY <1>1, FirstPlan
<1>4. tele[s].settled = 0
  BY DEF Unbilled, NoRow
<1> HIDE DEF g, hp, t
<1>5. \A q \in Ids : te[q] = IF q = s THEN t ELSE h[q]
  BY <1>2 DEF LedgersOK
<1> HIDE DEF h, te
<1>6. \A q \in Ids : h[q].settled = tele[q].settled
  BY <1>0, <1>1, <1>2 DEF Held
<1>7. \A q \in Ids : te[q].settled = tele[q].settled
  BY <1>3, <1>4, <1>5, <1>6
<1> QED
  BY <1>6, <1>7 DEF h, te, t, g

(* The place of a new row in the tree.                                     *)
Placed(n, p) == n.up = p /\ n.kids = {} /\ n.depth = SpawnDepth(p)

(* The row both spawns start from ...                                      *)
LEMMA NewRowPlaced ==
    ASSUME TablesOK(sess, tele), NEW p \in Ids \cup {None}, NEW b \in Nat,
           ReserveGranted(p, b), NEW role \in BOOLEAN
    PROVE  Placed(NewRow(p, b, role), p)
<1> DEFINE d == SpawnDepth(p)
<1> DEFINE q == BudgetParent(p)
<1> DEFINE k == IF q = None THEN 0 ELSE Granted(p, b)
<1> DEFINE h == IF role THEN "healthy" ELSE "none"
<1> DEFINE n == NewRow(p, b, role)
<1>1. n = [AbsentRow EXCEPT !.reachable = TRUE, !.depth = d, !.up = p, !.parent = q,
                            !.res = k, !.service = h]
  BY DEF NewRow
<1> HIDE DEF d, q, k, h, n
<1>2. n.up = p /\ n.kids = {} /\ n.depth = d
  BY <1>1 DEF AbsentRow
<1> QED
  BY <1>2 DEF Placed, n, d

(* ... and what they write into it.                                        *)
LEMMA RowsPlaced ==
    ASSUME NEW p, NEW m \in Session, Placed(m, p)
    PROVE  /\ \A up, st : Placed([m EXCEPT !.reachable = up, !.status = st], p)
           /\ \A kind, life, ci, st :
                 Placed([m EXCEPT !.kind = kind, !.lifespan = life, !.checkIn = ci, !.status = st], p)
<1>1. ASSUME NEW up, NEW st
      PROVE  Placed([m EXCEPT !.reachable = up, !.status = st], p)
  <2> DEFINE n == [m EXCEPT !.reachable = up, !.status = st]
  <2>1. n.up = m.up /\ n.kids = m.kids /\ n.depth = m.depth
    BY DEF Session
  <2> HIDE DEF n
  <2>2. Placed(n, p)
    BY <2>1 DEF Placed
  <2> QED
    BY <2>2 DEF n
<1>2. ASSUME NEW kind, NEW life, NEW ci, NEW st
      PROVE  Placed([m EXCEPT !.kind = kind, !.lifespan = life, !.checkIn = ci, !.status = st], p)
  <2> DEFINE n == [m EXCEPT !.kind = kind, !.lifespan = life, !.checkIn = ci, !.status = st]
  <2>1. n.up = m.up /\ n.kids = m.kids /\ n.depth = m.depth
    BY DEF Session
  <2> HIDE DEF n
  <2>2. Placed(n, p)
    BY <2>1 DEF Placed
  <2> QED
    BY <2>2 DEF n
<1> QED
  BY <1>1, <1>2

(* A spawn that inserts its row n, before and after it settles.            *)
LEMMA SpawnShape ==
    ASSUME TablesOK(sess, tele), Unbilled(sess, tele), NEW s \in Ids,
           NEW p \in Ids \cup {None}, NEW b \in Nat, SpawnAllowed(s, p, b),
           NEW a \in BudgetAction, NEW n, SpawnRow(n, p, b), Placed(n, p), n.status \notin NoRow,
           NEW te, te = [ReserveBudgetFromParent(tele, s, p, Granted(p, b)) EXCEPT
                            ![s] = ApplyToolPlan(FreshLedger(Granted(p, b), a))],
           NEW sf, sf = InsertRow(s, p, n) \/ sf = [sess EXCEPT ![s] = n]
    PROVE  /\ Shape(sess, sf, tele, te)
           /\ Shape(sess, SettleBudgetReservation(sf, te, s)[1],
                    tele, SettleBudgetReservation(sf, te, s)[2])
<1> DEFINE e == SettleBudgetReservation(sf, te, s)
<1>1. /\ RowsOK(sess) /\ LedgersOK(tele) /\ Blank(sess[s]) /\ n \in Session
      /\ ~n.settled /\ n.kind # "thorn"
  BY DEF TablesOK, BudgetInv, SpawnRow
<1>2. /\ sess[s].status = "absent" /\ ReserveGranted(p, b) /\ SpawnDepth(p) < MaxDepth
      /\ p \in Ids => sess[p].status \notin NoRow
  BY SessionsAssumption DEF SpawnAllowed, Rows
<1>3. ~sess[s].terminated /\ ~sess[s].settled
  BY <1>1, <1>2 DEF Blank, NoRow
<1>4. Grows(sess, sf, s, p)
  <2>1. n.up = p /\ n.kids = {} /\ n.depth = SpawnDepth(p)
    BY DEF Placed
  <2>2. Grows(sess, InsertRow(s, p, n), s, p) /\ Grows(sess, [sess EXCEPT ![s] = n], s, p)
    BY <1>1, <1>2, <1>3, <2>1, SpawnGrows
  <2> QED
    BY <2>2, Zenon
<1>5. RowsOK(sf) /\ OnlyNew(sf, s) /\ sf[s] = n
  <2>1. /\ RowsOK(InsertRow(s, p, n)) /\ InsertRow(s, p, n)[s] = n
        /\ OnlyNew(InsertRow(s, p, n), s)
        /\ RowsOK([sess EXCEPT ![s] = n]) /\ [sess EXCEPT ![s] = n][s] = n
        /\ OnlyNew([sess EXCEPT ![s] = n], s)
    BY <1>1, InsertRowTable
  <2>2. CASE sf = InsertRow(s, p, n)
    BY <2>1, <2>2, Zenon
  <2>3. CASE sf = [sess EXCEPT ![s] = n]
    BY <2>1, <2>3, Zenon
  <2> QED
    BY <2>2, <2>3
<1>6. TablesOK(sf, te)
  BY <1>2, <1>5, SpawnInserts
<1>7. \A q \in Ids : te[q].settled = tele[q].settled
  BY <1>2, SpawnBills
<1>8. ~IsCell(sf[s])
  BY <1>1, <1>5 DEF IsCell
<1>9. \A c \in Ids : sf[c].settled = sess[c].settled
  <2>1. \A c \in Ids : c # s => sf[c].settled = sess[c].settled
    BY <1>5 DEF OnlyNew, Frame
  <2>2. sf[s].settled \in BOOLEAN /\ sess[s].settled \in BOOLEAN
    BY <1>1, <1>5 DEF RowsOK, Session
  <2> QED
    BY <1>1, <1>3, <1>5, <2>1, <2>2
<1>10. \A c \in Ids : c # s /\ sess[c].status \in NoRow => sf[c].status \in NoRow
  BY <1>5 DEF OnlyNew, Frame
<1>11. Growth(sess, sf) /\ Growth(sess, e[1])
  <2>1. Growth(sess, e[1])
    BY <1>4, <1>5, <1>8, SettleGrows
  <2>2. Growth(sess, sf)
    BY <1>4, <1>8 DEF Growth
  <2> QED
    BY <2>1, <2>2
<1>12. Charges(sess, sf, tele, te)
  BY <1>1, <1>7, <1>9, NoCharge
<1>13. Charges(sess, e[1], tele, e[2])
  <2>1. LedgersOK(te) /\ BudgetInv(sf, te)
    BY <1>6 DEF TablesOK
  <2> QED
    BY <1>1, <1>5, <1>7, <1>9, <1>10, <2>1, SettleCharges
<1> HIDE DEF e
<1>14. Shape(sess, sf, tele, te) /\ Shape(sess, e[1], tele, e[2])
  BY <1>11, <1>12, <1>13 DEF Shape
<1> QED
  BY <1>14 DEF e

(* spawn_single                                                            *)
LEMMA SpawnSingleShape ==
    ASSUME IInv, Unbilled(sess, tele), NEW s \in Ids, NEW p \in Parents, NEW b \in Requests,
           NEW a \in Actions, NEW role \in Roles, NEW probe \in Probes,
           SpawnSingle(s, p, b, a, role, probe)
    PROVE  Shape(sess, sess', tele, tele')
<1>0. /\ TablesOK(sess, tele)
      /\ p \in Ids \cup {None} /\ b \in Nat /\ a \in BudgetAction
      /\ role \in BOOLEAN /\ probe \in BOOLEAN \X BOOLEAN
  BY SessionsAssumption DEF IInv, Parents, Requests, NoBudget
<1>1. SpawnAllowed(s, p, b) /\ ReserveGranted(p, b)
  BY DEF SpawnSingle, SpawnAllowed
<1> DEFINE te == [ReserveBudgetFromParent(tele, s, p, Granted(p, b)) EXCEPT
                     ![s] = ApplyToolPlan(FreshLedger(Granted(p, b), a))]
<1> DEFINE up == ~probe[2]
<1> DEFINE st == IF probe[1] /\ probe[2] THEN "failed" ELSE "running"
<1> DEFINE m == NewRow(p, b, role)
<1> DEFINE row == [m EXCEPT !.reachable = up, !.status = st]
<1> DEFINE m2 == NewRow(p, b, FALSE)
<1> DEFINE failed == [m2 EXCEPT !.reachable = FALSE, !.status = "failed"]
<1> DEFINE x == [sess EXCEPT ![s] = failed]
<1> DEFINE y == InsertRow(s, p, row)
<1> DEFINE A == SettleBudgetReservation(x, te, s)
<1> DEFINE B == SettleBudgetReservation(y, te, s)
<1>2. (sess' = A[1] /\ tele' = A[2]) \/ (sess' = B[1] /\ tele' = B[2])
  BY DEF SpawnSingle
<1>3. up \in BOOLEAN /\ st \in {"failed", "running"}
  OBVIOUS
<1>4. SpawnRow(m, p, b) /\ SpawnRow(m2, p, b) /\ Placed(m, p) /\ Placed(m2, p)
  BY <1>0, <1>1, NewRowSound, NewRowPlaced
<1>5. m \in Session /\ m2 \in Session
  BY <1>4 DEF SpawnRow
<1> HIDE DEF m, m2, up, st
<1>6. SpawnRow(row, p, b) /\ row.status \notin NoRow /\ Placed(row, p)
  BY <1>3, <1>4, <1>5, TaskRow, RowsPlaced
<1>7. SpawnRow(failed, p, b) /\ failed.status \notin NoRow /\ Placed(failed, p)
  BY <1>4, <1>5, TaskRow, RowsPlaced
<1> HIDE DEF row, failed
<1>8. Shape(sess, A[1], tele, A[2])
  BY <1>0, <1>1, <1>7, SpawnShape
<1>9. Shape(sess, B[1], tele, B[2])
  BY <1>0, <1>1, <1>6, SpawnShape
<1> HIDE DEF A, B
<1> QED
  BY <1>2, <1>8, <1>9

(* spawn_persistent_session                                                *)
LEMMA SpawnPersistentShape ==
    ASSUME IInv, LineInv(sess), Unbilled(sess, tele), NEW s \in Ids, NEW p \in Parents,
           NEW b \in Requests, NEW a \in Actions, NEW role \in Roles, NEW kind \in Modes,
           NEW life \in Lifespans, SpawnPersistent(s, p, b, a, role, kind, life)
    PROVE  Shape(sess, sess', tele, tele')
<1>0. /\ TablesOK(sess, tele) /\ RowsOK(sess) /\ LedgersOK(tele) /\ Blank(sess[s])
      /\ p \in Ids \cup {None} /\ b \in Nat /\ a \in BudgetAction /\ role \in BOOLEAN
      /\ kind \in {"persistent", "background"} /\ life \in Nat /\ CheckInInterval \in Nat
  BY SessionsAssumption DEF IInv, TablesOK, BudgetInv, Parents, Requests, NoBudget
<1>1. SpawnAllowed(s, p, b) /\ ReserveGranted(p, b) /\ sess[s].status = "absent"
  BY DEF SpawnPersistent, SpawnAllowed
<1> DEFINE h == ReserveBudgetFromParent(tele, s, p, Granted(p, b))
<1> DEFINE te == [h EXCEPT ![s] = ApplyToolPlan(FreshLedger(Granted(p, b), a))]
<1> DEFINE m == NewRow(p, b, role)
<1> DEFINE st == IF kind = "background" THEN "background_running" ELSE "persistent_running"
<1> DEFINE row == [m EXCEPT !.kind = kind, !.lifespan = life, !.checkIn = CheckInInterval,
                            !.status = st]
<1> DEFINE x == [sess EXCEPT ![s].status = "lost"]
<1> DEFINE y == InsertRow(s, p, row)
<1>2. (sess' = x /\ tele' = h) \/ (sess' = y /\ tele' = te)
  BY DEF SpawnPersistent
<1>3. st \in Persistent
  BY DEF Persistent
<1>4. SpawnRow(m, p, b) /\ Placed(m, p)
  BY <1>0, <1>1, NewRowSound, NewRowPlaced
<1>5. m \in Session
  BY <1>4 DEF SpawnRow
<1> HIDE DEF m, st
<1>6. SpawnRow(row, p, b) /\ row.status \notin NoRow
  BY <1>0, <1>3, <1>4, PersistentRow
<1>7. Placed(row, p)
  BY <1>4, <1>5, RowsPlaced
<1> HIDE DEF row
<1>8. Shape(sess, y, tele, te)
  BY <1>0, <1>1, <1>6, <1>7, SpawnShape
<1>9. Shape(sess, x, tele, h)
  <2>1. ~sess[s].terminated
    BY <1>0, <1>1 DEF Blank, NoRow
  <2>2. Growth(sess, x) /\ x[s].settled = sess[s].settled
    BY <1>0, <1>1, <2>1, LostGrows
  <2>3. \A c \in Ids : c # s => x[c] = sess[c]
    BY <1>0 DEF RowsOK
  <2>4. \A q \in Ids : h[q].settled = tele[q].settled
    BY <1>0, <1>1, SpawnBills
  <2> HIDE DEF x, h
  <2>5. Charges(sess, x, tele, h)
    BY <1>0, <2>2, <2>3, <2>4, NoCharge
  <2> QED
    BY <2>2, <2>5 DEF Shape
<1> HIDE DEF x, y, h, te
<1> QED
  BY <1>2, <1>8, <1>9

-----------------------------------------------------------------------------
(* Every step has that shape.                                              *)

(* Reload and drain.                                                       *)
LEMMA BeginShape ==
    ASSUME IInv, Begin
    PROVE  Shape(sess, sess', tele, tele')
<1>1. TablesOK(sess, tele) /\ RowsOK(sess) /\ LedgersOK(tele) /\ ThornInv(sess) /\ tele' = tele
  BY DEF IInv, TablesOK, Begin, BeginRun, BeginTick, BeginThorn
<1>2. \/ sess' = DrainExpiredThornCells(RecoverPersistent(sess))
      \/ sess' = DrainExpiredThornCells(sess)
  BY DEF Begin, BeginRun, BeginTick, BeginThorn
<1>3. Quiet(sess, sess') /\ \A c \in Ids : sess'[c].settled = sess[c].settled
  <2>1. CASE sess' = DrainExpiredThornCells(RecoverPersistent(sess))
    BY <1>1, <2>1, PreludeQuiet
  <2>2. CASE sess' = DrainExpiredThornCells(sess)
    BY <1>1, <2>2, DrainQuiet
  <2> QED
    BY <1>2, <2>1, <2>2
<1>4. \A c \in Ids : sess'[c].settled => sess[c].settled
  BY <1>3
<1> QED
  BY <1>1, <1>3, <1>4, QuietShape

(* A step that changes neither table.                                      *)
LEMMA IdleShape ==
    ASSUME IInv
    PROVE  Shape(sess, sess, tele, tele)
<1>1. Quiet(sess, sess) /\ LedgersOK(tele)
  BY SameStays DEF Quiet, Stays, IInv, TablesOK
<1> QED
  BY <1>1, QuietShape

(* One visit of tick_persistent_sessions.                                  *)
LEMMA TickShape ==
    ASSUME IInv, TickStep
    PROVE  Shape(sess, sess', tele, tele')
<1>1. PICK s \in Ids : TickSkip(s) \/ TickAbort(s) \/ TickCheckIn(s) \/ TickFinalize(s)
  BY DEF TickStep
<1>2. Visiting(s) /\ TablesOK(sess, tele) /\ adv \in Nat /\ CheckInInterval \in Nat
  BY <1>1, SessionsAssumption DEF TickSkip, TickAbort, TickCheckIn, TickFinalize, IInv, TypeOK
<1>3. IsPersistent(sess[s]) /\ sess[s].status \notin NoRow
  BY <1>2 DEF IInv, TodoOK, Visiting
<1>4. CASE TickSkip(s)
  BY <1>4, IdleShape DEF TickSkip
<1>5. CASE TickAbort(s)
  <2>1. /\ sess' = [sess EXCEPT ![s].status = "failed"]
        /\ tele' = [tele EXCEPT ![s] = ApplyToolPlan(@)]
    BY <1>5 DEF TickAbort
  <2> QED
    BY <1>2, <1>3, <2>1, PlanShape
<1>6. CASE TickCheckIn(s)
  <2> DEFINE k == adv + CheckInInterval
  <2>1. /\ k \in Nat
        /\ sess' = [sess EXCEPT ![s].checkIn = k]
        /\ tele' = [tele EXCEPT ![s] = ApplyToolPlan(@)]
    BY <1>2, <1>6 DEF TickCheckIn
  <2> HIDE DEF k
  <2> QED
    BY <1>2, <1>3, <2>1, PlanShape
<1>7. CASE TickFinalize(s)
  <2> DEFINE te == [tele EXCEPT ![s] = ApplyToolPlan(@)]
  <2> DEFINE se == [sess EXCEPT ![s] = EndRow(@, "completed")]
  <2> DEFINE e == SettleBudgetReservation(se, te, s)
  <2>1. sess' = e[1] /\ tele' = e[2]
    BY <1>7 DEF TickFinalize
  <2>2. "completed" \in Stopped
    BY DEF Stopped
  <2>3. Shape(sess, e[1], tele, e[2])
    BY <1>2, <1>3, <2>2, EndShape
  <2> HIDE DEF e
  <2> QED
    BY <2>1, <2>3
<1> QED
  BY <1>1, <1>4, <1>5, <1>6, <1>7

(* The commands on one session.                                            *)
LEMMA CommandShape ==
    ASSUME IInv, NEW s \in Ids
    PROVE  /\ Wake(s) => Shape(sess, sess', tele, tele')
           /\ Resume(s) => Shape(sess, sess', tele, tele')
           /\ ThornRelease(s) => Shape(sess, sess', tele, tele')
           /\ \A graceful \in BOOLEAN : Terminate(s, graceful) => Shape(sess, sess', tele, tele')
           /\ \A k \in ContextTokens : ContextPut(s, k) => Shape(sess, sess', tele, tele')
           /\ \A c \in Ids : Quarantine(s, c) => Shape(sess, sess', tele, tele')
<1>0. /\ TablesOK(sess, tele) /\ RowsOK(sess) /\ LedgersOK(tele) /\ ThornInv(sess)
      /\ CheckInInterval \in Nat /\ sess[s] \in Session /\ tele[s] \in Telemetry
      /\ Balanced(tele[s])
  BY SessionsAssumption DEF IInv, TablesOK, RowsOK, LedgersOK
<1>1. ASSUME Wake(s)
      PROVE  Shape(sess, sess', tele, tele')
  <2>1. IsPersistent(sess[s]) /\ sess[s].status \notin NoRow
    BY <1>1 DEF Wake, PersistentIds, Persistent, NoRow
  <2>2. /\ tele' = [tele EXCEPT ![s] = ApplyToolPlan(@)]
        /\ \/ sess' = [sess EXCEPT ![s].status = "failed"]
           \/ sess' = [sess EXCEPT ![s].checkIn = CheckInInterval]
    BY <1>1 DEF Wake
  <2>3. /\ Shape(sess, [sess EXCEPT ![s].status = "failed"],
                 tele, [tele EXCEPT ![s] = ApplyToolPlan(@)])
        /\ Shape(sess, [sess EXCEPT ![s].checkIn = CheckInInterval],
                 tele, [tele EXCEPT ![s] = ApplyToolPlan(@)])
    BY <1>0, <2>1, PlanShape
  <2> QED
    BY <2>2, <2>3
<1>2. ASSUME Resume(s)
      PROVE  Shape(sess, sess', tele, tele')
  <2> DEFINE r == ResumedRow(sess[s])
  <2>1. IsPersistent(sess[s]) /\ sess[s].status \notin NoRow
    BY <1>2 DEF Resume, Rows
  <2>2. sess' = [sess EXCEPT ![s] = r] /\ tele' = tele
    BY <1>2 DEF Resume
  <2>3. Stays(sess[s], r)
    BY <1>0, <2>1, WrittenRows
  <2>4. r.settled = sess[s].settled
    BY <1>0, <2>1, ResumedRowFrame DEF Frame
  <2> HIDE DEF r
  <2>5. Quiet(sess, sess')
    BY <1>0, <2>2, <2>3, OneRowQuiet
  <2>6. \A c \in Ids : sess'[c].settled => sess[c].settled
    BY <1>0, <2>2, <2>4 DEF RowsOK
  <2> QED
    BY <1>0, <2>2, <2>5, <2>6, QuietShape
<1>3. ASSUME ThornRelease(s)
      PROVE  Shape(sess, sess', tele, tele')
  <2>1. /\ sess' = ReleaseThornCells(sess, {s}) /\ tele' = tele
        /\ \A g \in {s} : Guarded(sess, g)
    BY <1>3 DEF ThornRelease, Guarded
  <2>2. Quiet(sess, sess') /\ \A c \in Ids : sess'[c].settled = sess[c].settled
    BY <1>0, <2>1, ReleaseQuiet
  <2>3. \A c \in Ids : sess'[c].settled => sess[c].settled
    BY <2>2
  <2> QED
    BY <1>0, <2>1, <2>2, <2>3, QuietShape
<1>4. ASSUME NEW graceful \in BOOLEAN, Terminate(s, graceful)
      PROVE  Shape(sess, sess', tele, tele')
  <2> DEFINE te == IF graceful THEN [tele EXCEPT ![s] = ApplyToolPlan(@)] ELSE tele
  <2> DEFINE st == IF graceful THEN "terminated_graceful" ELSE "terminated"
  <2> DEFINE e == SettleBudgetReservation([sess EXCEPT ![s] = EndRow(@, st)], te, s)
  <2>1. IsPersistent(sess[s]) /\ sess[s].status \notin NoRow
    BY <1>4 DEF Terminate, Rows
  <2>2. \/ /\ sess' = [sess EXCEPT ![s].status = "failed"]
           /\ tele' = [tele EXCEPT ![s] = ApplyToolPlan(@)]
        \/ sess' = e[1] /\ tele' = e[2]
    BY <1>4 DEF Terminate
  <2>3. st \in Stopped
    BY DEF Stopped
  <2>4. te = tele \/ te = [tele EXCEPT ![s] = ApplyToolPlan(@)]
    OBVIOUS
  <2> HIDE DEF te, st
  <2>5. Shape(sess, e[1], tele, e[2])
    BY <1>0, <2>1, <2>3, <2>4, EndShape
  <2> HIDE DEF e
  <2>6. Shape(sess, [sess EXCEPT ![s].status = "failed"],
              tele, [tele EXCEPT ![s] = ApplyToolPlan(@)])
    BY <1>0, <2>1, PlanShape
  <2> QED
    BY <2>2, <2>5, <2>6
<1>5. ASSUME NEW k \in ContextTokens, ContextPut(s, k)
      PROVE  Shape(sess, sess', tele, tele')
  <2> DEFINE t == RecordToolUsage(tele[s], k)
  <2>1. sess' = sess /\ tele' = [tele EXCEPT ![s] = t]
    BY <1>5 DEF ContextPut
  <2>2. Booked(tele[s], t)
    BY <1>0, SessionsAssumption, RecordKeepsLedger
  <2> HIDE DEF t
  <2>3. \A p \in Ids : tele'[p].settled = tele[p].settled
    BY <1>0, <2>1, <2>2, BookedCharges
  <2>4. Charges(sess, sess', tele, tele')
    BY <1>0, <2>1, <2>3, NoCharge
  <2>5. Quiet(sess, sess')
    BY <2>1, SameStays DEF Quiet, Stays
  <2> QED
    BY <2>4, <2>5 DEF Shape
<1>6. ASSUME NEW c \in Ids, Quarantine(s, c)
      PROVE  Shape(sess, sess', tele, tele')
  <2>1. tele' = tele /\ sess[c].status = "absent" /\ Blank(sess[c])
    BY <1>0, <1>6 DEF Quarantine, TablesOK, BudgetInv
  <2>2. ~sess[c].terminated
    BY <2>1 DEF Blank, NoRow
  <2>3. Growth(sess, sess') /\ \A t \in Ids : sess'[t].settled => sess[t].settled
    BY <1>0, <1>6, <2>2, QuarantineGrows
  <2> QED
    BY <1>0, <2>1, <2>3, QuietShape
<1> QED
  BY <1>1, <1>2, <1>3, <1>4, <1>5, <1>6

(* All of them.                                                            *)
LEMMA NextShape ==
    ASSUME IInv, TreeInv(sess, tele), [Next]_vars
    PROVE  Shape(sess, sess', tele, tele')
<1>0. RowsOK(sess) /\ LedgersOK(tele) /\ LineInv(sess) /\ Unbilled(sess, tele)
  BY DEF IInv, TablesOK, TreeInv
<1>1. CASE Begin
  BY <1>1, BeginShape
<1>2. CASE TickStep
  BY <1>2, TickShape
<1>3. CASE Run
  <2>1. CASE Status_
    BY <2>1, IdleShape DEF Status_
  <2>2. ASSUME NEW s \in Ids, NEW p \in Parents, NEW b \in Requests, NEW a \in Actions,
               NEW role \in Roles, NEW probe \in Probes, SpawnSingle(s, p, b, a, role, probe)
        PROVE  Shape(sess, sess', tele, tele')
    BY <1>0, <2>2, SpawnSingleShape
  <2>3. ASSUME NEW s \in Ids, NEW p \in Parents, NEW b \in Requests, NEW a \in Actions,
               NEW role \in Roles, NEW kind \in Modes, NEW life \in Lifespans,
               SpawnPersistent(s, p, b, a, role, kind, life)
        PROVE  Shape(sess, sess', tele, tele')
    BY <1>0, <2>3, SpawnPersistentShape
  <2> QED
    BY <1>3, <2>1, <2>2, <2>3, CommandShape DEF Run
<1>4. CASE ForceShutdown
  <2>1. tele' = tele
    BY <1>4 DEF ForceShutdown
  <2> QED
    BY <1>0, <1>4, <2>1, ShutdownQuiet, QuietShape
<1>5. CASE Elapse
  <2>1. tele' = tele
    BY <1>5 DEF Elapse
  <2> QED
    BY <1>0, <1>5, <2>1, ElapseQuiet, QuietShape
<1>6. CASE UNCHANGED vars
  BY <1>6, IdleShape DEF vars
<1> QED
  BY <1>1, <1>2, <1>3, <1>4, <1>5, <1>6 DEF Next

(* A step of that shape keeps the second invariant ...                     *)
LEMMA ShapeKeepsTree ==
    ASSUME NEW se, NEW sf, NEW te, NEW tf, Shape(se, sf, te, tf), TreeInv(se, te)
    PROVE  TreeInv(sf, tf)
<1>1. \A c \in Ids : sf[c].status \in NoRow => se[c].status \in NoRow
  BY DEF Shape, Quiet, Growth, Grows, Kept, NoRow
<1>2. Unbilled(sf, tf)
  BY <1>1 DEF Shape, Charges, TreeInv, Unbilled
<1>3. LineInv(sf) /\ CapInv(sf)
  <2>1. CASE Quiet(se, sf)
    BY <2>1, QuietKeepsLine, QuietKeepsCap DEF TreeInv
  <2>2. CASE Growth(se, sf)
    <3>1. PICK s \in Ids, p \in Ids \cup {None} :
             /\ Grows(se, sf, s, p)
             /\ IsCell(sf[s]) => Cardinality(ActiveThorns(se)) < ThornCellLimit(se)
      BY <2>2 DEF Growth
    <3> QED
      BY <3>1, GrowthKeepsLine, GrowthKeepsCap DEF TreeInv
  <2> QED
    BY <2>1, <2>2 DEF Shape
<1> QED
  BY <1>2, <1>3 DEF TreeInv

(* ... and revives a stopped session only from behind a cell.              *)
LEMMA ShapeRevives ==
    ASSUME NEW se, NEW sf, NEW te, NEW tf, Shape(se, sf, te, tf), NEW s \in Ids,
           se[s].terminated, se[s].status \notin Running, sf[s].status \in Running
    PROVE  Guarded(se, s)
BY DEF Shape, Quiet, Growth, Grows, Lives

(* The empty table.                                                        *)
LEMMA InitTree == Init => TreeInv(sess, tele)
<1> SUFFICES ASSUME Init PROVE TreeInv(sess, tele)
  OBVIOUS
<1>1. \A s \in Ids : sess[s].status = "absent" /\ sess[s].kids = {} /\ tele[s].settled = 0
  BY DEF Init, AbsentRow, NoTelemetry
<1>2. LineInv(sess) /\ Unbilled(sess, tele)
  BY <1>1 DEF LineInv, Unbilled
<1>3. ActiveThorns(sess) = {}
  BY <1>1 DEF ActiveThorns
<1>4. Cardinality(ActiveThorns(sess)) = 0
  BY <1>3, FS_EmptySet
<1>5. ThornCellLimit(sess) \in Nat
  BY LimitGrows
<1>6. CapInv(sess)
  BY <1>4, <1>5 DEF CapInv
<1> QED
  BY <1>2, <1>6 DEF TreeInv

(* The second invariant holds in every reachable state.                    *)
THEOREM TreeInductive == Spec => []TreeInv(sess, tele)
<1>1. IInv /\ TreeInv(sess, tele) /\ [Next]_vars => TreeInv(sess, tele)'
  BY NextShape, ShapeKeepsTree
<1> QED
  BY <1>1, InitTree, Inductive, PTL DEF Spec

(* The lineage is a forest of bounded depth: a listed child names its      *)
(* parent and sits one level below it, however spawns, settlements,        *)
(* quarantines and shutdowns interleave.                                   *)
THEOREM LineageIsSound == Spec => []LineageSound
<1>1. TreeInv(sess, tele) => LineageSound
  BY DEF TreeInv, LineInv, Listed, LineageSound
<1> QED
  BY <1>1, TreeInductive, PTL

(* The active thorn cells stay within their share of the session table,    *)
(* for every size of the table and every share.                            *)
THEOREM ThornsWithinCapacity == Spec => []ThornCapacity
<1>1. TreeInv(sess, tele) => ThornCapacity
  BY DEF TreeInv, CapInv, ThornCapacity
<1> QED
  BY <1>1, TreeInductive, PTL

(* settle_budget_reservation charges a parent for a child in the step that *)
(* settles it, for what the child has used by then, and no step charges it *)
(* again.                                                                  *)
THEOREM ChargesOnce == Spec => ChargedOnce
<1>1. IInv /\ TreeInv(sess, tele) /\ [Next]_vars => [ChargedOnceStep]_vars
  <2>1. ASSUME IInv, TreeInv(sess, tele), [Next]_vars
        PROVE  ChargedOnceStep
    <3>1. Charges(sess, sess', tele, tele')
      BY <2>1, NextShape DEF Shape
    <3> QED
      BY <3>1 DEF Charges, Bill, NewlySettled, ChargedOnceStep
  <2> QED
    BY <2>1
<1> QED
  BY <1>1, Inductive, TreeInductive, PTL DEF Spec, ChargedOnce

(* A session that was stopped runs again only when the cell that holds it  *)
(* in quarantine is released or expires: neither resume, nor recovery      *)
(* after reload, nor the tick, nor a spawn brings it back.                 *)
THEOREM RevivalIsGuarded == Spec => RevivalNeedsCell
<1> DEFINE Step == \A s \in Ids :
                      /\ sess[s].terminated /\ sess[s].status \notin Running
                      /\ sess'[s].status \in Running
                      => \E c \in ActiveThorns(sess) : sess[c].target = s
<1>1. IInv /\ TreeInv(sess, tele) /\ [Next]_vars => Step
  <2>1. ASSUME IInv, TreeInv(sess, tele), [Next]_vars
        PROVE  Step
    <3>1. Shape(sess, sess', tele, tele')
      BY <2>1, NextShape
    <3> QED
      BY <3>1, ShapeRevives DEF Guarded
  <2> QED
    BY <2>1
<1> HIDE DEF Step
<1>2. Spec => [][Step]_vars
  BY <1>1, Inductive, TreeInductive, PTL DEF Spec
<1> QED
  BY <1>2 DEF Step, RevivalNeedsCell
=============================================================================
