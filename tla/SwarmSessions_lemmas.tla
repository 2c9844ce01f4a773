------------------------ MODULE SwarmSessions_lemmas ------------------------
(***************************************************************************)
(* Lemmas about the operators SwarmSessions is built from, and the parts   *)
(* of its inductive invariant:                                             *)
(*   - Balanced, Booked, Held and Settled describe one token ledger;       *)
(*   - Frame and ThornFrame say what an ordinary step keeps of a row;      *)
(*   - BudgetInv ties the reservations in the ledgers to the rows;         *)
(*   - ThornInv ties quarantined sessions to their thorn cells.            *)
(* SwarmSessions_proofs uses them action by action.                        *)
(***************************************************************************)
EXTENDS SwarmSessions, DataLemmas

-----------------------------------------------------------------------------
(* One token ledger: what the operations of SwarmBudget preserve.          *)

(* A ledger in balance: LedgerBalances and ReservedIsSumOfHolds of         *)
(* SwarmSessions, for one ledger.                                          *)
Summed(t) == t.reserved = SumFunctionOnSet(t.held, Ids)

Balanced(t) == t.used = t.own + t.settled /\ t.own <= t.max /\ Summed(t)

(* What booking usage in a ledger t keeps of it: the result is well typed  *)
(* and balanced, only `used` and `own` differ, and it is over budget only  *)
(* if t was.                                                               *)
Booked(t, n) ==
    /\ n \in Telemetry /\ Balanced(n)
    /\ n.max = t.max /\ n.has = t.has /\ n.held = t.held
    /\ n.reserved = t.reserved /\ n.settled = t.settled
    /\ n.used > n.max => t.used > t.max

(* n is t with k tokens held for child c.                                  *)
Held(t, n, c, k) ==
    /\ n \in Telemetry /\ Balanced(n)
    /\ n.max = t.max /\ n.used = t.used /\ n.has = t.has /\ n.settled = t.settled
    /\ n.held[c] = k /\ \A d \in Ids : d # c => n.held[d] = t.held[d]

(* n is t after child c settled with usage u.                              *)
Settled(t, n, c, u) ==
    /\ n \in Telemetry /\ Balanced(n)
    /\ n.max = t.max /\ n.used = t.used + u /\ n.has = t.has
    /\ n.settled = t.settled + u
    /\ n.held[c] = 0 /\ \A d \in Ids : d # c => n.held[d] = t.held[d]

(* u32::saturating_sub stays a natural and never grows.                    *)
LEMMA MonusNat ==
    ASSUME NEW a \in Nat, NEW b \in Nat
    PROVE  Monus(a, b) \in Nat /\ Monus(a, b) <= a /\ (a <= b => Monus(a, b) = 0)
                /\ (b <= a => Monus(a, b) + b = a)
BY DEF Monus

(* The 0.4 of a compacted request is a natural.                            *)
LEMMA CompactedNat ==
    ASSUME NEW req \in Nat
    PROVE  Compacted(req) \in Nat
BY DEF Compacted

(* A session without budget_telemetry counts as an empty ledger.           *)
LEMMA EmptyLedger == NoTelemetry \in Telemetry /\ Balanced(NoTelemetry)
<1>1. NoTelemetry \in Telemetry
  BY DEF NoTelemetry, Telemetry, BudgetAction
<1>2. /\ NoTelemetry.used = 0 /\ NoTelemetry.own = 0 /\ NoTelemetry.settled = 0
      /\ NoTelemetry.max = 0 /\ NoTelemetry.reserved = 0
      /\ \A c \in Ids : NoTelemetry.held[c] = 0
  BY DEF NoTelemetry
<1>3. Summed(NoTelemetry)
  BY <1>2, SumZero, SessionsAssumption DEF Summed
<1> QED
  BY <1>1, <1>2, <1>3 DEF Balanced

(* BudgetTelemetry::new: nothing used, nothing held.                       *)
LEMMA FreshTelemetry ==
    ASSUME NEW max \in Nat, NEW action \in BudgetAction
    PROVE  LET n == NewTelemetry(max, action)
           IN  /\ n \in Telemetry /\ Balanced(n)
               /\ n.max = max /\ n.used = 0 /\ n.has /\ n.settled = 0
               /\ \A c \in Ids : n.held[c] = 0
<1> DEFINE n == NewTelemetry(max, action)
<1>1. n \in Telemetry
  BY DEF NewTelemetry, NoTelemetry, Telemetry
<1>2. /\ n.max = max /\ n.used = 0 /\ n.own = 0 /\ n.settled = 0 /\ n.has
      /\ n.reserved = 0 /\ \A c \in Ids : n.held[c] = 0
  BY DEF NewTelemetry, NoTelemetry
<1> HIDE DEF n
<1>3. Summed(n)
  BY <1>2, SumZero, SessionsAssumption DEF Summed
<1>4. Balanced(n)
  BY <1>2, <1>3 DEF Balanced
<1> QED
  BY <1>1, <1>2, <1>4 DEF n

(* record_tool_usage books a natural amount that fits beside what is       *)
(* already used, unless nothing is left, and then it books nothing.        *)
LEMMA AppliedFits ==
    ASSUME NEW t \in Telemetry, NEW req \in Nat, ~Denied(t, req)
    PROVE  /\ Applied(t, req) \in Nat
           /\ t.used <= t.max => t.used + Applied(t, req) <= t.max
           /\ t.used > t.max => Applied(t, req) = 0
<1>1. t.used \in Nat /\ t.max \in Nat /\ t.action \in BudgetAction
  BY DEF Telemetry
<1>2. Monus(t.max, t.used) \in Nat /\ (t.max <= t.used => Monus(t.max, t.used) = 0)
        /\ (t.used <= t.max => Monus(t.max, t.used) + t.used = t.max)
  BY <1>1, MonusNat
<1>3. Compacted(req) \in Nat
  BY CompactedNat
<1>4. CASE t.used + req <= t.max
  BY <1>1, <1>4 DEF Applied
<1>5. CASE t.used + req > t.max /\ t.action = "warn"
  <2>1. ~(t.used + req <= t.max)
    BY <1>1, <1>5
  <2>2. Applied(t, req) = Monus(t.max, t.used)
    BY <1>5, <2>1 DEF Applied
  <2> QED
    BY <1>1, <1>2, <2>2
<1>6. CASE t.used + req > t.max /\ t.action # "warn"
  <2>1. ~(t.used + req <= t.max)
    BY <1>1, <1>6
  <2>2. Applied(t, req) = IF Compacted(req) < Monus(t.max, t.used)
                          THEN Compacted(req) ELSE Monus(t.max, t.used)
    BY <1>6, <2>1 DEF Applied
  <2> QED
    BY <1>1, <1>2, <1>3, <2>2
<1> QED
  BY <1>1, <1>4, <1>5, <1>6

(* One request leaves the ledger well typed and in balance, charges the    *)
(* session itself only, and never takes a ledger within budget out of it.  *)
LEMMA RecordKeepsLedger ==
    ASSUME NEW t \in Telemetry, NEW req \in Nat, Balanced(t)
    PROVE  Booked(t, RecordToolUsage(t, req))
<1>1. CASE Denied(t, req)
  BY <1>1 DEF RecordToolUsage, Booked
<1>2. CASE ~Denied(t, req)
  <2> DEFINE k == Applied(t, req)
  <2>1. k \in Nat /\ (t.used <= t.max => t.used + k <= t.max) /\ (t.used > t.max => k = 0)
    BY <1>2, AppliedFits
  <2> DEFINE u == t.used + k
  <2> DEFINE o == t.own + k
  <2> DEFINE n == RecordToolUsage(t, req)
  <2>2. n = [t EXCEPT !.used = u, !.own = o]
    BY <1>2 DEF RecordToolUsage, PushUsage
  <2> HIDE DEF k, n
  <2>3. /\ t.used \in Nat /\ t.own \in Nat /\ t.settled \in Nat /\ t.max \in Nat
        /\ u \in Nat /\ o \in Nat
    BY <2>1 DEF Telemetry
  <2> HIDE DEF u, o
  <2>4. /\ n \in Telemetry
        /\ n.used = u /\ n.own = o /\ n.max = t.max /\ n.has = t.has
        /\ n.held = t.held /\ n.reserved = t.reserved /\ n.settled = t.settled
    BY <2>2, <2>3 DEF Telemetry
  <2>5. Balanced(n) /\ (n.used > n.max => t.used > t.max)
    BY <2>1, <2>3, <2>4 DEF Balanced, Summed, u, o
  <2> QED
    BY <2>4, <2>5 DEF n, Booked
<1> QED
  BY <1>1, <1>2

(* So does the whole tool plan of a check-in.                              *)
LEMMA PlanKeepsLedger ==
    ASSUME NEW t \in Telemetry, Balanced(t)
    PROVE  Booked(t, ApplyToolPlan(t))
<1>1. ReadTokens \in Nat /\ GenerateTokens(t.max) \in Nat
  BY TokensAssumption DEF GenerateTokens
<1> DEFINE m == RecordToolUsage(t, ReadTokens)
<1>2. Booked(t, m)
  BY <1>1, RecordKeepsLedger
<1> DEFINE n == RecordToolUsage(m, GenerateTokens(t.max))
<1> HIDE DEF m
<1>3. Booked(m, n)
  BY <1>1, <1>2, RecordKeepsLedger DEF Booked
<1>4. ApplyToolPlan(t) = IF ~t.has \/ Denied(t, ReadTokens) THEN t ELSE n
  BY DEF ApplyToolPlan, m
<1> HIDE DEF n
<1>5. CASE ~t.has \/ Denied(t, ReadTokens)
  BY <1>4, <1>5 DEF Booked
<1>6. CASE ~(~t.has \/ Denied(t, ReadTokens))
  BY <1>2, <1>3, <1>4, <1>6 DEF Booked
<1> QED
  BY <1>5, <1>6

(* One entry of a book of reservations changes, and with it the sum.       *)
LEMMA BookSum ==
    ASSUME NEW h \in [Ids -> Nat], NEW g \in [Ids -> Nat], NEW c \in Ids,
           \A d \in Ids : d # c => g[d] = h[d]
    PROVE  /\ h[c] = 0 => SumFunctionOnSet(g, Ids) = SumFunctionOnSet(h, Ids) + g[c]
           /\ g[c] = 0 => /\ SumFunctionOnSet(g, Ids) + h[c] = SumFunctionOnSet(h, Ids)
                          /\ h[c] <= SumFunctionOnSet(h, Ids)
           /\ SumFunctionOnSet(h, Ids) \in Nat /\ SumFunctionOnSet(g, Ids) \in Nat
<1>1. /\ SumFunctionOnSet(h, Ids) + g[c] = SumFunctionOnSet(g, Ids) + h[c]
      /\ SumFunctionOnSet(h, Ids) \in Nat /\ SumFunctionOnSet(g, Ids) \in Nat
      /\ h[c] <= SumFunctionOnSet(h, Ids)
  BY SumChange, SessionsAssumption
<1>2. h[c] \in Nat /\ g[c] \in Nat
  OBVIOUS
<1> QED
  BY <1>1, <1>2

(* A reservation changes neither the balance nor what is used.             *)
LEMMA HoldKeepsLedger ==
    ASSUME NEW t \in Telemetry, NEW c \in Ids, NEW k \in Nat, Balanced(t), t.held[c] = 0
    PROVE  Held(t, HoldFor(t, c, k), c, k)
<1> DEFINE h == [t.held EXCEPT ![c] = k]
<1> DEFINE n == HoldFor(t, c, k)
<1> DEFINE r == t.reserved + k
<1>1. r \in Nat /\ h \in [Ids -> Nat]
  BY DEF Telemetry
<1>2. n = [t EXCEPT !.reserved = r, !.held = h]
  BY DEF HoldFor
<1> HIDE DEF h, n, r
<1>3. /\ n \in Telemetry
      /\ n.used = t.used /\ n.own = t.own /\ n.max = t.max /\ n.has = t.has
      /\ n.held = h /\ n.settled = t.settled /\ n.reserved = r
  BY <1>1, <1>2 DEF Telemetry
<1>4. h[c] = k /\ \A d \in Ids : d # c => h[d] = t.held[d]
  BY DEF h, Telemetry
<1>5. Balanced(n)
  <2>1. SumFunctionOnSet(h, Ids) = SumFunctionOnSet(t.held, Ids) + k
    BY <1>1, <1>4, BookSum DEF Telemetry
  <2> QED
    BY <1>3, <2>1 DEF Balanced, Summed, r
<1> QED
  BY <1>3, <1>4, <1>5 DEF n, Held

(* A settlement moves what the child used into the parent's balance.       *)
LEMMA SettleKeepsLedger ==
    ASSUME NEW t \in Telemetry, NEW c \in Ids, NEW k \in Nat, NEW u \in Nat, Balanced(t),
           t.held[c] = k
    PROVE  Settled(t, SettleInto(t, c, k, u), c, u)
<1> DEFINE h == [t.held EXCEPT ![c] = 0]
<1> DEFINE r == Monus(t.reserved, k)
<1> DEFINE x == t.settled + u
<1> DEFINE y == t.used + u
<1> DEFINE n == SettleInto(t, c, k, u)
<1>1. /\ t.used \in Nat /\ t.settled \in Nat /\ t.reserved \in Nat /\ t.own \in Nat
      /\ x \in Nat /\ y \in Nat /\ h \in [Ids -> Nat]
  BY DEF Telemetry
<1>2. r \in Nat
  BY <1>1, MonusNat
<1>3. n = [t EXCEPT !.reserved = r, !.held = h, !.settled = x, !.used = y]
  BY DEF SettleInto
<1> HIDE DEF h, n, r, x, y
<1>4. /\ n \in Telemetry
      /\ n.used = y /\ n.own = t.own /\ n.max = t.max /\ n.has = t.has
      /\ n.held = h /\ n.settled = x /\ n.reserved = r
  BY <1>1, <1>2, <1>3 DEF Telemetry
<1>5. h[c] = 0 /\ \A d \in Ids : d # c => h[d] = t.held[d]
  BY DEF h, Telemetry
<1>6. Balanced(n)
  <2>1. /\ SumFunctionOnSet(h, Ids) + k = SumFunctionOnSet(t.held, Ids)
        /\ k <= SumFunctionOnSet(t.held, Ids) /\ SumFunctionOnSet(h, Ids) \in Nat
    BY <1>1, <1>5, BookSum DEF Telemetry
  <2>2. t.reserved = SumFunctionOnSet(t.held, Ids)
    BY DEF Balanced, Summed
  <2>3. r + k = t.reserved
    BY <1>1, <2>1, <2>2, MonusNat DEF r
  <2>4. r = SumFunctionOnSet(h, Ids)
    BY <1>2, <2>1, <2>2, <2>3
  <2> QED
    BY <1>1, <1>4, <2>4 DEF Balanced, Summed, x, y
<1> QED
  BY <1>4, <1>5, <1>6 DEF n, x, y, Settled

-----------------------------------------------------------------------------
(* The tables.                                                             *)

RowsOK(se) == se \in [Ids -> Session]
LedgersOK(te) == te \in [Ids -> Telemetry] /\ \A s \in Ids : Balanced(te[s])

(* What a step that neither creates nor settles a session keeps of a row.  *)
Frame(r, n) ==
    /\ n.kind = r.kind /\ n.parent = r.parent /\ n.res = r.res
    /\ n.settled = r.settled
    /\ n.terminated = r.terminated \/ n.status \notin NoRow
    /\ n.status = r.status \/ (n.status \notin NoRow /\ r.status \notin NoRow)
    /\ n.prev = "lost" => r.prev = "lost"

(* ... and of a ledger.                                                    *)
LedgerFrame(t, n) ==
    n.max = t.max /\ n.held = t.held /\ (n.used > n.max => t.used > t.max)

-----------------------------------------------------------------------------
(* Rows.                                                                   *)

(* The row of an identifier that was not issued is well typed.             *)
LEMMA AbsentRowTyped == AbsentRow \in Session
BY DEF AbsentRow, Session, Kinds, Status, NoRow

(* Writing one well-typed row keeps the session table well typed.          *)
LEMMA SetRow ==
    ASSUME NEW se, RowsOK(se), NEW s \in Ids, NEW r \in Session
    PROVE  RowsOK([se EXCEPT ![s] = r])
BY DEF RowsOK

(* Writing one balanced ledger keeps every ledger well typed and balanced. *)
LEMMA SetLedger ==
    ASSUME NEW te, LedgersOK(te), NEW s \in Ids, NEW t \in Telemetry, Balanced(t)
    PROVE  LedgersOK([te EXCEPT ![s] = t])
BY DEF LedgersOK

(* The row of a session that finished or was terminated is well typed.     *)
LEMMA EndRowTyped ==
    ASSUME NEW r \in Session, NEW st \in Status
    PROVE  EndRow(r, st) \in Session
BY DEF EndRow, SetHealth, Session

(* The row sessions_resume writes is well typed.                           *)
LEMMA ResumedRowTyped ==
    ASSUME NEW r \in Session
    PROVE  ResumedRow(r) \in Session
<1> DEFINE st == IF r.kind = "background" THEN "background_running" ELSE "persistent_running"
<1>1. st \in Status /\ CheckInInterval \in Nat
  BY SessionsAssumption DEF Status, Running, Persistent
<1>2. ResumedRow(r) = IF r.terminated THEN [r EXCEPT !.reachable = TRUE]
                      ELSE [r EXCEPT !.reachable = TRUE, !.checkIn = CheckInInterval, !.status = st]
  BY DEF ResumedRow
<1> HIDE DEF st
<1>3. [r EXCEPT !.reachable = TRUE] \in Session
  BY DEF Session
<1>4. [r EXCEPT !.reachable = TRUE, !.checkIn = CheckInInterval, !.status = st] \in Session
  BY <1>1 DEF Session
<1> QED
  BY <1>2, <1>3, <1>4

(* recover_persistent_sessions_after_reload keeps the table well typed.    *)
LEMMA RecoverTyped ==
    ASSUME NEW se, RowsOK(se)
    PROVE  RowsOK(RecoverPersistent(se))
<1>1. ASSUME NEW r \in Session
      PROVE  [r EXCEPT !.reachable = TRUE] \in Session
  BY DEF Session
<1> QED
  BY <1>1 DEF RowsOK, RecoverPersistent

(* It changes reachability alone: status, quarantine, lineage and budget   *)
(* fields stay.                                                            *)
LEMMA RecoverFrame ==
    ASSUME NEW se, RowsOK(se), NEW s \in Ids
    PROVE  LET n == RecoverPersistent(se)[s]
           IN  /\ Frame(se[s], n)
               /\ n.status = se[s].status /\ n.prev = se[s].prev
               /\ n.target = se[s].target /\ n.kind = se[s].kind
<1>1. se[s] \in Session
  BY DEF RowsOK
<1>2. RecoverPersistent(se)[s] \in {se[s], [se[s] EXCEPT !.reachable = TRUE]}
  BY DEF RecoverPersistent
<1>3. ASSUME NEW n, n = [se[s] EXCEPT !.reachable = TRUE]
      PROVE  /\ n.status = se[s].status /\ n.prev = se[s].prev /\ n.res = se[s].res
             /\ n.target = se[s].target /\ n.kind = se[s].kind /\ n.parent = se[s].parent
             /\ n.settled = se[s].settled /\ n.terminated = se[s].terminated
  BY <1>1, <1>3 DEF Session
<1> QED
  BY <1>2, <1>3 DEF Frame

(* Recovery does not bring back a session that has ended.                  *)
LEMMA RecoverEnds ==
    ASSUME NEW se, RowsOK(se), NEW s \in Ids
    PROVE  RecoverPersistent(se)[s].terminated = se[s].terminated
<1>1. se[s] \in Session
  BY DEF RowsOK
<1>2. RecoverPersistent(se)[s] \in {se[s], [se[s] EXCEPT !.reachable = TRUE]}
  BY DEF RecoverPersistent
<1> QED
  BY <1>1, <1>2 DEF Session

(* release_thorn_cells_for_target keeps the table well typed.              *)
LEMMA ReleaseTyped ==
    ASSUME NEW se, RowsOK(se), NEW T
    PROVE  RowsOK(ReleaseThornCells(se, T))
<1> SUFFICES ASSUME NEW s \in Ids
             PROVE  ReleaseThornCells(se, T)[s] \in Session
  BY DEF RowsOK, ReleaseThornCells
<1>1. se[s] \in Session
  BY DEF RowsOK
<1> DEFINE bad == SetHealth(se[s], "unhealthy")
<1> DEFINE good == SetHealth(se[s], "healthy")
<1> DEFINE st == IF se[s].prev = "absent" THEN "running" ELSE se[s].prev
<1>2. /\ bad \in {"none", "healthy", "unhealthy"} /\ good \in {"none", "healthy", "unhealthy"}
      /\ st \in Status /\ "thorn_destroyed" \in Status /\ "absent" \in Status
  BY <1>1 DEF SetHealth, Session, Status, Running, NoRow
<1> DEFINE cell == [se[s] EXCEPT !.status = "thorn_destroyed", !.reachable = FALSE,
                             !.ttl = 0, !.service = bad]
<1> DEFINE back == [se[s] EXCEPT !.status = st, !.reachable = TRUE, !.prev = "absent",
                             !.service = good]
<1>3. ReleaseThornCells(se, T)[s] \in {cell, back, se[s]}
  BY DEF ReleaseThornCells
<1> HIDE DEF bad, good, st
<1>4. cell \in Session
  BY <1>1, <1>2 DEF Session
<1>5. back \in Session
  BY <1>1, <1>2 DEF Session
<1> QED
  BY <1>1, <1>3, <1>4, <1>5

(* A session that has still to settle is in its parent's book.             *)
InBook(se, te, s) == Unsettled(se[s]) => te[se[s].parent].held[s] = se[s].res

(* What settle_budget_reservation does to the parent's ledger.             *)
LEMMA SettledParent ==
    ASSUME NEW se, NEW te, RowsOK(se), LedgersOK(te), NEW s \in Ids, Unsettled(se[s]),
           InBook(se, te, s)
    PROVE  LET p == se[s].parent
           IN  /\ p \in Ids /\ te[p] \in Telemetry /\ te[s].used \in Nat
               /\ Settled(te[p], SettleInto(te[p], s, se[s].res, te[s].used), s, te[s].used)
<1>1. se[s].parent \in Ids /\ se[s].res \in Nat /\ te[s].used \in Nat
  BY DEF Unsettled, RowsOK, LedgersOK, Session, Telemetry
<1>2. te[se[s].parent] \in Telemetry /\ Balanced(te[se[s].parent])
  BY <1>1 DEF LedgersOK
<1>3. te[se[s].parent].held[s] = se[s].res
  BY DEF InBook
<1> QED
  BY <1>1, <1>2, <1>3, SettleKeepsLedger

(* settle_budget_reservation keeps both tables well typed and every ledger *)
(* balanced.                                                               *)
LEMMA SettleTyped ==
    ASSUME NEW se, NEW te, RowsOK(se), LedgersOK(te), NEW s \in Ids, InBook(se, te, s)
    PROVE  LET e == SettleBudgetReservation(se, te, s)
           IN  RowsOK(e[1]) /\ LedgersOK(e[2])
<1>1. CASE ~Unsettled(se[s])
  BY <1>1 DEF SettleBudgetReservation
<1>2. CASE Unsettled(se[s])
  <2> DEFINE p == se[s].parent
  <2> DEFINE t == SettleInto(te[p], s, se[s].res, te[s].used)
  <2>1. p \in Ids /\ t \in Telemetry /\ Balanced(t)
    BY <1>2, SettledParent DEF Settled
  <2> HIDE DEF t
  <2>2. LedgersOK([te EXCEPT ![p] = t])
    BY <2>1, SetLedger
  <2> DEFINE n == [se[s] EXCEPT !.settled = TRUE]
  <2>3. n \in Session
    <3>1. se[s] \in Session
      BY DEF RowsOK
    <3> QED
      BY <3>1 DEF Session
  <2> HIDE DEF n
  <2>4. RowsOK([se EXCEPT ![s] = n])
    BY <2>3, SetRow
  <2> QED
    BY <1>2, <2>2, <2>4 DEF SettleBudgetReservation, t, n
<1> QED
  BY <1>1, <1>2

-----------------------------------------------------------------------------
(* The inductive invariant of the budget, on a pair of tables.             *)

(* An identifier without a row owes nothing.                               *)
Blank(r) == r.status \in NoRow => ~r.settled /\ ~r.terminated /\ r.parent = None

Excused(se, s) ==
    \E c \in Ids : se[c].parent = s /\ IsPersistent(se[c]) /\ se[c].settled

HoldMatches(se, te, p, c) ==
    /\ te[p].held[c] # 0 =>
          \/ se[c].status = "lost"
          \/ (se[c].parent = p /\ Unsettled(se[c]) /\ se[c].res = te[p].held[c])
    /\ (se[c].parent = p /\ Unsettled(se[c])) => te[p].held[c] = se[c].res

(* Whoever booked a reservation has a row, another one.                    *)
ParentExists(se, c) ==
    se[c].parent \in Ids => se[c].parent # c /\ se[se[c].parent].status \notin NoRow

BudgetInv(se, te) ==
    /\ \A s \in Ids : Blank(se[s]) /\ se[s].prev # "lost" /\ ParentExists(se, s)
    /\ \A s \in Ids : te[s].used > te[s].max => Excused(se, s)
    /\ \A p, c \in Ids : HoldMatches(se, te, p, c)

Done(se) == \A s \in Ids : se[s].terminated => ~Unsettled(se[s])

(* Every session that has still to settle is in its parent's book.         *)
LEMMA BookedChild ==
    ASSUME NEW se, NEW te, RowsOK(se), BudgetInv(se, te), NEW s \in Ids
    PROVE  InBook(se, te, s)
<1> SUFFICES ASSUME Unsettled(se[s]) PROVE te[se[s].parent].held[s] = se[s].res
  BY DEF InBook
<1>1. se[s].parent \in Ids
  BY DEF Unsettled, RowsOK, Session
<1> QED
  BY <1>1 DEF BudgetInv, HoldMatches

(* A step that changes rows and ledgers within their frames keeps it.      *)
LEMMA FrameKeepsBudget ==
    ASSUME NEW se, NEW sf, NEW te, NEW tf, BudgetInv(se, te),
           \A s \in Ids : Frame(se[s], sf[s]),
           \A s \in Ids : LedgerFrame(te[s], tf[s])
    PROVE  /\ BudgetInv(sf, tf)
           /\ Done(se) /\ (\A s \in Ids : sf[s].terminated => se[s].terminated) => Done(sf)
<1>1. ASSUME NEW s \in Ids
      PROVE  Blank(sf[s]) /\ sf[s].prev # "lost" /\ ParentExists(sf, s)
  BY DEF BudgetInv, Blank, Frame, ParentExists
<1>2. ASSUME NEW s \in Ids, tf[s].used > tf[s].max
      PROVE  Excused(sf, s)
  <2>1. Excused(se, s)
    BY <1>2 DEF BudgetInv, LedgerFrame
  <2> QED
    BY <2>1 DEF Excused, Frame, IsPersistent
<1>3. ASSUME NEW c \in Ids
      PROVE  /\ Unsettled(sf[c]) <=> Unsettled(se[c])
             /\ sf[c].parent = se[c].parent /\ sf[c].res = se[c].res
             /\ se[c].status = "lost" => sf[c].status = "lost"
  BY DEF Frame, Unsettled, NoRow
<1>4. ASSUME NEW p \in Ids, NEW c \in Ids
      PROVE  HoldMatches(sf, tf, p, c)
  BY <1>3 DEF BudgetInv, HoldMatches, LedgerFrame
<1> QED
  BY <1>1, <1>2, <1>3, <1>4 DEF BudgetInv, Done

(* Settling a session keeps the invariant when it is persistent, or when   *)
(* its use fits into what its parent has left.                             *)
LEMMA SettleKeepsBudget ==
    ASSUME NEW se, NEW te, RowsOK(se), LedgersOK(te), NEW s \in Ids, BudgetInv(se, te),
           se[s].status \notin NoRow,
           Unsettled(se[s]) =>
              \/ IsPersistent(se[s])
              \/ te[se[s].parent].used > te[se[s].parent].max
              \/ te[se[s].parent].used + te[s].used <= te[se[s].parent].max
    PROVE  LET e == SettleBudgetReservation(se, te, s)
           IN  /\ BudgetInv(e[1], e[2])
               /\ ~Unsettled(e[1][s])
               /\ \A c \in Ids : c # s => e[1][c] = se[c]
<1>1. CASE ~Unsettled(se[s])
  BY <1>1 DEF SettleBudgetReservation
<1>2. CASE Unsettled(se[s])
  <2> DEFINE p == se[s].parent
  <2> DEFINE sf == [se EXCEPT ![s].settled = TRUE]
  <2> DEFINE t == SettleInto(te[p], s, se[s].res, te[s].used)
  <2> DEFINE tf == [te EXCEPT ![p] = t]
  <2>1. SettleBudgetReservation(se, te, s) = <<sf, tf>>
    BY <1>2 DEF SettleBudgetReservation
  <2>0. InBook(se, te, s)
    BY BookedChild
  <2>2. p \in Ids /\ te[s].used \in Nat /\ te \in [Ids -> Telemetry]
    BY <1>2, <2>0, SettledParent DEF LedgersOK
  <2>3. /\ t.max = te[p].max /\ t.used = te[p].used + te[s].used
        /\ t.held[s] = 0 /\ \A d \in Ids : d # s => t.held[d] = te[p].held[d]
    <3>1. Settled(te[p], t, s, te[s].used)
      BY <1>2, <2>0, SettledParent
    <3> HIDE DEF t, p
    <3> QED
      BY <3>1 DEF Settled
  <2> HIDE DEF t
  <2>4. \A q \in Ids : tf[q] = IF q = p THEN t ELSE te[q]
    BY <2>2
  <2>5. /\ \A c \in Ids : c # s => sf[c] = se[c]
        /\ sf[s].settled /\ sf[s].status = se[s].status /\ sf[s].kind = se[s].kind
        /\ sf[s].parent = p /\ sf[s].prev = se[s].prev
    <3>1. se[s] \in Session /\ se \in [Ids -> Session]
      BY DEF RowsOK
    <3> QED
      BY <3>1 DEF Session
  <2> HIDE DEF sf, tf
  <2>6. ASSUME NEW c \in Ids
        PROVE  Blank(sf[c]) /\ sf[c].prev # "lost" /\ ParentExists(sf, c)
    BY <2>5 DEF BudgetInv, Blank, ParentExists
  <2>7. ASSUME NEW q \in Ids, tf[q].used > tf[q].max
        PROVE  Excused(sf, q)
    <3>1. CASE Excused(se, q)
      <4>1. PICK c \in Ids : se[c].parent = q /\ IsPersistent(se[c]) /\ se[c].settled
        BY <3>1 DEF Excused
      <4>2. c # s
        BY <1>2, <4>1 DEF Unsettled
      <4> QED
        BY <2>5, <4>1, <4>2 DEF Excused
    <3>2. CASE ~Excused(se, q)
      <4>1. te[q].used <= te[q].max
        BY <2>2, <3>2 DEF BudgetInv, Telemetry
      <4>2. q = p
        BY <2>4, <2>7, <3>2 DEF BudgetInv
      <4>3. ~(te[p].used > te[p].max) /\ ~(te[p].used + te[s].used <= te[p].max)
        BY <2>2, <2>3, <2>4, <2>7, <4>1, <4>2 DEF Telemetry
      <4>4. IsPersistent(se[s])
        BY <1>2, <4>3
      <4> QED
        BY <2>5, <4>2, <4>4 DEF Excused, IsPersistent
    <3> QED
      BY <3>1, <3>2
  <2>8. ASSUME NEW q \in Ids, NEW c \in Ids
        PROVE  HoldMatches(sf, tf, q, c)
    <3>1. te[q].held \in [Ids -> Nat] /\ te[p].held \in [Ids -> Nat] /\ HoldMatches(se, te, q, c)
      BY <2>2 DEF BudgetInv, Telemetry
    <3>2. CASE c # s
      <4>1. tf[q].held[c] = te[q].held[c] /\ sf[c] = se[c]
        BY <2>3, <2>4, <2>5, <3>1, <3>2
      <4> QED
        BY <3>1, <4>1 DEF HoldMatches
    <3>3. CASE c = s /\ q = p
      <4>1. tf[q].held[c] = 0
        BY <2>3, <2>4, <3>1, <3>3
      <4>2. ~Unsettled(sf[c])
        BY <2>5, <3>3 DEF Unsettled
      <4> QED
        BY <4>1, <4>2 DEF HoldMatches
    <3>4. CASE c = s /\ q # p
      <4>1. tf[q].held[c] = te[q].held[c] /\ sf[c].parent # q /\ sf[c].status = se[c].status
        BY <2>4, <2>5, <3>4
      <4>2. te[q].held[c] = 0
        BY <3>1, <3>4 DEF HoldMatches, NoRow
      <4> QED
        BY <4>1, <4>2 DEF HoldMatches
    <3> QED
      BY <3>2, <3>3, <3>4
  <2>9. BudgetInv(sf, tf)
    BY <2>6, <2>7, <2>8 DEF BudgetInv
  <2>10. ~Unsettled(sf[s])
    BY <2>5 DEF Unsettled
  <2> QED
    BY <2>1, <2>5, <2>9, <2>10
<1> QED
  BY <1>1, <1>2

(* Identifier s is given a row, with k tokens held for it in the book of   *)
(* `hp`: an unsettled row, or none if the spawn was lost after it          *)
(* reserved.                                                               *)
Inserts(se, te, sf, tf, s, hp, k) ==
    /\ s \in Ids /\ se[s].status = "absent" /\ hp \in Ids \cup {None} /\ k \in Nat /\ hp # s
    /\ hp \in Ids => se[hp].status \notin NoRow
    /\ \A c \in Ids : c # s => Frame(se[c], sf[c])
    /\ Blank(sf[s]) /\ sf[s].prev # "lost" /\ ~sf[s].settled
    /\ \/ sf[s].parent = hp /\ sf[s].res = k /\ sf[s].status # "absent"
       \/ sf[s].parent = None /\ sf[s].status = "lost"
    /\ hp \in Ids => k # 0 /\ Held(te[hp], tf[hp], s, k)
    /\ \A q \in Ids : q # s /\ q # hp => tf[q] = te[q]
    /\ tf[s].used > tf[s].max => te[s].used > te[s].max
    /\ \A d \in Ids : tf[s].held[d] = 0 \/ tf[s].held[d] = te[s].held[d]

(* Such a step keeps the invariant.                                        *)
LEMMA InsertKeepsBudget ==
    ASSUME NEW se, NEW te, NEW sf, NEW tf, LedgersOK(te), BudgetInv(se, te),
           NEW s, NEW hp, NEW k, Inserts(se, te, sf, tf, s, hp, k)
    PROVE  /\ BudgetInv(sf, tf)
           /\ Done(se) /\ (\A c \in Ids : sf[c].terminated => c # s /\ se[c].terminated) => Done(sf)
<1> USE DEF Inserts
<1>0. None \notin Ids
  BY SessionsAssumption
<1>1. ~se[s].settled /\ se[s].parent = None
  BY DEF BudgetInv, Blank, NoRow
<1>2. ASSUME NEW c \in Ids
      PROVE  Blank(sf[c]) /\ sf[c].prev # "lost" /\ ParentExists(sf, c)
  <2>1. CASE c = s
    BY <1>0, <2>1 DEF ParentExists, Frame
  <2>2. CASE c # s
    <3>1. Blank(sf[c]) /\ sf[c].prev # "lost"
      BY <2>2 DEF BudgetInv, Blank, Frame
    <3>2. /\ sf[c].parent = se[c].parent
          /\ se[c].parent \in Ids => se[c].parent # c /\ se[se[c].parent].status \notin NoRow
      BY <2>2 DEF BudgetInv, ParentExists, Frame
    <3>3. ParentExists(sf, c)
      BY <3>2 DEF ParentExists, Frame, NoRow
    <3> QED
      BY <3>1, <3>3
  <2> QED
    BY <2>1, <2>2
<1>3. ASSUME NEW q \in Ids, tf[q].used > tf[q].max
      PROVE  Excused(sf, q)
  <2>1. te[q].used > te[q].max
    BY <1>3 DEF Held
  <2>2. Excused(se, q)
    BY <2>1 DEF BudgetInv
  <2>3. PICK c \in Ids : se[c].parent = q /\ IsPersistent(se[c]) /\ se[c].settled
    BY <2>2 DEF Excused
  <2>4. c # s
    BY <1>1, <2>3
  <2> QED
    BY <2>3, <2>4 DEF Excused, Frame, IsPersistent
<1>4. ASSUME NEW c \in Ids, c # s
      PROVE  /\ Unsettled(sf[c]) <=> Unsettled(se[c])
             /\ sf[c].parent = se[c].parent /\ sf[c].res = se[c].res
             /\ se[c].status = "lost" => sf[c].status = "lost"
             /\ sf[c].parent # s
  <2>1. sf[c].parent # s
    BY <1>4 DEF Frame, BudgetInv, ParentExists, NoRow
  <2> QED
    BY <1>4, <2>1 DEF Frame, Unsettled, NoRow
<1>5. ASSUME NEW q \in Ids, NEW c \in Ids
      PROVE  HoldMatches(sf, tf, q, c)
  <2>1. HoldMatches(se, te, q, c) /\ te[q].held[s] = 0
    BY <1>0, <1>1 DEF BudgetInv, HoldMatches
  <2>2. CASE c # s /\ q # s
    <3>1. tf[q].held[c] = te[q].held[c]
      BY <2>2 DEF Held
    <3> QED
      BY <1>4, <2>1, <2>2, <3>1 DEF HoldMatches
  <2>3. CASE c # s /\ q = s
    <3>1. tf[q].held[c] # 0 => sf[c].status = "lost"
      BY <1>4, <2>1, <2>3 DEF HoldMatches
    <3> QED
      BY <1>4, <2>3, <3>1 DEF HoldMatches
  <2>4. CASE c = s /\ q = hp
    <3>1. tf[q].held[c] = k /\ k # 0
      BY <2>4 DEF Held
    <3>2. CASE sf[s].parent = hp /\ sf[s].res = k
      BY <1>0, <2>4, <3>1, <3>2 DEF HoldMatches, Unsettled
    <3>3. CASE sf[s].parent = None /\ sf[s].status = "lost"
      BY <1>0, <2>4, <3>1, <3>3 DEF HoldMatches, Unsettled
    <3> QED
      BY <3>2, <3>3
  <2>5. CASE c = s /\ q # hp
    <3>1. tf[q].held[c] = 0
      BY <2>1, <2>5
    <3>2. sf[s].parent # q
      BY <1>0, <2>5
    <3> QED
      BY <2>5, <3>1, <3>2 DEF HoldMatches
  <2> QED
    BY <2>2, <2>3, <2>4, <2>5
<1>6. ASSUME Done(se), \A c \in Ids : sf[c].terminated => c # s /\ se[c].terminated
      PROVE  Done(sf)
  BY <1>4, <1>6 DEF Done
<1> QED
  BY <1>2, <1>3, <1>5, <1>6 DEF BudgetInv

-----------------------------------------------------------------------------
(* The inductive invariant of quarantine.                                  *)

Guarded(se, s) == \E c \in ActiveThorns(se) : se[c].target = s

CellSound(se, c) ==
    LET g == se[c].target
    IN  /\ g \in Ids /\ se[g].status \notin NoRow /\ se[g].kind # "thorn"
        /\ se[g].prev \notin NoRow \cup {"quarantined_thorn"}

ThornInv(se) ==
    /\ \A s \in Ids : se[s].status = "quarantined_thorn" => Guarded(se, s)
    /\ \A c \in ActiveThorns(se) : CellSound(se, c)

(* What a step that is not about quarantine keeps of a row.                *)
ThornFrame(r, n) ==
    /\ n.kind = r.kind /\ n.target = r.target /\ n.prev = r.prev
    /\ \/ n.status = r.status
       \/ /\ r.kind # "thorn" /\ r.status \notin NoRow
          /\ n.status \notin NoRow \cup {"quarantined_thorn"}

(* ... or such a step gives an unused identifier a row that is no cell.    *)
PlainInsert(r, n) ==
    /\ r.status \in NoRow /\ n.status # "quarantined_thorn"
    /\ n.kind # "thorn" \/ n.status # "thorn_active"

(* A step made of such changes keeps the quarantine invariant.             *)
LEMMA FrameKeepsThorn ==
    ASSUME NEW se, NEW sf, ThornInv(se),
           \A s \in Ids : ThornFrame(se[s], sf[s]) \/ PlainInsert(se[s], sf[s])
    PROVE  ThornInv(sf)
<1>1. ASSUME NEW c \in Ids
      PROVE  /\ c \in ActiveThorns(se) <=> c \in ActiveThorns(sf)
             /\ c \in ActiveThorns(se) => sf[c].target = se[c].target
  BY DEF ActiveThorns, ThornFrame, PlainInsert, NoRow
<1>2. ActiveThorns(se) = ActiveThorns(sf) /\ ActiveThorns(se) \subseteq Ids
  BY <1>1 DEF ActiveThorns
<1>3. ASSUME NEW s \in Ids, sf[s].status = "quarantined_thorn"
      PROVE  Guarded(sf, s)
  <2>1. Guarded(se, s)
    BY <1>3 DEF ThornInv, ThornFrame, PlainInsert
  <2> QED
    BY <1>1, <1>2, <2>1 DEF Guarded
<1>4. ASSUME NEW c \in ActiveThorns(sf)
      PROVE  CellSound(sf, c)
  <2>1. CellSound(se, c) /\ c \in Ids /\ sf[c].target = se[c].target
    BY <1>1, <1>2 DEF ThornInv
  <2>2. ThornFrame(se[se[c].target], sf[se[c].target])
    BY <2>1 DEF CellSound, PlainInsert
  <2> QED
    BY <2>1, <2>2 DEF CellSound, ThornFrame
<1> QED
  BY <1>3, <1>4 DEF ThornInv

(* A settlement is not about quarantine.                                   *)
LEMMA SettleThorn ==
    ASSUME NEW se, NEW te, NEW s \in Ids, RowsOK(se), ThornInv(se)
    PROVE  ThornInv(SettleBudgetReservation(se, te, s)[1])
<1> DEFINE n == [se[s] EXCEPT !.settled = TRUE]
<1> DEFINE sf == [se EXCEPT ![s] = n]
<1>1. SettleBudgetReservation(se, te, s)[1] \in {se, sf}
  BY DEF SettleBudgetReservation
<1>2. se[s] \in Session /\ se \in [Ids -> Session]
  BY DEF RowsOK
<1>3. n.kind = se[s].kind /\ n.target = se[s].target /\ n.prev = se[s].prev
        /\ n.status = se[s].status
  BY <1>2 DEF Session
<1> HIDE DEF n
<1>4. \A c \in Ids : sf[c] = IF c = s THEN n ELSE se[c]
  BY <1>2
<1> HIDE DEF sf
<1>5. \A c \in Ids : ThornFrame(se[c], sf[c])
  BY <1>3, <1>4 DEF ThornFrame
<1>6. ThornInv(sf)
  BY <1>5, FrameKeepsThorn
<1> QED
  BY <1>1, <1>6

(* Releasing the cells of targets T: rows stay in their frame, and every   *)
(* quarantine that is left still has its cell.                             *)
LEMMA ReleaseFrame ==
    ASSUME NEW se, RowsOK(se), ThornInv(se), NEW T,
           \A g \in T : Guarded(se, g), NEW s \in Ids
    PROVE  LET n == ReleaseThornCells(se, T)[s]
           IN  /\ Frame(se[s], n)
               /\ n.terminated = se[s].terminated /\ n.target = se[s].target
               /\ s \in ActiveThorns(se) /\ se[s].target \in T => n.status = "thorn_destroyed"
               /\ ~(s \in ActiveThorns(se) /\ se[s].target \in T) /\ s \notin T => n = se[s]
               /\ s \in T => n.status \notin {"quarantined_thorn", "thorn_active"} \/ n.kind # "thorn"
               /\ s \in T => n.status # "quarantined_thorn"
               /\ s \in T => se[s].kind # "thorn" /\ se[s].status \notin NoRow
<1> DEFINE st == IF se[s].prev = "absent" THEN "running" ELSE se[s].prev
<1> DEFINE cell == [se[s] EXCEPT !.status = "thorn_destroyed", !.reachable = FALSE,
                             !.ttl = 0, !.service = SetHealth(se[s], "unhealthy")]
<1> DEFINE back == [se[s] EXCEPT !.status = st, !.reachable = TRUE, !.prev = "absent",
                             !.service = SetHealth(se[s], "healthy")]
<1>1. se[s] \in Session
  BY DEF RowsOK
<1>2. s \in T => /\ se[s].kind # "thorn" /\ se[s].status \notin NoRow
                 /\ se[s].prev \notin NoRow \cup {"quarantined_thorn"}
  BY DEF Guarded, ThornInv, CellSound
<1>3. s \in ActiveThorns(se) => se[s].kind = "thorn" /\ se[s].status = "thorn_active"
  BY DEF ActiveThorns
<1>4. ReleaseThornCells(se, T)[s] =
        IF s \in ActiveThorns(se) /\ se[s].target \in T THEN cell
        ELSE IF s \in T THEN back ELSE se[s]
  BY <1>2, <1>3 DEF ReleaseThornCells
<1>5. /\ cell.status = "thorn_destroyed" /\ cell.kind = se[s].kind /\ cell.parent = se[s].parent
      /\ cell.res = se[s].res /\ cell.settled = se[s].settled /\ cell.prev = se[s].prev
      /\ cell.terminated = se[s].terminated /\ cell.target = se[s].target
  BY <1>1 DEF Session
<1>6. /\ back.status = st /\ back.kind = se[s].kind /\ back.parent = se[s].parent
      /\ back.res = se[s].res /\ back.settled = se[s].settled /\ back.prev = "absent"
      /\ back.terminated = se[s].terminated /\ back.target = se[s].target
  BY <1>1 DEF Session
<1> HIDE DEF cell, back
<1>7. CASE s \in ActiveThorns(se) /\ se[s].target \in T
  BY <1>2, <1>3, <1>4, <1>5, <1>7 DEF Frame, NoRow
<1>8. CASE ~(s \in ActiveThorns(se) /\ se[s].target \in T) /\ s \in T
  BY <1>2, <1>3, <1>4, <1>6, <1>8 DEF Frame, NoRow
<1>9. CASE ~(s \in ActiveThorns(se) /\ se[s].target \in T) /\ s \notin T
  BY <1>4, <1>9 DEF Frame
<1> QED
  BY <1>7, <1>8, <1>9

(* Releasing cells of guarded targets keeps the quarantine invariant.      *)
LEMMA ReleaseKeepsThorn ==
    ASSUME NEW se, RowsOK(se), ThornInv(se), NEW T, \A g \in T : Guarded(se, g)
    PROVE  ThornInv(ReleaseThornCells(se, T))
<1> DEFINE sf == ReleaseThornCells(se, T)
<1>1. ASSUME NEW s \in Ids
      PROVE  /\ Frame(se[s], sf[s]) /\ sf[s].target = se[s].target
             /\ s \in ActiveThorns(se) /\ se[s].target \in T => sf[s].status = "thorn_destroyed"
             /\ ~(s \in ActiveThorns(se) /\ se[s].target \in T) /\ s \notin T => sf[s] = se[s]
             /\ s \in T => sf[s].status # "quarantined_thorn" /\ se[s].kind # "thorn"
  BY ReleaseFrame
<1> HIDE DEF sf
<1>2. ASSUME NEW s \in Ids, sf[s].status = "quarantined_thorn"
      PROVE  Guarded(sf, s)
  <2>1. s \notin T /\ sf[s] = se[s]
    BY <1>1, <1>2
  <2>2. PICK c \in ActiveThorns(se) : se[c].target = s
    BY <1>2, <2>1 DEF ThornInv, Guarded
  <2>3. c \in Ids /\ se[c].kind = "thorn" /\ se[c].status = "thorn_active"
    BY <2>2 DEF ActiveThorns
  <2>4. sf[c] = se[c]
    BY <1>1, <2>1, <2>2, <2>3
  <2> QED
    BY <2>2, <2>3, <2>4 DEF Guarded, ActiveThorns
<1>3. ASSUME NEW c \in ActiveThorns(sf)
      PROVE  CellSound(sf, c)
  <2>1. c \in Ids /\ sf[c].kind = "thorn" /\ sf[c].status = "thorn_active"
    BY DEF ActiveThorns
  <2>2. se[c].kind = "thorn"
    BY <1>1, <2>1 DEF Frame
  <2>3. sf[c] = se[c] /\ c \in ActiveThorns(se) /\ se[c].target \notin T
    BY <1>1, <2>1, <2>2 DEF ActiveThorns
  <2>4. CellSound(se, c)
    BY <2>3 DEF ThornInv
  <2>5. se[c].target \in Ids /\ se[c].target \notin ActiveThorns(se)
    BY <2>4 DEF CellSound, ActiveThorns
  <2>6. sf[se[c].target] = se[se[c].target]
    BY <1>1, <2>3, <2>5
  <2> QED
    BY <2>3, <2>4, <2>6 DEF CellSound
<1> QED
  BY <1>2, <1>3 DEF ThornInv, sf

-----------------------------------------------------------------------------
(* The whole of it: what holds of the two tables between any two steps.    *)

TablesOK(se, te) ==
    RowsOK(se) /\ LedgersOK(te) /\ BudgetInv(se, te) /\ Done(se) /\ ThornInv(se)

(* A step of frames and its effect on quarantine.                          *)
LEMMA QuietStep ==
    ASSUME NEW se, NEW te, NEW sf, NEW tf, TablesOK(se, te), RowsOK(sf), LedgersOK(tf),
           ThornInv(sf),
           \A s \in Ids : Frame(se[s], sf[s]) /\ (sf[s].terminated => se[s].terminated),
           \A s \in Ids : LedgerFrame(te[s], tf[s])
    PROVE  TablesOK(sf, tf)
BY FrameKeepsBudget DEF TablesOK

(* A ledger that did not change is in its frame, and so is one that usage  *)
(* was booked into.                                                        *)
LEMMA BookedFrame ==
    ASSUME NEW t, NEW n, n = t \/ Booked(t, n)
    PROVE  LedgerFrame(t, n)
BY DEF Booked, LedgerFrame

(* Booking usage in one ledger keeps all of them balanced and within their *)
(* frames.                                                                 *)
LEMMA BookKeepsLedgers ==
    ASSUME NEW te, LedgersOK(te), NEW s \in Ids, NEW t, Booked(te[s], t)
    PROVE  /\ LedgersOK([te EXCEPT ![s] = t])
           /\ \A q \in Ids : LedgerFrame(te[q], [te EXCEPT ![s] = t][q])
<1>1. t \in Telemetry /\ Balanced(t)
  BY DEF Booked
<1>2. LedgersOK([te EXCEPT ![s] = t])
  BY <1>1, SetLedger
<1>3. ASSUME NEW q \in Ids
      PROVE  [te EXCEPT ![s] = t][q] = te[q] \/ (q = s /\ [te EXCEPT ![s] = t][q] = t)
  BY DEF LedgersOK
<1>4. LedgerFrame(te[s], t)
  BY BookedFrame
<1> QED
  BY <1>2, <1>3, <1>4, BookedFrame

(* One row and its ledger change within their frames.                      *)
LEMMA RowStep ==
    ASSUME NEW se, NEW te, TablesOK(se, te), NEW s \in Ids,
           NEW r \in Session, Frame(se[s], r), ThornFrame(se[s], r),
           r.terminated => se[s].terminated,
           NEW tf, LedgersOK(tf), \A q \in Ids : LedgerFrame(te[q], tf[q])
    PROVE  TablesOK([se EXCEPT ![s] = r], tf)
<1> DEFINE sf == [se EXCEPT ![s] = r]
<1>1. RowsOK(sf)
  BY SetRow DEF TablesOK
<1>2. \A c \in Ids : sf[c] = IF c = s THEN r ELSE se[c]
  BY DEF TablesOK, RowsOK
<1> HIDE DEF sf
<1>3. \A c \in Ids : Frame(se[c], sf[c]) /\ (sf[c].terminated => se[c].terminated)
  BY <1>2 DEF Frame
<1>4. \A c \in Ids : ThornFrame(se[c], sf[c])
  BY <1>2 DEF ThornFrame
<1>5. ThornInv(sf)
  BY <1>4, FrameKeepsThorn DEF TablesOK
<1> QED
  BY <1>1, <1>3, <1>5, QuietStep DEF sf
=============================================================================
