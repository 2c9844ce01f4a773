--------------------------- MODULE SwarmSessions ---------------------------
(***************************************************************************)
(* The session table of the swarm runtime,                                 *)
(* core/layer0/ops/src/swarm_runtime.rs: spawning, persistent check-ins,   *)
(* termination, thorn quarantine, T0 shutdown, and the hierarchical token  *)
(* budget that all of them book into.                                      *)
(*                                                                         *)
(* One `swarm-runtime` invocation is a forced sequence of steps named by   *)
(* `pc`: reload and drain (Begin...), an automatic tick over the           *)
(* persistent sessions one session at a time (TickStep), then exactly one  *)
(* command.  Invocations run one after the other.                          *)
(*                                                                         *)
(* Deadlines are kept as the time left to them, so a reading of 0 is       *)
(* "deadline <= now" and the clock needs no bound.                         *)
(***************************************************************************)
EXTENDS SwarmBudget, FiniteSetsExt

CONSTANTS
    None,             \* Option::None where an identifier is expected
    Budgets,          \* values of --token-budget
    Actions,          \* values of --on-budget-exhausted
    ContextTokens,    \* sizes of a context update, in tokens
    Lifespans,        \* values of --lifespan-sec
    CheckInInterval,  \* --check-in-interval-sec
    Advances,         \* values of tick's --advance-ms
    ThornTtl,         \* the 60 s of a thorn cell
    ThornShare,       \* one thorn cell for each ThornShare sessions (10 in the code)
    MaxDepth,         \* --max-depth
    Roles,            \* is a --role given to a spawn
    Probes,           \* values of --verify and --simulate-unreachable, as pairs
    Modes,            \* persistent execution modes: "persistent", "background"
    Commands          \* the commands the environment issues

ASSUME SessionsAssumption ==
    /\ IsFiniteSet(Ids) /\ None \notin Ids
    /\ Budgets \subseteq Nat \ {0}
    /\ Actions \subseteq BudgetAction
    /\ ContextTokens \subseteq Nat \ {0}
    /\ Lifespans \subseteq Nat \ {0}
    /\ CheckInInterval \in Nat \ {0}
    /\ Advances \subseteq Nat
    /\ ThornTtl \in Nat \ {0}
    /\ ThornShare \in Nat \ {0}
    /\ MaxDepth \in Nat \ {0}
    /\ Roles \subseteq BOOLEAN
    /\ Probes \subseteq BOOLEAN \X BOOLEAN
    /\ Modes \subseteq {"persistent", "background"}

VARIABLES
    sess,   \* state.sessions: one row per identifier
    tele,   \* the budget_telemetry of each row
    pc,     \* where the current invocation is
    todo,   \* the sessions the current tick has still to visit
    adv     \* how far ahead of the clock the current tick looks

vars == <<sess, tele, pc, todo, adv>>

NoBudget == 0   \* a spawn without --token-budget

(* "absent": the identifier has not been issued.  "lost": it was issued    *)
(* to a spawn that failed before its row was inserted.                     *)
NoRow == {"absent", "lost"}
Persistent == {"persistent_running", "background_running"}
Running == Persistent \cup {"running"}
Stopped == {"completed", "terminated", "terminated_graceful"}
Status == NoRow \cup Running \cup Stopped \cup
    {"failed", "quarantined_thorn", "thorn_active", "thorn_destroyed", "shutdown_t0"}
Kinds == {"task", "persistent", "background", "thorn"}

(* `up` and `kids` are parent_id and children, `parent`, `res` and         *)
(* `settled` the budget_parent/reservation fields, `terminated` is         *)
(* terminated_at_ms.is_some(), `prev` is quarantine_previous_status        *)
(* ("absent" for None), `service` the row of the service registry.         *)
Session ==
    [status : Status, kind : Kinds, reachable : BOOLEAN, terminated : BOOLEAN,
     depth : Nat, up : Ids \cup {None}, kids : SUBSET Ids,
     parent : Ids \cup {None}, res : Nat, settled : BOOLEAN,
     lifespan : Nat, checkIn : Nat, prev : Status, ttl : Nat,
     target : Ids \cup {None}, service : {"none", "healthy", "unhealthy"}]

AbsentRow ==
    [status |-> "absent", kind |-> "task", reachable |-> FALSE, terminated |-> FALSE,
     depth |-> 0, up |-> None, kids |-> {}, parent |-> None, res |-> 0,
     settled |-> FALSE, lifespan |-> 0, checkIn |-> 0, prev |-> "absent",
     ttl |-> 0, target |-> None, service |-> "none"]

TypeOK ==
    /\ sess \in [Ids -> Session]
    /\ tele \in [Ids -> Telemetry]
    /\ pc \in {"idle", "autotick", "tick", "command", "thorn"}
    /\ todo \subseteq Ids
    /\ adv \in Nat

Init ==
    /\ sess = [s \in Ids |-> AbsentRow]
    /\ tele = [s \in Ids |-> NoTelemetry]
    /\ pc = "idle" /\ todo = {} /\ adv = 0

Rows(se) == {s \in Ids : se[s].status \notin NoRow}
IsPersistent(r) == r.kind \in {"persistent", "background"}
PersistentIds(se) == {s \in Ids : IsPersistent(se[s]) /\ se[s].status \in Persistent}
SetHealth(r, h) == IF r.service = "none" THEN "none" ELSE h

-----------------------------------------------------------------------------
(* The ledger operations that touch two sessions.                          *)

(* What a spawn under `p` with the budget flag `b` is granted: an          *)
(* unbudgeted parent grants the request and reserves nothing.              *)
BudgetParent(p) == IF p # None /\ tele[p].has THEN p ELSE None

ReserveGranted_AnyAmount(p, b) == BudgetParent(p) # None => RemainingTokens(tele[p]) > 0

ReserveGranted(p, b) ==
    BudgetParent(p) # None =>
        RemainingTokens(tele[p]) > 0 /\ b <= RemainingTokens(tele[p])

Granted(p, b) ==
    IF BudgetParent(p) # None /\ b = NoBudget THEN RemainingTokens(tele[p]) ELSE b

ReserveBudgetFromParent(te, s, p, tokens) ==
    IF BudgetParent(p) = None THEN te
    ELSE [te EXCEPT ![p] = HoldFor(@, s, tokens)]

Unsettled(r) == ~r.settled /\ r.res # 0 /\ r.parent # None

SettleBudgetReservation_NoFlag(se, te, s) ==
    IF ~Unsettled(se[s]) THEN <<se, te>>
    ELSE <<se, [te EXCEPT ![se[s].parent] = SettleInto(@, s, se[s].res, te[s].used)]>>

(* settle_budget_reservation: the pair of new session and ledger tables.   *)
SettleBudgetReservation(se, te, s) ==
    IF ~Unsettled(se[s]) THEN <<se, te>>
    ELSE <<[se EXCEPT ![s].settled = TRUE],
           [te EXCEPT ![se[s].parent] = SettleInto(@, s, se[s].res, te[s].used)]>>

FreshLedger(b, a) == IF b = NoBudget THEN NoTelemetry ELSE NewTelemetry(b, a)

-----------------------------------------------------------------------------
(* The start of an invocation.                                             *)

(* recover_persistent_sessions_after_reload; raising an overdue check-in   *)
(* to "now" changes nothing when the time left is kept.                    *)
RecoverPersistent(se) ==
    [s \in Ids |->
        IF IsPersistent(se[s]) /\ ~se[s].terminated /\ se[s].status \in Running
        THEN [se[s] EXCEPT !.reachable = TRUE] ELSE se[s]]

ActiveThorns(se) == {c \in Ids : se[c].kind = "thorn" /\ se[c].status = "thorn_active"}

(* release_thorn_cells_for_target, for all the targets in T: their active  *)
(* cells self-destruct and restore_quarantined_target puts them back.      *)
ReleaseThornCells_NoRestore(se, T) ==
    [s \in Ids |->
        IF s \in ActiveThorns(se) /\ se[s].target \in T
        THEN [se[s] EXCEPT !.status = "thorn_destroyed", !.reachable = FALSE, !.ttl = 0]
        ELSE se[s]]

ReleaseThornCells(se, T) ==
    [s \in Ids |->
        CASE s \in ActiveThorns(se) /\ se[s].target \in T ->
               [se[s] EXCEPT !.status = "thorn_destroyed", !.reachable = FALSE,
                             !.ttl = 0, !.service = SetHealth(se[s], "unhealthy")]
          [] s \in T /\ s \notin ActiveThorns(se) ->
               [se[s] EXCEPT !.status = IF se[s].prev = "absent" THEN "running" ELSE se[s].prev,
                             !.reachable = TRUE, !.prev = "absent",
                             !.service = SetHealth(se[s], "healthy")]
          [] OTHER -> se[s]]

DrainExpiredThornCells_Nothing(se) == se

DrainExpiredThornCells(se) ==
    ReleaseThornCells(se, {se[c].target : c \in {d \in ActiveThorns(se) : se[d].ttl = 0}})

(* run(): reload, drains, then the automatic tick unless --auto-tick=0.    *)
BeginRun(auto) ==
    /\ pc = "idle"
    /\ sess' = DrainExpiredThornCells(RecoverPersistent(sess))
    /\ todo' = IF auto THEN PersistentIds(sess') ELSE {}
    /\ pc' = IF todo' = {} THEN "command" ELSE "autotick"
    /\ adv' = 0
    /\ UNCHANGED tele

(* The `tick` command: no automatic tick before it.                        *)
BeginTick(d) ==
    /\ pc = "idle" /\ "tick" \in Commands
    /\ sess' = DrainExpiredThornCells(RecoverPersistent(sess))
    /\ todo' = PersistentIds(sess')
    /\ pc' = IF todo' = {} THEN "idle" ELSE "tick"
    /\ adv' = IF todo' = {} THEN 0 ELSE d
    /\ UNCHANGED tele

(* run_thorn_contract, the entry the security plane uses: it drains but    *)
(* neither recovers nor ticks.                                             *)
BeginThorn ==
    /\ pc = "idle" /\ "thorn" \in Commands
    /\ sess' = DrainExpiredThornCells(sess)
    /\ pc' = "thorn"
    /\ UNCHANGED <<tele, todo, adv>>

-----------------------------------------------------------------------------
(* tick_persistent_sessions.  The sessions are visited in the order of     *)
(* their identifiers, which are hashes: any order.  One visit makes at    *)
(* most one check-in: it moves the next one past the tick's clock, and a   *)
(* final one ends the loop.                                                *)

Visiting(s) == pc \in {"autotick", "tick"} /\ s \in todo

EndVisit(rest) ==
    /\ todo' = rest
    /\ pc' = IF rest # {} THEN pc ELSE IF pc = "autotick" THEN "command" ELSE "idle"
    /\ adv' = IF rest # {} THEN adv ELSE 0

Due(r) == r.lifespan <= adv \/ r.checkIn <= adv

TickSkip(s) ==
    /\ Visiting(s) /\ ~Due(sess[s])
    /\ EndVisit(todo \ {s})
    /\ UNCHANGED <<sess, tele>>

(* A denied plan fails the session and its `?` abandons the whole tick.    *)
TickAbort(s) ==
    /\ Visiting(s) /\ Due(sess[s]) /\ PlanDenied(tele[s])
    /\ sess' = [sess EXCEPT ![s].status = "failed"]
    /\ tele' = [tele EXCEPT ![s] = ApplyToolPlan(@)]
    /\ EndVisit({})

TickCheckIn(s) ==
    /\ Visiting(s) /\ Due(sess[s]) /\ sess[s].lifespan > adv /\ ~PlanDenied(tele[s])
    /\ sess' = [sess EXCEPT ![s].checkIn = adv + CheckInInterval]
    /\ tele' = [tele EXCEPT ![s] = ApplyToolPlan(@)]
    /\ EndVisit(todo \ {s})

(* The row of a session that has just ended for good, before settlement.   *)
EndRow(r, st) ==
    [r EXCEPT !.status = st, !.terminated = TRUE, !.service = SetHealth(r, "unhealthy")]

TickFinalize_Unsettled(s) ==
    /\ Visiting(s) /\ sess[s].lifespan <= adv /\ ~PlanDenied(tele[s])
    /\ sess' = [sess EXCEPT ![s] = EndRow(@, "completed")]
    /\ tele' = [tele EXCEPT ![s] = ApplyToolPlan(@)]
    /\ EndVisit(todo \ {s})

TickFinalize(s) ==
    /\ Visiting(s) /\ sess[s].lifespan <= adv /\ ~PlanDenied(tele[s])
    /\ LET end == SettleBudgetReservation(
                     [sess EXCEPT ![s] = EndRow(@, "completed")],
                     [tele EXCEPT ![s] = ApplyToolPlan(@)], s)
       IN  sess' = end[1] /\ tele' = end[2]
    /\ EndVisit(todo \ {s})

-----------------------------------------------------------------------------
(* Commands.  Each ends the invocation.  A command that is refused before  *)
(* it changes anything has the effect of Status.                           *)

Command(c) == pc = "command" /\ c \in Commands
Return == pc' = "idle" /\ UNCHANGED <<todo, adv>>

Status_ ==
    /\ pc \in {"command", "thorn"}
    /\ Return
    /\ UNCHANGED <<sess, tele>>

SpawnDepth_OfParent(p) == IF p = None THEN 0 ELSE sess[p].depth

SpawnDepth(p) == IF p = None THEN 0 ELSE sess[p].depth + 1

(* The checks a spawn under `p` passes before it reserves its budget.      *)
SpawnAllowed(s, p, b) ==
    /\ sess[s].status = "absent"
    /\ p \in Rows(sess) \cup {None}
    /\ SpawnDepth(p) < MaxDepth
    /\ ReserveGranted(p, b)

NewRow_Requested(p, b, role) ==
    [AbsentRow EXCEPT !.reachable = TRUE, !.depth = SpawnDepth(p), !.up = p,
                      !.parent = BudgetParent(p),
                      !.res = IF BudgetParent(p) = None THEN 0 ELSE b,
                      !.service = IF role THEN "healthy" ELSE "none"]

NewRow(p, b, role) ==
    [AbsentRow EXCEPT !.reachable = TRUE, !.depth = SpawnDepth(p), !.up = p,
                      !.parent = BudgetParent(p),
                      !.res = IF BudgetParent(p) = None THEN 0 ELSE Granted(p, b),
                      !.service = IF role THEN "healthy" ELSE "none"]

(* state.sessions.insert(s, row), and the parent's children list.          *)
InsertRow(s, p, row) ==
    [t \in Ids |-> IF t = s THEN row
                   ELSE IF t = p THEN [sess[t] EXCEPT !.kids = @ \cup {s}] ELSE sess[t]]

(* spawn_single.  The session runs its plan at once and settles with its   *)
(* parent at once.  A denied plan leaves a failed row that is settled but  *)
(* neither registered as a service nor listed by its parent.               *)
SpawnSingle(s, p, b, a, role, probe) ==
    /\ Command("spawn")
    /\ SpawnAllowed(s, p, b)
    /\ LET ledger == FreshLedger(Granted(p, b), a)
           held == ReserveBudgetFromParent(tele, s, p, Granted(p, b))
           te == [held EXCEPT ![s] = ApplyToolPlan(ledger)]
           row == [NewRow(p, b, role) EXCEPT
                      !.reachable = ~probe[2],
                      !.status = IF probe[1] /\ probe[2] THEN "failed" ELSE "running"]
           failed == [NewRow(p, b, FALSE) EXCEPT !.reachable = FALSE, !.status = "failed"]
           end == IF PlanDenied(ledger)
                  THEN SettleBudgetReservation([sess EXCEPT ![s] = failed], te, s)
                  ELSE SettleBudgetReservation(InsertRow(s, p, row), te, s)
       IN  sess' = end[1] /\ tele' = end[2]
    /\ Return

(* spawn_persistent_session.  A denied initial check-in returns before     *)
(* the row is inserted, with the parent's reservation already made.        *)
SpawnPersistent(s, p, b, a, role, kind, life) ==
    /\ Command("persistent")
    /\ SpawnAllowed(s, p, b)
    /\ LET ledger == FreshLedger(Granted(p, b), a)
           held == ReserveBudgetFromParent(tele, s, p, Granted(p, b))
           row == [NewRow(p, b, role) EXCEPT
                      !.kind = kind, !.lifespan = life, !.checkIn = CheckInInterval,
                      !.status = IF kind = "background" THEN "background_running"
                                 ELSE "persistent_running"]
       IN  IF PlanDenied(ledger)
           THEN sess' = [sess EXCEPT ![s].status = "lost"] /\ tele' = held
           ELSE /\ sess' = InsertRow(s, p, row)
                /\ tele' = [held EXCEPT ![s] = ApplyToolPlan(ledger)]
    /\ Return

(* sessions_wake                                                           *)
Wake(s) ==
    /\ Command("wake")
    /\ s \in PersistentIds(sess)
    /\ tele' = [tele EXCEPT ![s] = ApplyToolPlan(@)]
    /\ sess' = IF PlanDenied(tele[s])
               THEN [sess EXCEPT ![s].status = "failed"]
               ELSE [sess EXCEPT ![s].checkIn = CheckInInterval]
    /\ Return

(* sessions_terminate: any persistent row, whatever its status.  The final *)
(* check-in of a graceful termination may be denied, and that only fails   *)
(* the session.                                                            *)
Terminate(s, graceful) ==
    /\ Command("terminate")
    /\ s \in Rows(sess) /\ IsPersistent(sess[s])
    /\ LET te == IF graceful THEN [tele EXCEPT ![s] = ApplyToolPlan(@)] ELSE tele
           row == EndRow(sess[s], IF graceful THEN "terminated_graceful" ELSE "terminated")
           end == SettleBudgetReservation([sess EXCEPT ![s] = row], te, s)
       IN  IF graceful /\ PlanDenied(tele[s])
           THEN sess' = [sess EXCEPT ![s].status = "failed"] /\ tele' = te
           ELSE sess' = end[1] /\ tele' = end[2]
    /\ Return

ResumedRow_Always(r) ==
    [r EXCEPT !.reachable = TRUE, !.checkIn = CheckInInterval,
              !.status = IF r.kind = "background" THEN "background_running"
                         ELSE "persistent_running"]

(* sessions_resume                                                         *)
ResumedRow(r) ==
    IF r.terminated THEN [r EXCEPT !.reachable = TRUE]
    ELSE [r EXCEPT !.reachable = TRUE, !.checkIn = CheckInInterval,
                   !.status = IF r.kind = "background" THEN "background_running"
                              ELSE "persistent_running"]

Resume(s) ==
    /\ Command("resume")
    /\ s \in Rows(sess) /\ IsPersistent(sess[s])
    /\ sess' = [sess EXCEPT ![s] = ResumedRow(@)]
    /\ UNCHANGED tele
    /\ Return

(* sessions context-put: apply_context_update books the update as a tool.  *)
ContextPut(s, tokens) ==
    /\ Command("context")
    /\ s \in Rows(sess) /\ tele[s].has
    /\ tele' = [tele EXCEPT ![s] = RecordToolUsage(@, tokens)]
    /\ UNCHANGED sess
    /\ Return

-----------------------------------------------------------------------------
(* Thorn quarantine, from `swarm-runtime thorn` or the security plane.     *)

ThornCellLimit(se) ==
    LET n == Max({1, Cardinality(Rows(se))})
    IN  (n + ThornShare - 1) \div ThornShare

Thorn == pc \in {"command", "thorn"} /\ "thorn" \in Commands

ThornSlotFree_OffByOne == Cardinality(ActiveThorns(sess)) <= ThornCellLimit(sess)

ThornSlotFree == Cardinality(ActiveThorns(sess)) < ThornCellLimit(sess)

(* quarantine_into_thorn: isolate `s` behind the fresh cell `c`.           *)
Quarantine(s, c) ==
    /\ Thorn
    /\ ThornSlotFree
    /\ s \in Rows(sess) /\ sess[s].kind # "thorn"
    /\ sess[s].status # "quarantined_thorn"
    /\ sess[c].status = "absent"
    /\ sess' = [sess EXCEPT
         ![s] = [@ EXCEPT !.reachable = FALSE, !.prev = sess[s].status,
                          !.status = "quarantined_thorn",
                          !.service = SetHealth(sess[s], "unhealthy")],
         ![c] = [AbsentRow EXCEPT !.status = "thorn_active", !.kind = "thorn",
                          !.reachable = TRUE, !.depth = sess[s].depth + 1, !.up = s,
                          !.ttl = ThornTtl, !.target = s, !.service = "healthy"]]
    /\ UNCHANGED tele
    /\ Return

ThornRelease(s) ==
    /\ Thorn
    /\ \E c \in ActiveThorns(sess) : sess[c].target = s
    /\ sess' = ReleaseThornCells(sess, {s})
    /\ UNCHANGED tele
    /\ Return

(* force_shutdown, the T0 invariant kernel's reaction: no prelude.         *)
ForceShutdown ==
    /\ pc = "idle" /\ "shutdown" \in Commands
    /\ sess' = [s \in Ids |->
                  IF s \in Rows(sess)
                  THEN [sess[s] EXCEPT !.reachable = FALSE, !.status = "shutdown_t0",
                                       !.service = SetHealth(sess[s], "unhealthy")]
                  ELSE sess[s]]
    /\ UNCHANGED <<tele, pc, todo, adv>>

(* The clock moves between two invocations.                                *)
Elapse ==
    /\ pc = "idle"
    /\ sess' = [s \in Ids |-> [sess[s] EXCEPT !.lifespan = Monus(@, 1),
                                              !.checkIn = Monus(@, 1), !.ttl = Monus(@, 1)]]
    /\ UNCHANGED <<tele, pc, todo, adv>>

-----------------------------------------------------------------------------
Requests == Budgets \cup {NoBudget}
Parents == Ids \cup {None}

Begin ==
    \/ \E auto \in BOOLEAN : BeginRun(auto)
    \/ \E d \in Advances : BeginTick(d)
    \/ BeginThorn

TickStep ==
    \E s \in Ids : TickSkip(s) \/ TickAbort(s) \/ TickCheckIn(s) \/ TickFinalize(s)

Run ==
    \/ Status_
    \/ \E s \in Ids, p \in Parents, b \in Requests, a \in Actions, role \in Roles,
          probe \in Probes : SpawnSingle(s, p, b, a, role, probe)
    \/ \E s \in Ids, p \in Parents, b \in Requests, a \in Actions, role \in Roles,
          kind \in Modes, life \in Lifespans :
          SpawnPersistent(s, p, b, a, role, kind, life)
    \/ \E s \in Ids : Wake(s) \/ Resume(s) \/ ThornRelease(s)
    \/ \E s \in Ids, graceful \in BOOLEAN : Terminate(s, graceful)
    \/ \E s \in Ids, n \in ContextTokens : ContextPut(s, n)
    \/ \E s, c \in Ids : Quarantine(s, c)

Next == Begin \/ TickStep \/ Run \/ ForceShutdown \/ Elapse

Spec == Init /\ [][Next]_vars

(* Commands keep arriving, each of them finishes, and the clock moves      *)
(* between commands again and again.                                       *)
Fairness ==
    /\ WF_vars(Begin)
    /\ WF_vars(TickStep)
    /\ WF_vars(Run)
    /\ SF_vars(Elapse)

FairSpec == Spec /\ Fairness

-----------------------------------------------------------------------------
(* Properties: the token ledger.                                           *)

(* What a session's ledger says it used is what its own tools booked plus  *)
(* what its settled children booked, and its own tools alone never exceed  *)
(* its budget, under each of the three exhaustion actions                  *)
(* (record_tool_usage, settle_budget_reservation).                         *)
LedgerBalances ==
    \A s \in Ids : tele[s].used = tele[s].own + tele[s].settled /\ tele[s].own <= tele[s].max

(* reserved_for_children is the sum of child_reservations: a settlement    *)
(* gives back exactly what the reservation took, in whatever order         *)
(* children are spawned, fail, finish and are terminated.                  *)
ReservedIsSumOfHolds ==
    \A p \in Ids : tele[p].reserved = SumFunctionOnSet(tele[p].held, Ids)

(* Every entry of child_reservations is backed by a child of that parent   *)
(* that has still to settle exactly that amount (or belongs to a spawn     *)
(* that failed before its row existed), and every unsettled child is in    *)
(* its parent's book: no reservation is freed twice or under another name. *)
HoldsMatchChildren ==
    \A p, c \in Ids :
        /\ tele[p].held[c] # 0 =>
              \/ sess[c].status = "lost"
              \/ sess[c].parent = p /\ Unsettled(sess[c]) /\ sess[c].res = tele[p].held[c]
        /\ sess[c].parent = p /\ Unsettled(sess[c]) => tele[p].held[c] = sess[c].res

(* The only way past a session's budget is the settlement of a persistent  *)
(* child: spawn_single reserves and settles in one command, so no number   *)
(* of task children, however deep, takes a ledger beyond max_tokens.       *)
OverspendNeedsPersistentChild ==
    \A s \in Ids : tele[s].used > tele[s].max =>
        \E c \in Ids : sess[c].parent = s /\ IsPersistent(sess[c]) /\ sess[c].settled

(* A parent is charged for a child in the one step that settles it, for    *)
(* exactly what the child has used by then, and never again: terminating   *)
(* a session twice, or after it completed, charges nothing.                *)
ChargedOnceStep ==
    \A p \in Ids :
        tele'[p].settled = tele[p].settled +
            SumFunctionOnSet([c \in Ids |-> tele'[c].used],
                {c \in Ids : sess'[c].parent = p /\ sess'[c].settled /\ ~sess[c].settled})
ChargedOnce == [][ChargedOnceStep]_vars

(* A persistent session that was terminated or finalized holds nothing in  *)
(* its parent's book any more: the budget is returned even if the session  *)
(* is later quarantined, restored, resumed or shut down.                   *)
TerminatedReturnsBudget ==
    \A p, c \in Ids : sess[c].terminated => tele[p].held[c] = 0

(* V6-SWARM-017/034: a hard budget.  Not what the code does: a parent's    *)
(* own check-ins ignore what it has reserved for a persistent child, and   *)
(* the child's settlement then takes it past max_tokens.                   *)
SessionWithinBudget == \A s \in Ids : tele[s].used <= tele[s].max

-----------------------------------------------------------------------------
(* Properties: lineage and lifecycle.                                      *)

(* A listed child names that parent and sits one level below it, so the    *)
(* lineage the scope checks walk is a forest of bounded depth.             *)
LineageSound ==
    \A p, c \in Ids : c \in sess[p].kids =>
        sess[c].up = p /\ sess[c].depth = sess[p].depth + 1 /\ sess[c].depth < MaxDepth

(* A session stays in quarantine only as long as an active thorn cell      *)
(* guards it, and the cell remembers where to put it back: no interleaving *)
(* of release, expiry, terminate, resume and shutdown strands a session.   *)
QuarantineIsGuarded ==
    /\ \A s \in Ids : sess[s].status = "quarantined_thorn" =>
          \E c \in ActiveThorns(sess) : sess[c].target = s
    /\ \A c \in ActiveThorns(sess) :
          sess[sess[c].target].prev \notin NoRow \cup {"quarantined_thorn"}

(* Active thorn cells never exceed the share of the session table they are *)
(* allowed, although the table they are measured against is also theirs.   *)
ThornCapacity == Cardinality(ActiveThorns(sess)) <= ThornCellLimit(sess)

(* Every quarantine ends: the cell's time to live runs out and the next    *)
(* command of any kind releases it.                                        *)
QuarantineEnds ==
    \A s \in Ids : (sess[s].status = "quarantined_thorn") ~>
                   (sess[s].status # "quarantined_thorn")

(* V6-SWARM-021, "governed start/status/stop": a session that was stopped  *)
(* runs again only out of quarantine, by the release or expiry of a cell   *)
(* that still remembers its status from before; neither resume nor restart *)
(* recovery nor the tick brings it back.                                   *)
RevivalNeedsCell ==
    [][\A s \in Ids :
          /\ sess[s].terminated /\ sess[s].status \notin Running
          /\ sess'[s].status \in Running
          => \E c \in ActiveThorns(sess) : sess[c].target = s]_vars
=============================================================================
