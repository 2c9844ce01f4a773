---------------------------- MODULE SwarmBudget ----------------------------
(***************************************************************************)
(* The token ledger of one swarm session: `BudgetTelemetry` of             *)
(* core/layer0/ops/src/swarm_runtime.rs and the operations on it.  The     *)
(* module has no state of its own; SwarmSessions keeps one ledger per      *)
(* session.                                                                *)
(*                                                                         *)
(* Token amounts are small naturals.  The real tool plan is a read of      *)
(* 120..220 tokens followed by a generation whose size depends on the      *)
(* bucket the budget falls in; two buckets are enough to tell the cases    *)
(* apart.  The warning, exhausted and compaction flags of the telemetry    *)
(* are outputs only and are left out.                                      *)
(***************************************************************************)
EXTENDS Naturals

CONSTANTS
    Ids,             \* session identifiers: a child is named in its parent's book
    ReadTokens,      \* what the "read" tool of a plan asks for
    GenerateSmall,   \* what "generate" asks for under a small budget ...
    GenerateLarge,   \* ... and under a large one
    SmallBudget      \* the largest budget that counts as small

ASSUME TokensAssumption ==
    /\ ReadTokens \in Nat \ {0}
    /\ GenerateSmall \in Nat \ {0}
    /\ GenerateLarge \in Nat \ {0}
    /\ SmallBudget \in Nat

(* BudgetAction: what happens to a request that does not fit.              *)
BudgetAction == {"fail", "warn", "compact"}

(* `held[c]` is child_reservations[c], 0 where the map has no entry (a     *)
(* reservation is never empty: the flag parser drops a budget of 0 and     *)
(* an exhausted parent refuses).  `own` is the part of tool_breakdown      *)
(* booked by the session's own tools, `settled` is settled_child_tokens.   *)
Telemetry ==
    [has : BOOLEAN, max : Nat, action : BudgetAction, used : Nat, own : Nat,
     settled : Nat, reserved : Nat, held : [Ids -> Nat]]

(* A session spawned without a budget has no telemetry at all.             *)
NoTelemetry ==
    [has |-> FALSE, max |-> 0, action |-> "fail", used |-> 0, own |-> 0,
     settled |-> 0, reserved |-> 0, held |-> [c \in Ids |-> 0]]

NewTelemetry(max, action) ==
    [NoTelemetry EXCEPT !.has = TRUE, !.max = max, !.action = action]

(* u32::saturating_sub                                                     *)
Monus_Plain(a, b) == a - b

Monus(a, b) == IF a > b THEN a - b ELSE 0

RemainingTokens(t) == Monus(t.max, t.used + t.reserved)

(* ((requested_tokens as f32) * 0.4).ceil()                                *)
Compacted(req) == (2 * req + 4) \div 5

PushUsage(t, tokens) == [t EXCEPT !.used = @ + tokens, !.own = @ + tokens]

(* BudgetUsageOutcome::ExceededDenied                                      *)
Denied(t, req) == t.used + req > t.max /\ t.action = "fail"

(* The tokens record_tool_usage books for a request it does not deny.      *)
Applied_Unclamped(t, req) ==
    IF t.used + req <= t.max THEN req
    ELSE IF t.action = "warn" THEN Monus(t.max, t.used) ELSE Compacted(req)

Applied(t, req) ==
    LET left == Monus(t.max, t.used)
    IN  IF t.used + req <= t.max THEN req
        ELSE IF t.action = "warn" THEN left
        ELSE IF Compacted(req) < left THEN Compacted(req) ELSE left

RecordToolUsage(t, req) ==
    IF Denied(t, req) THEN t ELSE PushUsage(t, Applied(t, req))

(* estimate_tool_plan: <<read, generate>>                                  *)
GenerateTokens(max) == IF max <= SmallBudget THEN GenerateSmall ELSE GenerateLarge

(* apply_tool_plan_for_session: the tools in order, up to the first one    *)
(* that is denied.  Without telemetry nothing is booked or refused.        *)
PlanDenied(t) ==
    /\ t.has
    /\ \/ Denied(t, ReadTokens)
       \/ Denied(RecordToolUsage(t, ReadTokens), GenerateTokens(t.max))

ApplyToolPlan(t) ==
    IF ~t.has \/ Denied(t, ReadTokens) THEN t
    ELSE RecordToolUsage(RecordToolUsage(t, ReadTokens), GenerateTokens(t.max))

(* The parent's half of reserve_budget_from_parent and of                  *)
(* settle_budget_reservation.                                              *)
HoldFor(t, child, tokens) ==
    [t EXCEPT !.reserved = @ + tokens, !.held[child] = tokens]

SettleInto_KeepsHold(t, child, tokens, usage) ==
    [t EXCEPT !.reserved = Monus(@, tokens), !.settled = @ + usage, !.used = @ + usage]

SettleInto(t, child, tokens, usage) ==
    [t EXCEPT !.reserved = Monus(@, tokens), !.held[child] = 0,
              !.settled = @ + usage, !.used = @ + usage]
=============================================================================
