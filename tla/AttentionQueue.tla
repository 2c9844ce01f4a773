--------------------------- MODULE AttentionQueue ---------------------------
(***************************************************************************)
(* The attention queue of core/layer0/ops/src/attention_queue.rs: events   *)
(* scored by importance, one file of rows kept in descending score, and    *)
(* one file of positional cursors, one per consumer.                       *)
(*                                                                         *)
(* Every command is a process of its own that reads the files, computes    *)
(* and writes; here the commands run one after the other, and a crash may  *)
(* fall between the two writes of `compact`.  Scores are in thousandths,   *)
(* times are kept as the time left.  Index 1 is the code's index 0, so a   *)
(* cursor offset is the number of rows before it in both.                  *)
(***************************************************************************)
EXTENDS Naturals, Sequences, FiniteSets, FiniteSetsExt, Subsequences

CONSTANTS
    Keys,            \* attention keys
    Kinds,           \* kinds of event, told apart by the two functions below
    Severity,        \* "critical", "warn" or "info", for each kind
    Score,           \* the score an event of each kind enters with
    Noisy,           \* the kinds whose source reads like a log or an audit trail
    Consumers,
    Limits,          \* values of --limit
    MaxQueueDepth,   \* max_queue_depth
    DropBelow,       \* backpressure_drop_below
    Ttl,             \* ttl_hours
    DedupeWindow,    \* dedupe_window_hours
    Retains,         \* values of compact's --retain
    MinAckeds,       \* values of compact's --min-acked
    Crashes,         \* may compact die between its two writes
    MaxEvents        \* bound: events admitted in one behaviour

(* The highest score, 1.0 in thousandths.                                  *)
MaxScore == 1000

ASSUME AttentionAssumption ==
    /\ Severity \in [Kinds -> {"critical", "warn", "info"}]
    /\ Score \in [Kinds -> 0 .. MaxScore]
    /\ \A k \in Kinds : Severity[k] = "critical" => Score[k] >= 850   \* its core_floor
    /\ Noisy \subseteq Kinds
    /\ Limits \subseteq Nat \ {0}
    /\ MaxQueueDepth \in Nat \ {0} /\ MaxEvents \in Nat
    /\ DropBelow \in {"critical", "warn", "info"}
    /\ Ttl \in Nat \ {0} /\ DedupeWindow \in Nat
    /\ Retains \subseteq Nat /\ MinAckeds \subseteq Nat
    /\ Crashes \in BOOLEAN

VARIABLES
    queue,      \* queue.jsonl
    offset,     \* cursor_state.json: the offset of each consumer ...
    known,      \* ... that has an entry there
    batch,      \* the cursor tokens, <<index, event>>, a consumer was given
    delivered,  \* history: the events each consumer was given
    nextId      \* history: no two events have the same receipt hash

vars == <<queue, offset, known, batch, delivered, nextId>>

Row == [id : 1 .. MaxEvents, key : Keys, kind : Kinds, score : 0 .. MaxScore, left : 0 .. Ttl]

TypeOK ==
    /\ queue \in Seq(Row)
    /\ offset \in [Consumers -> Nat]
    /\ known \subseteq Consumers
    /\ batch \in [Consumers -> SUBSET (Nat \X (1 .. MaxEvents))]
    /\ delivered \in [Consumers -> SUBSET (1 .. MaxEvents)]
    /\ nextId \in 1 .. MaxEvents + 1

Init ==
    /\ queue = <<>>
    /\ offset = [c \in Consumers |-> 0] /\ known = {}
    /\ batch = [c \in Consumers |-> {}]
    /\ delivered = [c \in Consumers |-> {}]
    /\ nextId = 1

Least(a, b) == Min({a, b})

-----------------------------------------------------------------------------
(* Importance.                                                             *)

SeverityRank(s) == CASE s = "critical" -> 3 [] s = "warn" -> 2 [] OTHER -> 1

BandRank(score) == 1 + Cardinality({bar \in {400, 700, 850, 950} : score >= bar})

(* classify_attention_lane, when the summary names no failure.             *)
Lane(kind) ==
    IF Severity[kind] # "info" \/ BandRank(Score[kind]) >= 4 THEN "critical"
    ELSE IF kind \in Noisy \/ BandRank(Score[kind]) <= 2 THEN "background"
    ELSE "standard"

(* What backpressure may refuse.                                           *)
Droppable(kind) ==
    \/ Lane(kind) = "background"
    \/ /\ SeverityRank(Severity[kind]) < SeverityRank(DropBelow)
       /\ BandRank(Score[kind]) < 3

(* prioritize_attention_json scores every row again.  A row in the file    *)
(* has lost its metrics to the previous scoring, so only 0.8 of the        *)
(* inherited score is left.  The order of the rows does not change.        *)
Rescored(q) == [i \in DOMAIN q |-> [q[i] EXCEPT !.score = (4 * @) \div 5]]

(* The stable sort by descending score, of rows already in order and one   *)
(* new row at their end, which is scored with its metrics.                 *)
Insert_Append(q, r) == Append(q, r)

Insert(q, r) ==
    LET before == {i \in DOMAIN q : q[i].score >= r.score}
    IN  Picked(q, before) \o <<r>> \o Picked(q, DOMAIN q \ before)

-----------------------------------------------------------------------------
(* prune_expired, and load_active_queue: the file is written only if       *)
(* something expired.                                                      *)
Pruned == Picked(queue, {i \in DOMAIN queue : queue[i].left > 0})
ActiveQueue == IF Len(Pruned) < Len(queue) THEN Rescored(Pruned) ELSE queue

DedupeHit_Strict(q, key) ==
    \E i \in DOMAIN q : q[i].key = key /\ Ttl - q[i].left < DedupeWindow

DedupeHit(q, key) ==
    \E i \in DOMAIN q : q[i].key = key /\ Ttl - q[i].left <= DedupeWindow

Backpressure_OffByOne(kind) == Len(Pruned) > MaxQueueDepth /\ Droppable(kind)

Backpressure(kind) == Len(Pruned) >= MaxQueueDepth /\ Droppable(kind)

(* enqueue, of an event stamped now; `id` stands for its receipt hash.  An *)
(* event that is deduplicated or dropped leaves the file alone.            *)
Enqueue(key, kind) ==
    /\ nextId <= MaxEvents
    /\ ~DedupeHit(Pruned, key)
    /\ ~Backpressure(kind)
    /\ queue' = Insert(Rescored(Pruned),
                       [id |-> nextId, key |-> key, kind |-> kind,
                        score |-> Score[kind], left |-> Ttl])
    /\ nextId' = nextId + 1
    /\ UNCHANGED <<offset, known, batch, delivered>>

(* The rows `next` and `drain` return.                                     *)
From(c) == Least(offset[c], Len(ActiveQueue))
To(c, limit) == Least(Len(ActiveQueue), From(c) + limit)

Give(c, limit) ==
    LET span == From(c) + 1 .. To(c, limit)
    IN  /\ batch' = [batch EXCEPT ![c] = @ \cup {<<i, ActiveQueue[i].id>> : i \in span}]
        /\ delivered' = [delivered EXCEPT ![c] = @ \cup {ActiveQueue[i].id : i \in span}]

NextBatch(c, limit) ==
    /\ Give(c, limit)
    /\ queue' = ActiveQueue
    /\ UNCHANGED <<offset, known, nextId>>

Drain(c, limit) ==
    /\ From(c) < To(c, limit)
    /\ Give(c, limit)
    /\ queue' = ActiveQueue
    /\ offset' = [offset EXCEPT ![c] = To(c, limit)]
    /\ known' = known \cup {c}
    /\ UNCHANGED nextId

(* ack with the token of row i.                                            *)
Ack_AnyToken(c, i, id) ==
    /\ i \in DOMAIN ActiveQueue
    /\ i >= From(c)
    /\ queue' = ActiveQueue
    /\ offset' = [offset EXCEPT ![c] = i]
    /\ known' = known \cup {c}
    /\ UNCHANGED <<batch, delivered, nextId>>

Ack_Backwards(c, i, id) ==
    /\ i \in DOMAIN ActiveQueue
    /\ ActiveQueue[i].id = id
    /\ queue' = ActiveQueue
    /\ offset' = [offset EXCEPT ![c] = i]
    /\ known' = known \cup {c}
    /\ UNCHANGED <<batch, delivered, nextId>>

Ack(c, i, id) ==
    /\ i \in DOMAIN ActiveQueue
    /\ i >= From(c)
    /\ ActiveQueue[i].id = id
    /\ queue' = ActiveQueue
    /\ offset' = [offset EXCEPT ![c] = i]
    /\ known' = known \cup {c}
    /\ UNCHANGED <<batch, delivered, nextId>>

(* status, a refused ack, a drain of nothing.                              *)
Status ==
    /\ queue' = ActiveQueue
    /\ UNCHANGED <<offset, known, batch, delivered, nextId>>

-----------------------------------------------------------------------------
(* compact: the rows every known consumer is past, less the ones retained. *)
MinOffset ==
    IF known = {} THEN 0 ELSE Min({From(c) : c \in known})

CompactCount(retain, minAcked) ==
    IF MinOffset >= minAcked /\ MinOffset > retain THEN MinOffset - retain ELSE 0

Kept(n) == SubSeq(Rescored(Pruned), n + 1, Len(Pruned))

Rebased_Dropped(c, n) == From(c)

Rebased(c, n) == From(c) - n

Compact(retain, minAcked) ==
    LET n == CompactCount(retain, minAcked)
    IN  /\ n > 0
        /\ queue' = Kept(n)
        /\ offset' = [c \in Consumers |-> IF c \in known THEN Rebased(c, n) ELSE offset[c]]
        /\ UNCHANGED <<known, batch, delivered, nextId>>

(* The process dies after write_jsonl and before persist_cursor_state.     *)
CompactCrash(retain, minAcked) ==
    LET n == CompactCount(retain, minAcked)
    IN  /\ Crashes /\ n > 0
        /\ queue' = Kept(n)
        /\ UNCHANGED <<offset, known, batch, delivered, nextId>>

Elapse ==
    /\ queue' = [i \in DOMAIN queue |->
                   [queue[i] EXCEPT !.left = IF @ = 0 THEN 0 ELSE @ - 1]]
    /\ UNCHANGED <<offset, known, batch, delivered, nextId>>

Next ==
    \/ \E key \in Keys, kind \in Kinds : Enqueue(key, kind)
    \/ \E c \in Consumers, limit \in Limits : NextBatch(c, limit) \/ Drain(c, limit)
    \/ \E c \in Consumers : \E t \in batch[c] : Ack(c, t[1], t[2])
    \/ \E retain \in Retains, minAcked \in MinAckeds :
          Compact(retain, minAcked) \/ CompactCrash(retain, minAcked)
    \/ Status
    \/ Elapse

Spec == Init /\ [][Next]_vars

-----------------------------------------------------------------------------
(* Properties.                                                             *)

(* The file stays in descending score although every command that writes   *)
(* it scores the old rows again and lower: what `next` serves first is     *)
(* what the scores say is most important.                                  *)
QueueSorted == \A i, j \in DOMAIN queue : i < j => queue[i].score >= queue[j].score

(* The depth limit is soft, but only events backpressure may not refuse    *)
(* go past it: of the droppable ones the queue never holds more than       *)
(* max_queue_depth, whatever expires, is drained or compacted.             *)
DroppableWithinCap ==
    Cardinality({i \in DOMAIN queue : Droppable(queue[i].kind)}) <= MaxQueueDepth

(* Two unexpired rows with one attention key were queued more than a       *)
(* dedupe window apart (dedupe_hit).                                       *)
DedupeHolds ==
    \A i, j \in DOMAIN queue :
        /\ queue[i].key = queue[j].key /\ queue[i].id < queue[j].id
        /\ queue[i].left > 0
        => queue[j].left - queue[i].left > DedupeWindow

(* The row a cursor comes to rest on is one its consumer was given: a      *)
(* token names the event and its index, so an ack that was overtaken by an *)
(* enqueue, an expiry or a compaction is refused instead of landing on     *)
(* another row.  (Rows in between may be new: see PrefixWasDelivered.)     *)
AckNamesDelivered ==
    [][\A c \in Consumers : offset'[c] > offset[c] =>
          offset'[c] \in DOMAIN queue' /\ queue'[offset'[c]].id \in delivered'[c]]_vars

(* A cursor never goes back over rows that are still there: only a shorter *)
(* queue lowers an offset.                                                 *)
CursorNeverRewinds ==
    [][\A c \in Consumers : offset'[c] < offset[c] =>
          Len(queue') < Len(queue) \/ offset[c] > Len(queue)]_vars

(* "trims acknowledged prefix safely, rebases consumer offsets": compact   *)
(* leaves every registered consumer in front of the same unexpired rows.   *)
(* If it dies between its two writes the offsets are too far, but the rows *)
(* a consumer had not reached are still in the file, at its end.           *)
IdsFrom(q, n) == [i \in 1 .. Len(q) - n |-> q[n + i].id]
CompactKeepsUnread ==
    [][\A retain \in Retains, minAcked \in MinAckeds, c \in known :
          /\ Compact(retain, minAcked) =>
                IdsFrom(queue', offset'[c]) = IdsFrom(Pruned, From(c))
          /\ CompactCrash(retain, minAcked) =>
                \E k \in 0 .. From(c) : IdsFrom(queue', k) = IdsFrom(Pruned, From(c))]_vars

(* V6-DASHBOARD-007.1, "Critical telemetry must not be blocked behind      *)
(* routine backlog items": a critical event goes in before every info      *)
(* event of the backlog.  It need not stay there: each write takes a fifth *)
(* off the scores of the rows already in the file, until a fresh info      *)
(* event overtakes it.                                                     *)
FreshCriticalFirst ==
    [][\A i, j \in DOMAIN queue' :
          /\ queue'[i].id = nextId /\ Severity[queue'[i].kind] = "critical"
          /\ Severity[queue'[j].kind] = "info"
          => i < j]_vars

(* V6-COCKPIT-006 and V6-DASHBOARD-007.8: rows before a cursor are         *)
(* acknowledged.  Not what the code does: a new row is inserted by score,  *)
(* often before the cursors, which are positions and do not move.          *)
PrefixWasDelivered ==
    \A c \in known : \A i \in DOMAIN queue :
        i <= offset[c] => queue[i].id \in delivered[c]
=============================================================================
