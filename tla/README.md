# A TLA+ model of the Protheus core: swarm runtime, queues, stores and orchestration

Protheus is an operating layer for agents. Its authority sits in Rust crates
under `core/`; the TypeScript client calls them as command-line programs, one
process per operation. This directory specifies the stateful parts of layer 0
that decide what an agent swarm may do, what its operator gets to see, and what
its files keep when processes overlap, fail or die:

- the **swarm runtime** (`core/layer0/ops/src/swarm_runtime.rs`);
- the **attention queue** (`attention_queue.rs`, with the scoring of
  `importance.rs` and `core/layer2/execution/src/initiative.rs`);
- the **adaptive layer store** (`adaptive_layer_store_kernel.rs`), the JSON
  store of the memory runtime;
- the **spawn broker** (`spawn_broker.rs`), leases on a pool of cells;
- **orchestration** (`orchestration.rs`): task groups, completion and
  scratchpads of multi-agent tasks.

TLC checks the specifications on small instances; TLAPS proves, for every
instance, nearly all of the safety properties that TLC checks on the small ones
(section 4).

## 1. The system

| Component | State | Operations | What is hard |
|---|---|---|---|
| Token budget ledger (`BudgetTelemetry`) | used, reserved, one reservation per child, settled usage | reserve, record usage (fail / warn / compact), settle | two ledgers per operation; several exits between reserve and settle |
| Session table | one row per session: status, lineage, deadline, next check-in, reservation, service health | spawn (task, persistent, background, recursive), tick, wake, terminate, resume, context-put, recovery after reload | `?` returns in the middle of an operation, and the state is saved anyway |
| Thorn quarantine | cell rows with a target and an expiry; the target's previous status | quarantine, release, expiry; T0 shutdown | undo data that goes stale while other commands run |
| Messaging | mailboxes, dead letters, exactly-once index | send, receive, ack, expire, retry | limits, expiry, retry of what was already done |
| Attention queue | queue file, cursor file, receipts | enqueue, next, drain, ack, compact, status | positions into a file that is reordered, pruned and trimmed |
| Importance / initiative | none | score an event, order the queue | stored rows are scored again |
| Swarm state file | one JSON file | load, save | no lock, no atomic rename |
| Adaptive layer store | a JSON document and a lock file per path; mutation log, pointer rows, pointer index for all paths | read, ensure, set (compare and set), delete | lock files of dead processes, failures half way, an index shared without a lock |
| Spawn broker | one file of leases | status, request, release, prune | whole-file saves from old copies; saves that fail unnoticed; a hardware plan that changes |
| Orchestration | a task-group file and a scratchpad file per task | ensure, report, query, batch, finding, checkpoint, timeout, cleanup, coordinator | truncate-and-write saves without a lock; groups created by whoever comes first |
| Channels, results, consensus, handoffs, tools, streams, turn runs, networks, scheduled tasks | registries in the swarm state | append and query | bounded logs; scheduled runs |
| Conduit, security plane, T0 kernel, autonomy, spine, memory, vault, layer 1 crates, client | see PROJECT.json | | |

**How they interact.** Every command is a process: it loads the state file,
recovers persistent sessions, drains expired messages and thorn cells, ticks the
persistent sessions (unless `--auto-tick=0` or the command is `tick`), executes
one command, and saves, *also when the command failed*. The security plane calls
`run_thorn_contract`, which drains and runs one thorn command but neither
recovers nor ticks; the T0 invariants kernel calls `force_shutdown`, which has no
prelude at all. Sessions affect each other through the ledgers (a child reserves
from and settles into its parent), the children lists, the mailboxes, and
`reachable`, which quarantine, resume, recovery and shutdown write and messaging
reads. The attention queue shares nothing with the swarm state: its producers and
consumers meet in two files. The store, the broker and orchestration share
nothing with the others either. Their clients start one process per operation
(`client/cognition/orchestration/core_bridge.ts`, `spawnSync`), and agents report
independently of each other, so operations overlap: here every process is
modelled step by step between its reads and its writes.

**What makes each correct.** Ledger: what is reserved is returned exactly once,
a child is charged exactly once, a session does not spend what it has not got.
Sessions: the lineage is a forest of bounded depth, what was stopped stays
stopped. Quarantine: nobody is stranded, the target is isolated, the number of
cells is bounded. Messaging: each delivery guarantee, FIFO, no lost replay,
mailboxes drain. Attention queue: important rows first, bounded depth for what
may be refused, cursors never skip or lose rows. Store: a command is atomic, the
log tells the truth, a dead process blocks nobody for ever. Broker: the leases
fit the pool, who was granted cells is recorded, expired cells come back.
Orchestration: the parent is notified when all agents are done and not before,
and what was acknowledged is in the files. The `hazards` of PROJECT.json
list, line by line, where these are at risk.

## 2. Modules

| Module | Models | Role |
|---|---|---|
| `SwarmBudget` | `BudgetTelemetry` and its operations on one ledger | operators only |
| `SwarmSessions` | session table, all ledgers, tick, quarantine, shutdown | composes `SwarmBudget`; state machine |
| `SwarmMessaging` | mailboxes, dead letters, exactly-once index | state machine |
| `AttentionQueue` | queue and cursor files, scoring of stored rows | state machine |
| `AtomicStore` | what the adaptive store promises: commands take effect at one instant | abstract specification |
| `AdaptiveStore` | lock files, documents, log, pointer rows and index | state machine; instantiates `AtomicStore`, which it implements |
| `SpawnBroker` | the lease file and the processes over it | state machine |
| `Orchestration` | task-group file, scratchpad file, the processes over them | state machine |
| `Subsequences` | `Picked`: the elements of a sequence at a set of positions | operators only |
| `DataLemmas` | | lemmas on sums, cardinalities and subsequences |
| `SwarmSessions_lemmas`, `SwarmSessions_proofs`, `SwarmMessaging_proofs`, `AttentionQueue_proofs`, `AdaptiveStore_proofs`, `SpawnBroker_proofs`, `Orchestration_proofs` | | TLAPS proofs |
| `MCSwarmBudget`, `MCSwarmThorn`, `MCSwarmMessaging`, `MCAttentionQueue`, `MCAdaptiveStore`, `MCSpawnBroker`, `MCOrchestration` | | TLC instances |

### SwarmSessions

`sess` is `state.sessions` with the fields that some guard or property reads
(the service registry is folded in as `service`); `tele` holds each row's
`budget_telemetry`. One invocation is a forced sequence named by `pc`:

    idle --BeginRun--> autotick --TickStep*--> command --one command--> idle
    idle --BeginTick--> tick --TickStep*--> idle
    idle --BeginThorn--> thorn --one thorn command--> idle
    idle --ForceShutdown--> idle          idle --Elapse--> idle

A tick visits its sessions one at a time because a denied check-in abandons the
rest of it (`TickAbort`); the visiting order is the order of hash-valued
identifiers, hence any. One visit makes at most one check-in: the next one is
moved past the tick's own clock by an interval of at least one second, and a
final check-in ends the loop.

Deadlines are kept as *time left*, decremented by `Elapse`: "deadline <= now" is
"0 left", and the clock needs no bound. `--advance-ms` of a tick is `adv`.

Every identifier is issued at most once (`next_session_id` retries until the
hash is fresh). `"absent"` is an identifier not yet issued, `"lost"` one issued
to a persistent spawn whose first check-in was denied: its parent's reservation
was made and its row never inserted.

A command that is refused before it changes anything is `Status_`. Recursive
spawn is a sequence of task spawns, each under the previous one, in one
invocation: its steps are the steps of as many separate spawns, so the states it
passes through are reachable here.

Abstractions: the tool plan is a read and a generation whose size depends on
which side of `SmallBudget` the budget lies (the code has more buckets, all of
the same shape); token counts stay far below `u32::MAX` so `saturating_add` does
not saturate, while `saturating_sub`, which does, is `Monus`; the ceiling of the
compacted request is exact arithmetic (exact in the code below 2^24 tokens);
reports, metrics, events, anomalies and receipts are outputs. Moving a role to a
replacement session during quarantine touches only capabilities and is left out.

### SwarmMessaging

The same invocation shape with a single drain as prelude. A message keeps
sender, recipient, payload, guarantee, lifetime and the acknowledged and
deferred flags. Sessions never leave the table, so the set of sessions and the
lineage that the scope check reads are constants; `SetReachable` stands for every
other writer of `reachable`. All dead letters are created retryable in the code,
so the "not retryable" branch of the retry is unreachable and is left out.
Identifiers count up: they are taken as fresh. `next_message_id` (lines
1987-2012) compares its hash with the mailboxes only, not with the dead letters;
that two messages get one identifier would take a collision of the hash.

### AttentionQueue

One action per command; the commands are atomic except `compact`, which may die
between its two writes. A row keeps its key, kind, score (in thousandths) and
time to live. `prioritize_attention_json` scores every row on every rewrite;
the stored form of a row has an `importance` object without metrics and without
`core_floor`, so what is left of a stored score is 0.8 of it (`Rescored`). The
order of stored rows is unaffected by the common factor, so the sort reduces to
inserting the new row (`Insert`). A new event's score is a constant per kind,
with the values that the default metrics give (`MCScore`): two new events of one
kind with different metrics are not told apart. Tokens name a row's
index, receipt hash, key and timestamp; here `<<index, id>>`. An event is
stamped when it is enqueued (a producer may also supply an older `ts`; not
modelled). `delivered` and `nextId` are history variables. A consumer may come
back with any token it ever got, however old (`batch`).

### AdaptiveStore and AtomicStore

One action per operation on the file system: `create_new` of the lock, the look
at its age, its removal when stale, the comparison under the lock, the rename,
the log row, the load of the pointer index, each pointer row, the save of the
index, the removal of the lock. A `?` between them is `Error`, which answers and
leaves the lock behind. A process may die anywhere (`Crash`). A lock is its age,
counted up to `MaxAge`; `waited` counts up to `Timeout`.

`canonical_hash` is taken to be injective: a hash is the document. The temporary
file has a name of its own per process and instant and is not modelled; the
rename is the write. The rows that `project_adaptive_pointers` makes of a
document are the constant `Pointers`. `logged` keeps the last row of each path,
`rows` the set of rows ever appended.

`AtomicStore` has one step per command: apply or fail. `Atomic` is its
specification with `store <- file` and the same `req` and `res`, as a temporal
property of `AdaptiveStore`: a read takes effect at its read, a changing command
at its rename, a refused one at its comparison. It holds when no lock is ever
found stale (`MaxAge <= Stale`). After a takeover it does not, and cannot: the
process that judged the lock removes whatever lock is there by then, and a slow
owner goes on writing. The run with takeovers checks what they are for: leaked
locks go.

### SpawnBroker

A process loads the file (and prunes expired leases), saves it if something was
pruned, waits for the hardware plan, computes, and replaces the whole file.
`mem` is its copy, as old as its load. `held` is what each module was last told;
`clean` records that no two commands overlapped and no save failed, the
hypothesis of `GrantsRecorded`. A plan is any cap in `HardwareCaps`, or none
(`MaxCells`) when the child process fails. `Report` is every end of a command
that saves nothing: status, a dry run, and a request that `load_autopause`
blocks, at any time since the flag is another program's file.

### Orchestration

An operation is a sequence of jobs (`RunCoordinator` is the longest: ensure,
progress, finding, checkpoint, a report per agent, query), and a job is load,
save, return. A save is `fs::write`: `Truncate`, then the text; a second writer
in between leaves its text or a mix (`Written`), a crash an empty file, and a
write may also return an error before or after the truncation (`SaveFails`),
which ends the operation, except that the coordinator ignores its checkpoint's. A task
group that cannot be parsed is an error for every later operation; a scratchpad
that cannot be parsed is an empty scratchpad for the next one, as in the code.

The jobs are the union `Jobs`: ensure (with the agents and the statuses a
caller may name), update (from `completion.track`, with `tell`, or from
`taskgroup.update_status`, without), query (of completion, with `tell`, or of the
task group), write (`scratchpad.write` with a patch of the findings, the
checkpoints, both, or of neither, which is the progress), finding, tick and
checkpoint. An agent that a
group is created with in a final status counts as reported.

An agent is its number. `normalize_agents` fills up to the wanted count with
`agent-<len+1>` and tries again, with the same number, when that name is taken:
`Spins`, and location `spin`, which is never left. Of the checkpoints only the
last one is read by the code, so a scratchpad is a set of findings and that
checkpoint. `calm`, `born`, `twice`, `reported`, `last`, `told`, `asked`, `acked`
and `progress` are history variables: they record what was created, saved and
answered, and guard nothing. `asked` says that since the last save of the group
an operation was answered that computes the completion summary; `acked` are the
findings acknowledged and not replaced since by an explicit patch.

## 3. Runs

| Run | Instance | Checks |
|---|---|---|
| `MCSwarmBudget` | 3 sessions, budget 5 or what the parent has left, actions fail and compact, context updates, failing verified spawns | the reservation book: `ReservedIsSumOfHolds`, `HoldsMatchChildren`, `ChargedOnce`, `TerminatedReturnsBudget`, `OverspendNeedsPersistentChild`, `LedgerBalances`; lineage: `LineageSound` |
| `MCSwarmThorn` | 4 rows, one cell per 2 rows, background sessions | `QuarantineIsGuarded`, `ThornCapacity`, `RevivalNeedsCell` |
| `MCSwarmThornLive` | 3 rows, fair | `QuarantineEnds` |
| `MCSwarmMessaging` | one mailbox and the coordinator, the three guarantees; 3 messages, mailbox and dead letters of 2; fair | `ExactlyOnceDelivered`, `OnePlace`, `MailboxFifo`, `NeverReadExpired`, `RetryLosesOnlyDuplicates`, `UnreadDrains` |
| `MCAttentionQueue` | 2 consumers, 2 keys, 3 kinds, depth 1, 3 events, crashes | `QueueSorted`, `DroppableWithinCap`, `DedupeHolds`, `AckNamesDelivered`, `CursorNeverRewinds`, `CompactKeepsUnread`, `FreshCriticalFirst` |
| `MCAdaptiveStore` | 2 processes, 2 paths, 2 documents, crashes, no takeovers; fair | `Atomic` (refinement), `MutualExclusion`, `LogFollowsFile`, `IndexHasRows`, `CommandsEnd` |
| `MCAdaptiveTakeover` | 2 processes, 1 path, failing writes, stale locks; fair | `LeakedLocksGo` |
| `MCSpawnBroker` | 2 processes, 2 modules, pool of 2, failing saves and plans; fair | `FileWithinPool`, `GrantsRecorded`, `ExpiredLeasesGo` |
| `MCOrchestration` | 2 processes, 2 agents, 1 finding, 3 operations, crashes and failing writes | `NotifiedNotEarly`, `NotifiedWhenSerial`, `SerialKeeps`, `CheckpointFresh`, `StatusAgrees` |

The budget and orchestration runs also check their module's `TypeOK`; the
`TypeOK` of the other modules documents their state and holds on the same
instances.

Bounds. Three sessions give a parent with two children and a chain of depth
three. A plan under budget 5 costs 3, so the second plan is denied (or,
compacting, cut); a spawn without the flag takes what remains, so a child of a
session that has run once gets 2, which its first plan, of 2, uses up. A lifespan
of two intervals gives a session a first, a regular and a final check-in. The warn action shares every branch
with compact but the size of the cut; theorem `LedgersBalance` covers it. Four
rows and a share of one cell per two let two cells be active, on different
targets or (after a resume) on the same one. `MaxUnread = MaxDead = 2` with
three messages reach both limits. A queue depth of 1 with three events reaches
backpressure, admission past the soft limit, dedupe, expiry and compaction.

In the store two processes meet at every pair of steps; one path is set,
deleted and read, the other ensured, so that two locks meet in the index; a
timeout of 1 is reached or not. With `Stale = 1` and `MaxAge = 2` a lock is
fresh, old and stale in turn. A pool of two cells is exhausted by one module,
or shared; the clock passes the end of the first leases once. In orchestration
three operations are a creation and two overlapping reports, or a coordinator's
run (seven jobs) with two others cutting in anywhere; two agents are the least
for which a report can be lost, a filler spin, and a group be complete too
early. `MaxIds`, `MaxEvents`, `MaxNow` and `MaxStarts` are the cut-offs of a
behaviour's length. Identifiers, consumers and processes are symmetric in the
pure safety runs; runs with liveness or refinement use no symmetry. Deadlock is
checked except in orchestration, where `MaxStarts` ends every behaviour.

Three runs state what a requirement says and find a behaviour of the code that
violates it (PROJECT.json, `findings`, quotes both sides):

| Run | Property | What happens |
|---|---|---|
| `SwarmOverspend` | `SessionWithinBudget` | usage is tested against the budget without the reservations; the settlement of a persistent child overdraws its parent |
| `AttentionSkip` | `PrefixWasDelivered` | rows inserted before a cursor count as consumed |
| `OrchestrationLost` | `ParentNotified` | of two reports that overlap one is overwritten; neither answer carries the notification and the group stays open although all agents of it reported |

Several properties of the passing runs are the strongest that hold beside a
weakness of the code, and say so by an exception or a hypothesis:

- `RevivalNeedsCell`: the end of a thorn cell restores the status from before
  the quarantine, even of a session that was terminated meanwhile;
- `RetryLosesOnlyDuplicates`: the retry of an exactly-once message that expired
  unread is taken for a duplicate, and the message is gone;
- `FreshCriticalFirst`: a critical event enters the queue ahead of everything
  less important, but stored scores decay by a fifth with every rewrite;
- `MutualExclusion`, `Atomic`: only without takeovers;
- `GrantsRecorded`: overlapping requests may be granted more than the pool;
- `NotifiedNotEarly`: not for a group that two processes created at once;
- `NotifiedWhenSerial`, `SerialKeeps`, `CheckpointFresh`: while operations do
  not overlap and writes succeed. With overlap acknowledged findings and reports
  are lost;
- `NotifiedWhenSerial`: of groups that somebody looked at since their last save
  (`asked`). REQ-38-006 says "When all agents report done/failed/timeout, parent
  session notified"; a last report by `taskgroup.update_status` alone, as in
  `tests/client/cognition/taskgroup.query.test.js`, is answered without a
  notification, and the next `completion.status` (or batch, or tracked report)
  brings it;
- `CompactKeepsUnread`: a compaction that dies between its two writes leaves
  offsets that are too far, so that rows count as consumed which their consumer
  had not reached; all that holds then is that these rows are still in the file;
- `LineageSound`: in one direction. A spawn that fails after its row was built
  leaves a row whose parent does not list it.

**Fairness.** The programs have no scheduler: progress needs somebody to issue
commands. The swarm's liveness runs assume that commands keep being issued and
that each runs to its end (weak fairness of `Begin`, `TickStep` and the command),
and that the clock moves between commands again and again (strong fairness of
`Elapse`, which is only enabled between invocations). Nothing is assumed about
*which* commands come: `QuarantineEnds` needs no release and `UnreadDrains` no
receive. In the store, a process that is running keeps running, time passes, and
callers keep calling (weak fairness of each); `CommandsEnd` holds although no
fairness says that a lock is ever obtained. The broker's `ExpiredLeasesGo`
needs, besides, that status or request commands get to start again and again
and that saving the pruned file does not fail for ever (strong fairness of
both): pruning happens nowhere else.

Each property has a mutant of the code's model (PROJECT.json, `mutants`) under
which TLC finds it violated.

## 4. Proofs

`SwarmSessions_proofs` proves, for any finite set of sessions, any budgets, tool
sizes, lifespans, intervals, cell lifetimes and depth limits allowed by
`TokensAssumption` and `SessionsAssumption`:

| Theorem | Establishes |
|---|---|
| `Inductive` | `Spec => []IInv` |
| `TypeCorrect` | `Spec => []TypeOK` |
| `LedgersBalance` | `Spec => []LedgerBalances` |
| `HoldsMatch` | `Spec => []HoldsMatchChildren` |
| `OverspendExplained` | `Spec => []OverspendNeedsPersistentChild` |
| `TerminatedReturns` | `Spec => []TerminatedReturnsBudget` |
| `QuarantineGuarded` | `Spec => []QuarantineIsGuarded` |
| `ReservationsAddUp` | `Spec => []ReservedIsSumOfHolds` |
| `TreeInductive` | `Spec => []TreeInv(sess, tele)` |
| `LineageIsSound` | `Spec => []LineageSound` |
| `ThornsWithinCapacity` | `Spec => []ThornCapacity` |
| `ChargesOnce` | `Spec => ChargedOnce` |
| `RevivalIsGuarded` | `Spec => RevivalNeedsCell` |

and of the adaptive store (`AdaptiveStore_proofs`), for any processes, paths,
documents, commands and pointer rows, with crashes and failing writes:

| Theorem | States |
|---|---|
| `IndexBacked` | `Spec => []IndexHasRows` |
| `LockExclusive` | `MaxAge <= Stale` gives `Spec => []MutualExclusion` |
| `LogInOrder` | `MaxAge <= Stale` gives `Spec => LogFollowsFile` |
| `StoreAtomic` | `MaxAge <= Stale` gives `Spec => Atomic` |

of messaging (`SwarmMessaging_proofs`), for any sessions, mailbox order, lineage,
limits, lifetimes and guarantees:

| Theorem | States |
|---|---|
| `ReadsAreFresh` | `Spec => []NeverReadExpired` |
| `MailboxesAreFifo` | `Spec => []MailboxFifo` |
| `IdsInOnePlace` | `Spec => []OnePlace` |
| `ExactlyOnce` | `Spec => []ExactlyOnceDelivered` |
| `RetryKeepsMessages` | `Spec => RetryLosesOnlyDuplicates` |

of the attention queue (`AttentionQueue_proofs`), for any consumers, keys, kinds,
depth, windows and compaction parameters, and any scores with which a critical
event has at least its floor of 850:

| Theorem | States |
|---|---|
| `Typed` | `Spec => []TypeOK` |
| `QueueStaysSorted` | `Spec => []QueueSorted` |
| `CapHolds` | `Spec => []DroppableWithinCap` |
| `NoDuplicates` | `Spec => []DedupeHolds` |
| `AcksNameDelivered` | `Spec => AckNamesDelivered` |
| `CursorsNeverRewind` | `Spec => CursorNeverRewinds` |
| `CompactionKeepsUnread` | `Spec => CompactKeepsUnread` |
| `CriticalGoesFirst` | `Spec => FreshCriticalFirst` |

of the broker (`SpawnBroker_proofs`), for any finite set of modules, any
processes, quotas, pool, lifetimes and hardware plans:

| Theorem | States |
|---|---|
| `Typed` | `Spec => []TypeOK` |
| `PoolSafe` | `Spec => []FileWithinPool` |
| `LeasesAgree` | `Spec => []GrantsRecorded` |

and of orchestration (`Orchestration_proofs`), for any processes, agents, findings
and programs (non-empty sequences of `Jobs`), with crashes and failing writes:

| Theorem | States |
|---|---|
| `TypesKept` | `Spec => []TypeOK` |
| `NotifiedOnlyWhenReported` | `Spec => []NotifiedNotEarly` |
| `StatusesAgree` | `Spec => []StatusAgrees` |
| `SerialKeepsAcks` | `Spec => []SerialKeeps` |
| `CheckpointsFresh` | `Spec => []CheckpointFresh` |
| `ParentToldWhenSerial` | `Spec => []NotifiedWhenSerial` |

The argument for the sessions. None of the properties is inductive alone. `IInv` joins `TypeOK`,
`TablesOK(sess, tele)` and `TodoOK`; it is stated on the pair of tables rather
than on the variables, so that one operation can be followed through the
intermediate tables it builds (reserve, run the plan, insert the row, settle) by
one lemma per operator, as the code does it on `&mut SwarmState`. Its parts:

- `RowsOK` and `LedgersOK`: every row and every ledger is well typed, and every
  ledger is in balance (`used = own + settled`, `own <= max`, and `reserved` is
  the sum of the holds);
- `BudgetInv`: holds match unsettled children in both directions; a ledger is
  over its budget only if a persistent child has settled into it; and three
  facts that make these inductive: an identifier without a row is nobody's
  budget child, whoever booked a reservation has a row, and no quarantine ever
  restores a session to "lost" (which would excuse a hold that has an owner).
  That a task spawn cannot overdraw follows inside its own step: the child's
  usage is within its grant, the grant within what its parent had left;
- `Done`: a terminated row has nothing unsettled, which rules out a second
  charge and a late return;
- `ThornInv`: a quarantined row has an active cell; the target of an active cell
  is a row that is no cell and has a proper previous status. The latter has to
  be carried for *all* targets of active cells, quarantined or not, because
  `resume` and `terminate` overwrite the status of a quarantined row and leave
  its cell active;
- `TodoOK`: what a tick has still to visit are persistent rows, and outside a
  tick there is nothing to visit.

Most steps only change a row within its `Frame` (what `BudgetInv` reads) and
`ThornFrame` (what `ThornInv` reads); one lemma says that such steps keep the
invariant, and the steps that reserve, insert, settle, quarantine or release
have a lemma each.

The lineage, the capacity of thorn cells and the action properties are proved on
top of `IInv`, from one fact about every step (`NextShape`). A step is `Quiet`: it
creates no row and lists no child, and revives a stopped session only if an
active cell has it as its target. Or it is a `Growth`: one identifier gets a row,
at most one parent lists it one level below itself, and if the row is an active
cell there was a slot left for it. Either way it `Charges` each parent the sum of
what the children it settles in this step have used, and nothing else; a
shutdown, an expiry or a tick may settle several. `TreeInv` is what such steps
keep: `LineInv` (a listed child has a row, names its lister as parent and sits one
level below it; who has no row lists nobody), `CapInv`, and `Unbilled` (who has no
row was never charged), without which a spawn that starts its ledger afresh would
erase a charge. `CapInv` survives the end of any session because rows are never
removed: the limit, a share of the table, only grows.

`SwarmSessions_lemmas` holds the lemmas on one ledger (what a tool, a plan, a hold
and a settlement change and leave alone) and the ones on the pair of tables. `IInv` was model-checked on the instances of both session runs
before it was proved.

The argument for the store. `MaxAge <= Stale` says that no lock file gets old
enough to be taken for stale; `IndexBacked` does without it. `IndexHasRows` is
not inductive because `SaveIndex` publishes a copy made earlier: `IndexInv` adds
that the entries of every process's copy have rows too (rows are never removed),
and `ProcsOK`, which ties a process's location to its command and its answer.
`LockInv` adds to it `MutualExclusion`, that nobody is about to remove a stale
lock, and the two facts that make the time under the lock one instant: the
comparison made at "locked" still holds at "write" (`Compared`), and the file
still holds what was written at "log" (`Written`). The refinement maps the
document to itself; an unlocked read, a comparison that ends the command and the
rename are `Apply`, an error is `Fail`, the end of a process `End`, and the other
steps stutter.

Data. The broker sums leases, the attention queue counts rows, and both queues
delete from the middle. `DataLemmas` states once what these proofs need: how
`SumFunctionOnSet` changes when one summand does and when all grow or shrink,
that a sum of naturals is a natural, and that `Picked(q, I)` has exactly the
elements of `q` at the positions in `I`, in their order. The prover cannot
instantiate an induction principle that takes a predicate as a parameter; the
inductions are stated for the *set* of numbers, or of subsets of a finite set, of
which the claim holds (`NatSetInduction`, `FiniteSetInduction`). The recursive
functions inside `SumFunctionOnSet` and `Picked` are unfolded once, after their
existence is shown (`SumTableDef`, `PickTableDef`).

The argument for messaging. The inductive invariant says that in each mailbox
what is read was sent before what is unread, both in order (`BoxesOrdered`);
identifiers are below `nextId` (`IdsUsed`), no two mailboxes share one, the dead
letters have each once and share none with a mailbox (`BoxesApart`,
`DeadApart`); the index has the key of every exactly-once message in a mailbox
(`Indexed`) and one key stands for one identifier (`OneCopy`); and no read
message is expired, nor an unread one between the drain and the command of an
invocation (`Drainage`). Commands are followed through what they do to a
sequence: append under a new identifier, move from unread to read, keep a
`Picked` part. Expiry, aging and acks change a message but not its identity,
hence `Twin` and `From`. For `RetryLosesOnlyDuplicates` the length of the dead
letters matters: they fit their limit (`DeadFits`), so a retry, which takes its
row out first, has room to put its message back and evicts nobody.

The argument for the attention queue. `Sound(q, n)` is stated on a sequence, so
that it can be followed through a prune, a rescore, an insert and a trim: sorted,
at most `max_queue_depth` droppable rows, rows of one key a window apart,
identifiers issued. A command that only thins or rescores is `Thinned`, with a
strictly increasing map back to the old positions; the insertion is `Placed`.
`FreshCriticalFirst` follows from the scores: what an info row has kept of its
score after a rewrite is at most 800, below the floor of a critical event, and
the insertion goes by score.

The argument for the broker. `FileWithinPool` is kept by every save although the
copy it is computed from may be out of date, because the grant is computed
against the rest of *that copy*: the invariant says that each process's copy
fits the pool as well. `GrantsRecorded` needs that while `clean` holds at most
one process is past its load, and its copy is the file less what expired.

The argument for orchestration. Four inductive invariants, each resting on the
previous: `Typed`; `NotEarly`, by which every group that is in the file or in a
process's memory is `Backed` (an agent with a final status in it has reported)
and, unless the group was created twice, `Carries` all of `born`, so that
whoever finds it complete, however old its copy, has all agents' reports;
`Serial`, by which without overlap the one running process, at each of its
locations, holds or is about to store what was acknowledged (`AtGroup`, `AtPad`,
`Stores`, `Faithful`); and `Heard`, by which a complete group that an operation
has looked at since its last save was told of. The programs are arbitrary: that
somebody looks is in the property (`asked`), not a hypothesis on the programs.

Only model-checked: liveness (`QuarantineEnds`, `UnreadDrains`, `CommandsEnd`,
`LeakedLocksGo`, `ExpiredLeasesGo`), which needs fairness and ENABLED and is out
of the prover's reach, and the three properties of the violation runs, which are
false. Every other property of a passing run is a theorem.

## 5. Not modelled, and the plan

- The swarm state file and the queue file under overlapping invocations.
  `SwarmSessions`, `SwarmMessaging` and `AttentionQueue` run one invocation
  after the other. `load_state`/`save_state` have the shape of the task-group
  file (read, `fs::write`, no lock), and what `Orchestration` shows of that
  shape (lost updates, torn files) applies to them.
- The registries of the swarm runtime (channels, results, consensus, handoffs,
  tools, streams, turn runs, networks): rows appended and read back. Byzantine
  mode, scheduled tasks and the built-in test commands.
- In orchestration: scope classification and overlap, partitioning, merging of
  findings, partial retrieval. In the store: the projection to pointer rows and
  path resolution; the client's retry loop around set.
- Conduit, the security plane, the T0 kernel but for its call into the swarm,
  autonomy and spine controllers, `autoscale.rs`, `inversion.rs` and
  `decompose.rs` of layer 2 (policy formulas over JSON snapshots), the memory,
  vault and graph libraries, layer 1, the client. They are most of the
  repository's lines and keep little state of their own. PROJECT.json gives the
  reason for each.

Order of further work:

1. `AttentionQueue` split into read and write steps of several processes.
2. Scheduled tasks, `background stop` and recursive spawn inside the invocation.
3. Scope overlap as an algorithm against its definition; conduit.
