--------------------------- MODULE Orchestration ---------------------------
(***************************************************************************)
(* Multi-agent orchestration, core/layer0/ops/src/orchestration.rs: the    *)
(* file of one task group (which agent has reached which status) and the   *)
(* scratchpad of its task (findings and checkpoints).  Every operation is  *)
(* a process started by the client.  It loads a file, computes, and saves  *)
(* the whole file with fs::write, which truncates first and writes then;   *)
(* there is no lock and no rename.  An agent is the number in `agent-<n>'. *)
(***************************************************************************)
EXTENDS Integers, Sequences, FiniteSets

CONSTANTS
    Procs,
    MaxAgents,        \* bound: agents are agent-1 .. agent-MaxAgents
    Findings,
    ItemInterval,     \* ITEM_INTERVAL of the checkpoints
    MaxProcessed,     \* bound on processed_count
    Programs,         \* the operations clients start, as sequences of jobs
    Crashes,          \* whether processes may die and writes may fail
    MaxStarts,        \* bound on the operations that are started
    Missing,          \* no file
    Blank, Garbled,   \* truncated; one write over the other
    Nothing           \* no copy in memory

VARIABLES
    group,      \* the task-group file
    pad,        \* the scratchpad file
    pc, todo,   \* where each process is, and the jobs it has left
    mem,        \* what it is going to save
    starts,     \* operations started so far
    calm,       \* no two processes overlapped, none died, no write failed
    born,       \* the agents of the group as it was first created
    twice,      \* the group was created a second time
    reported,   \* agents whose final status was ever saved
    last,       \* the last acknowledged status of each agent
    told,       \* a notification was returned since a save left the group open
    asked,      \* an operation that looks for completion was answered since the last save
    acked,      \* findings that were acknowledged, and not replaced since
    progress    \* processed_count of the last checkpoint operation

files == <<group, pad>>
ghosts == <<calm, born, twice, reported, last, told, asked, acked, progress>>
vars == <<files, pc, todo, mem, starts, ghosts>>

Agents == 1 .. MaxAgents
Terminal == {"done", "failed", "timeout"}
Status == Terminal \cup {"pending", "running"}
Groups == UNION {[A -> Status] : A \in SUBSET Agents}
NoCheckpoint == -1
Pads == [found : SUBSET Findings, checkpoint : NoCheckpoint .. MaxProcessed]
EmptyPad == [found |-> {}, checkpoint |-> NoCheckpoint]
Unreadable == {Blank, Garbled}

(* The jobs operations are made of.  An ensure names some agents and the   *)
(* status of each, and how many agents there are to be.  A write patches   *)
(* the findings, the checkpoints, both or neither (the progress alone).    *)
Ensure(named, n, tell) == [do |-> "ensure", named |-> named, count |-> n, tell |-> tell]
Update(a, s, tell) == [do |-> "update", agent |-> a, status |-> s, tell |-> tell]
Query(tell) == [do |-> "query", tell |-> tell]
Write(keys, new) == [do |-> "write", keys |-> keys, new |-> new]
AppendFinding(f) == [do |-> "finding", finding |-> f]
Tick(n) == [do |-> "tick", processed |-> n]
AppendCheckpoint(n) == [do |-> "checkpoint", processed |-> n]

Jobs ==
    [do : {"ensure"}, named : Groups, count : 1 .. MaxAgents, tell : BOOLEAN]
        \cup [do : {"update"}, agent : Agents, status : Status, tell : BOOLEAN]
        \cup [do : {"query"}, tell : BOOLEAN]
        \cup [do : {"write"}, keys : SUBSET {"found", "checkpoint"}, new : Pads]
        \cup [do : {"finding"}, finding : Findings]
        \cup [do : {"tick", "checkpoint"}, processed : 0 .. MaxProcessed]

ASSUME OrchestrationAssumption ==
    /\ MaxAgents \in Nat \ {0}
    /\ ItemInterval \in Nat \ {0} /\ MaxProcessed \in Nat
    /\ Crashes \in BOOLEAN /\ MaxStarts \in Nat
    /\ \A ops \in Programs : ops \in Seq(Jobs) /\ ops # <<>>
    /\ Missing \notin Unreadable
    /\ \A f \in Unreadable \cup {Missing} : f \notin Groups /\ f \notin Pads

(* The operations.                                                         *)
TaskgroupEnsure(named, n) == <<Ensure(named, n, FALSE)>>
TaskgroupUpdate(a, s) == <<Update(a, s, FALSE)>>
TaskgroupQuery == <<Query(FALSE)>>
CompletionStatus == <<Ensure(<<>>, 1, TRUE)>>
CompletionTrack(a, s) == <<Update(a, s, TRUE)>>
CompletionBatch(n, s) == [i \in 1 .. n |-> Update(i, s, FALSE)] \o <<Query(TRUE)>>
WriteProgress == Write({}, EmptyPad)
HandleTimeout(n) == <<AppendCheckpoint(n), WriteProgress>>
RunCoordinator(n, f, k) ==
    <<Ensure([a \in 1 .. n |-> "running"], n, FALSE), WriteProgress, AppendFinding(f), Tick(k)>>
        \o CompletionBatch(n, "done")

Init ==
    /\ group = Missing /\ pad = Missing
    /\ pc = [p \in Procs |-> "idle"] /\ todo = [p \in Procs |-> <<>>]
    /\ mem = [p \in Procs |-> Nothing] /\ starts = 0
    /\ calm = TRUE /\ born = {} /\ twice = FALSE /\ reported = {}
    /\ last = [a \in Agents |-> "none"] /\ told = FALSE /\ asked = FALSE
    /\ acked = {} /\ progress = 0

Job(p) == Head(todo[p])
AllIdle == \A p \in Procs : pc[p] = "idle"
OnGroup(p) == Job(p).do \in {"ensure", "update", "query"}

-----------------------------------------------------------------------------
(* What the task group computes.                                           *)

Complete_NonePending(g) == DOMAIN g # {} /\ \A a \in DOMAIN g : g[a] # "pending"
Complete_AllDone(g) == DOMAIN g # {} /\ \A a \in DOMAIN g : g[a] = "done"

(* total > 0 and terminal_total = total.                                   *)
Complete(g) == DOMAIN g # {} /\ \A a \in DOMAIN g : g[a] \in Terminal

With(g, s) == {a \in DOMAIN g : g[a] = s}

DeriveGroupStatus_AnyFailed(g) ==
    IF With(g, "pending") = DOMAIN g THEN "pending"
    ELSE IF With(g, "failed") \cup With(g, "timeout") # {} THEN "failed"
    ELSE IF With(g, "done") = DOMAIN g THEN "done"
    ELSE "running"

DeriveGroupStatus(g) ==
    IF With(g, "pending") = DOMAIN g THEN "pending"
    ELSE IF With(g, "running") \cup With(g, "pending") # {} THEN "running"
    ELSE IF With(g, "failed") = DOMAIN g THEN "failed"
    ELSE IF With(g, "timeout") = DOMAIN g THEN "timeout"
    ELSE IF With(g, "done") = DOMAIN g THEN "done"
    ELSE "completed"

(* The fillers of normalize_agents are agent-(len + 1), and so on; when    *)
(* that name is taken the loop tries the same name again, for ever.        *)
Spins(A, n) == \E k \in Cardinality(A) + 1 .. n : k \in A
Filled_OneMore(A, n) == A \cup (Cardinality(A) + 1 .. n + 1)

Filled(A, n) == A \cup (Cardinality(A) + 1 .. n)

(* default_task_group: update_agent_status and completion.status ensure a  *)
(* group of which they know only the name.                                 *)
SeedAgents(j) == IF j.do = "ensure" THEN DOMAIN j.named ELSE {}
SeedCount(j) == IF j.do = "ensure" THEN j.count ELSE 1
Seed(j) ==
    [a \in Filled(SeedAgents(j), SeedCount(j)) |->
        IF a \in SeedAgents(j) THEN j.named[a] ELSE "pending"]

Updated(g, j) ==
    [a \in DOMAIN g \cup {j.agent} |-> IF a = j.agent THEN j.status ELSE g[a]]

-----------------------------------------------------------------------------
(* Steps of a process.                                                     *)

Goto(p, l) == pc' = [pc EXCEPT ![p] = l]
Keep(p, x) == mem' = [mem EXCEPT ![p] = x]

(* A job is over: on to the next one, if there is one.                     *)
NextJob(p) ==
    /\ todo' = [todo EXCEPT ![p] = Tail(@)]
    /\ Goto(p, IF Len(todo[p]) = 1 THEN "idle" ELSE "load")
    /\ Keep(p, Nothing)

Start(p) == \E ops \in Programs :
    /\ pc[p] = "idle" /\ starts < MaxStarts
    /\ starts' = starts + 1
    /\ todo' = [todo EXCEPT ![p] = ops]
    /\ Goto(p, "load")
    /\ calm' = (calm /\ AllIdle)
    /\ UNCHANGED <<files, mem, born, twice, reported, last, told, asked, acked, progress>>

(* An error ends the operation, the rest of a batch included.              *)
LoadFails(p) ==
    /\ pc[p] = "load" /\ OnGroup(p)
    /\ group \in Unreadable \/ (group = Missing /\ Job(p).do = "query")
    /\ todo' = [todo EXCEPT ![p] = <<>>]
    /\ Goto(p, "idle")
    /\ UNCHANGED <<files, mem, ghosts, starts>>

LoadMissing(p) ==
    /\ pc[p] = "load" /\ OnGroup(p)
    /\ group = Missing /\ Job(p).do # "query"
    /\ \/ /\ Spins(SeedAgents(Job(p)), SeedCount(Job(p)))
          /\ Goto(p, "spin") /\ UNCHANGED mem
       \/ /\ ~Spins(SeedAgents(Job(p)), SeedCount(Job(p)))
          /\ Goto(p, "seed") /\ Keep(p, Seed(Job(p)))
    /\ UNCHANGED <<files, todo, ghosts, starts>>

(* An existing group is returned as it is: agents named by a later ensure  *)
(* are not added to it.                                                    *)
LoadExisting(p) ==
    /\ pc[p] = "load" /\ OnGroup(p)
    /\ group \notin Unreadable \cup {Missing}
    /\ IF Job(p).do = "update"
       THEN Goto(p, "save") /\ Keep(p, Updated(group, Job(p)))
       ELSE Goto(p, "return") /\ Keep(p, group)
    /\ UNCHANGED <<files, todo, ghosts, starts>>

(* fs::write: File::create truncates, write_all writes from the start.     *)
(* Over somebody else's bytes the result is this text, or this text and    *)
(* the tail of a longer one.                                               *)
Truncate(p) ==
    /\ pc[p] \in {"seed", "save"}
    /\ Goto(p, IF pc[p] = "seed" THEN "seeding" ELSE "fill")
    /\ IF OnGroup(p) THEN group' = Blank /\ UNCHANGED pad
                     ELSE pad' = Blank /\ UNCHANGED group
    /\ UNCHANGED <<todo, mem, ghosts, starts>>

Written(file, new) == IF file = Blank THEN {new} ELSE {new, Garbled}

(* The default group is on disk; an update goes on from it.                *)
FillSeed(p) ==
    /\ pc[p] = "seeding"
    /\ group' \in Written(group, mem[p])
    /\ born' = IF born = {} THEN DOMAIN mem[p] ELSE born
    /\ twice' = (born # {})
    /\ reported' = reported \cup {a \in DOMAIN mem[p] : mem[p][a] \in Terminal}
    /\ asked' = FALSE
    /\ IF Job(p).do = "update"
       THEN Goto(p, "save") /\ Keep(p, Updated(mem[p], Job(p)))
       ELSE Goto(p, "return") /\ UNCHANGED mem
    /\ UNCHANGED <<pad, todo, calm, last, told, acked, progress, starts>>

FillGroup(p) ==
    /\ pc[p] = "fill" /\ OnGroup(p)
    /\ group' \in Written(group, mem[p])
    /\ reported' = reported \cup ({Job(p).agent} \cap {a \in DOMAIN mem[p] : mem[p][a] \in Terminal})
    /\ told' = (told /\ Complete(mem[p])) /\ asked' = FALSE
    /\ Goto(p, "return")
    /\ UNCHANGED <<pad, todo, mem, calm, born, twice, last, acked, progress, starts>>

FillPad(p) ==
    /\ pc[p] = "fill" /\ ~OnGroup(p)
    /\ pad' \in Written(pad, mem[p])
    /\ Goto(p, "return")
    /\ UNCHANGED <<group, todo, mem, ghosts, starts>>

(* The file this process had open was removed: the text goes nowhere.      *)
FillRemoved(p) ==
    /\ pc[p] = "orphan"
    /\ Goto(p, "return")
    /\ UNCHANGED <<files, todo, mem, ghosts, starts>>

(* What an answer acknowledges.                                            *)
Acked(j) ==
    CASE j.do = "finding"                        -> acked \cup {j.finding}
      [] j.do = "write" /\ "found" \in j.keys -> j.new.found
      [] OTHER                                   -> acked

Progress(j) ==
    CASE j.do \in {"tick", "checkpoint"}             -> j.processed
      [] /\ j.do = "write" /\ "checkpoint" \in j.keys
         /\ j.new.checkpoint # NoCheckpoint          -> j.new.checkpoint
      [] OTHER                                        -> progress

(* The operation answers; a complete group brings the notification, but    *)
(* not to a taskgroup operation, which does not look.                      *)
Return(p) ==
    /\ pc[p] = "return"
    /\ NextJob(p)
    /\ asked' = (asked \/ (OnGroup(p) /\ Job(p).tell))
    /\ told' = (told \/ (OnGroup(p) /\ Job(p).tell /\ Complete(mem[p])))
    /\ last' = IF Job(p).do = "update" THEN [last EXCEPT ![Job(p).agent] = Job(p).status]
                                       ELSE last
    /\ acked' = Acked(Job(p))
    /\ progress' = Progress(Job(p))
    /\ UNCHANGED <<files, calm, born, twice, reported, starts>>

-----------------------------------------------------------------------------
(* The scratchpad.  Of the checkpoints only the last one is ever read.     *)

(* A file that cannot be read or parsed counts as an empty scratchpad.     *)
LoadScratchpad(file) == IF file \in Unreadable \cup {Missing} THEN EmptyPad ELSE file

ShouldCheckpoint_Strict(s, n, late) ==
    IF s.checkpoint = NoCheckpoint THEN n > 0
    ELSE late \/ n - s.checkpoint > ItemInterval

(* `late': two minutes have passed since the last checkpoint.              *)
ShouldCheckpoint(s, n, late) ==
    IF s.checkpoint = NoCheckpoint THEN n > 0
    ELSE late \/ n - s.checkpoint >= ItemInterval

(* append_finding reads the findings it adds to.                           *)
ReadFindings(p) ==
    /\ pc[p] = "load" /\ Job(p).do = "finding"
    /\ Goto(p, "merge")
    /\ Keep(p, LoadScratchpad(pad).found \cup {Job(p).finding})
    /\ UNCHANGED <<files, todo, ghosts, starts>>

(* maybe_checkpoint.                                                       *)
Decide(p) == \E late \in BOOLEAN :
    /\ pc[p] = "load" /\ Job(p).do = "tick"
    /\ Goto(p, IF ShouldCheckpoint(LoadScratchpad(pad), Job(p).processed, late)
               THEN "merge" ELSE "return")
    /\ UNCHANGED <<files, todo, mem, ghosts, starts>>

(* merge_objects.                                                          *)
Merged(s, keys, new) ==
    [found      |-> IF "found" \in keys THEN new.found ELSE s.found,
     checkpoint |-> IF "checkpoint" \in keys THEN new.checkpoint ELSE s.checkpoint]

Patched_Replaces(s, j, found) ==
    CASE j.do = "finding"                -> [s EXCEPT !.found = found]
      [] j.do \in {"tick", "checkpoint"} -> [EmptyPad EXCEPT !.checkpoint = j.processed]
      [] OTHER                           -> Merged(s, j.keys, j.new)

(* write_scratchpad reads the file again and replaces the patched key.     *)
Patched(s, j, found) ==
    CASE j.do = "finding"                -> [s EXCEPT !.found = found]
      [] j.do \in {"tick", "checkpoint"} -> [s EXCEPT !.checkpoint = j.processed]
      [] OTHER                           -> Merged(s, j.keys, j.new)

(* append_checkpoint also reads the rows it adds to, before; its own row   *)
(* is the last one whatever these are, so that read is left out.           *)
MergePatch(p) ==
    /\ \/ pc[p] = "merge"
       \/ pc[p] = "load" /\ Job(p).do \in {"write", "checkpoint"}
    /\ Goto(p, "save")
    /\ Keep(p, Patched(LoadScratchpad(pad), Job(p), mem[p]))
    /\ UNCHANGED <<files, todo, ghosts, starts>>

(* scratchpad.cleanup, a single remove_file.                               *)
Cleanup ==
    /\ pad # Missing
    /\ pad' = Missing
    /\ pc' = [p \in Procs |-> IF pc[p] = "fill" /\ ~OnGroup(p) THEN "orphan" ELSE pc[p]]
    /\ acked' = {} /\ progress' = 0
    /\ calm' = (calm /\ AllIdle)
    /\ UNCHANGED <<group, todo, mem, born, twice, reported, last, told, asked, starts>>

Stop(p) ==
    /\ todo' = [todo EXCEPT ![p] = <<>>]
    /\ Goto(p, "idle") /\ Keep(p, Nothing)

Crash(p) ==
    /\ Crashes /\ pc[p] # "idle"
    /\ Stop(p)
    /\ calm' = FALSE
    /\ UNCHANGED <<files, born, twice, reported, last, told, asked, acked, progress, starts>>

(* fs::write returns an error: the file cannot be opened, or the text got  *)
(* there in part.  The operation answers with the error, except that       *)
(* run_coordinator does not look at what its maybe_checkpoint returned.    *)
SaveFails(p) ==
    /\ Crashes /\ pc[p] \in {"seed", "seeding", "save", "fill"}
    /\ IF Job(p).do = "tick" THEN NextJob(p) ELSE Stop(p)
    /\ group' \in IF pc[p] \in {"seeding", "fill"} /\ OnGroup(p) THEN {group, Garbled} ELSE {group}
    /\ pad' \in IF pc[p] = "fill" /\ ~OnGroup(p) THEN {pad, Garbled} ELSE {pad}
    /\ calm' = FALSE
    /\ UNCHANGED <<born, twice, reported, last, told, asked, acked, progress, starts>>

-----------------------------------------------------------------------------
Step(p) ==
    \/ LoadFails(p) \/ LoadMissing(p) \/ LoadExisting(p)
    \/ Truncate(p) \/ FillSeed(p) \/ FillGroup(p) \/ FillPad(p) \/ FillRemoved(p)
    \/ SaveFails(p) \/ Return(p)
    \/ ReadFindings(p) \/ Decide(p) \/ MergePatch(p)

Next == (\E p \in Procs : Start(p) \/ Step(p) \/ Crash(p)) \/ Cleanup

Spec == Init /\ [][Next]_vars

-----------------------------------------------------------------------------
(* Properties.                                                             *)

(* Every file is one of the texts a save wrote, or unreadable; processes   *)
(* hold copies of what they are about to save.                             *)
TypeOK ==
    /\ group \in Groups \cup Unreadable \cup {Missing}
    /\ pad \in Pads \cup Unreadable \cup {Missing}
    /\ pc \in [Procs -> {"idle", "load", "seed", "seeding", "merge", "save", "fill",
                         "orphan", "return", "spin"}]
    /\ \A p \in Procs : pc[p] = "idle" <=> todo[p] = <<>>
    /\ \A p \in Procs : pc[p] \in {"save", "fill"} /\ ~OnGroup(p) => mem[p] \in Pads

(* Unless the group was created twice, the parent is never notified before *)
(* every agent the group was created with has reported a final status,     *)
(* whatever processes overlap, overwrite each other or die.                *)
NotifiedNotEarly == told /\ ~twice => born \subseteq reported

(* Every agent that the group knows or that ever reported has a final      *)
(* status as its last acknowledged one.                                    *)
AllReported ==
    /\ born # {}
    /\ \A a \in Agents : a \in born \/ last[a] # "none" => last[a] \in Terminal

(* While operations do not overlap, the parent has been notified once all  *)
(* agents have reported and, since the last save of the group, one of the  *)
(* operations that look for completion was answered: completion.track with *)
(* its own report, a batch, the coordinator, completion.status.  A last    *)
(* report by taskgroup.update_status alone is answered without a look at   *)
(* the whole group, and notifies nobody.                                   *)
NotifiedWhenSerial == calm /\ AllIdle /\ AllReported /\ asked => told

(* While operations do not overlap, no acknowledged report is missing from *)
(* the group and no acknowledged finding from the scratchpad, whichever    *)
(* operations came in between, unless scratchpad.write itself replaced the *)
(* findings: then it is those that are there.                              *)
SerialKeeps ==
    calm /\ AllIdle =>
        /\ acked \subseteq LoadScratchpad(pad).found
        /\ \A a \in Agents : last[a] # "none" => a \in DOMAIN group /\ group[a] = last[a]

(* While operations do not overlap, a task that loses its memory falls     *)
(* back by less than one checkpoint interval.                              *)
CheckpointFresh ==
    calm /\ AllIdle /\ pad # Missing /\ LoadScratchpad(pad).checkpoint # NoCheckpoint =>
        progress - LoadScratchpad(pad).checkpoint < ItemInterval

(* The status stored in the group is a final one exactly when the          *)
(* completion summary says complete: derive_group_status and               *)
(* completion_summary agree.                                               *)
StatusAgrees ==
    group \in Groups =>
        (Complete(group) <=> DeriveGroupStatus(group) \in Terminal \cup {"completed"})

(* REQ-38-006: "When all agents report done/failed/timeout, parent session *)
(* notified", of reports made with completion.track to a group that was    *)
(* created once, with all of its agents.  Not what the code does: of two   *)
(* reports that overlap one is overwritten, neither answer carries a       *)
(* notification, and the group in the file stays open although all agents  *)
(* reported.                                                               *)
ParentNotified ==
    AllIdle /\ AllReported /\ born = Agents /\ ~twice /\ group \in Groups => told
=============================================================================
