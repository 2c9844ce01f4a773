------------------------ MODULE Orchestration_proofs ------------------------
(***************************************************************************)
(* Proofs about orchestration, for any processes, agents, findings and     *)
(* operations made of the jobs of the model.                               *)
(***************************************************************************)
EXTENDS Orchestration, DataLemmas

(* What a process holds, by the job it is at.                              *)
Holds(p) ==
    /\ pc[p] \in {"seed", "seeding"} =>
          Job(p).do \in {"ensure", "update"} /\ mem[p] = Seed(Job(p))
    /\ pc[p] = "merge" =>
          /\ Job(p).do \in {"finding", "tick"}
          /\ Job(p).do = "finding" => mem[p] \in SUBSET Findings
    /\ pc[p] = "orphan" => ~OnGroup(p)
    /\ pc[p] \in {"save", "fill"} /\ OnGroup(p) => Job(p).do = "update" /\ mem[p] \in Groups
    /\ pc[p] = "return" /\ OnGroup(p) => mem[p] \in Groups

Typed ==
    /\ TypeOK
    /\ todo \in [Procs -> Seq(Jobs)]
    /\ mem = [p \in Procs |-> mem[p]]
    /\ born \subseteq Agents /\ acked \subseteq Findings
    /\ last \in [Agents -> Status \cup {"none"}]
    /\ progress \in 0 .. MaxProcessed
    /\ calm \in BOOLEAN /\ told \in BOOLEAN /\ asked \in BOOLEAN /\ twice \in BOOLEAN
    /\ twice => born # {}
    /\ \A p \in Procs : Holds(p)

-----------------------------------------------------------------------------
(* No early notification.  A copy of the group, in the file or in a        *)
(* process, has all the agents it was created with, and the ones it calls  *)
(* final were saved as final, but for the one an update is about to save.  *)
Backed(g, B, R) ==
    /\ B # {} /\ B \subseteq DOMAIN g
    /\ \A a \in DOMAIN g : g[a] \in Terminal => a \in R

Carries(p) ==
    /\ pc[p] \in {"save", "fill"} /\ OnGroup(p) =>
          Backed(mem[p], born, reported \cup {Job(p).agent})
    /\ pc[p] = "return" /\ OnGroup(p) => Backed(mem[p], born, reported)

NotEarly ==
    ~twice =>
        /\ group \in Groups => Backed(group, born, reported)
        /\ \A p \in Procs : Carries(p)
        /\ told => born # {} /\ born \subseteq reported

-----------------------------------------------------------------------------
(* Operations that do not overlap.  l is the last status of each agent: as *)
(* acknowledged, or as it will be when the running job returns.            *)
LastAfter(p) ==
    IF Job(p).do = "update" THEN [last EXCEPT ![Job(p).agent] = Job(p).status] ELSE last

Faithful(g, l, B) ==
    /\ g \in Groups /\ B # {}
    /\ DOMAIN g = B \cup {a \in Agents : l[a] # "none"}
    /\ \A a \in Agents : l[a] # "none" => g[a] = l[a]

Unborn == born = {} /\ \A a \in Agents : last[a] = "none"

GroupRests == (group = Missing /\ Unborn) \/ Faithful(group, last, born)

(* A scratchpad with the findings in A, not an interval behind n.          *)
Stores(f, A, n) ==
    /\ f \in Pads \cup {Missing}
    /\ A \subseteq LoadScratchpad(f).found
    /\ LoadScratchpad(f).checkpoint # NoCheckpoint =>
          n - LoadScratchpad(f).checkpoint < ItemInterval

PadRests == Stores(pad, acked, progress)

(* Where the one running process is with the group, and with the pad.      *)
AtGroup(p) ==
    /\ pc[p] = "seed" => group = Missing /\ Unborn
    /\ pc[p] = "seeding" => group = Blank /\ Unborn
    /\ pc[p] \in {"save", "fill"} /\ OnGroup(p) => Faithful(mem[p], LastAfter(p), born)
    /\ pc[p] = "fill" /\ OnGroup(p) => group = Blank
    /\ pc[p] = "return" /\ OnGroup(p) => group = mem[p] /\ Faithful(group, LastAfter(p), born)
    /\ pc[p] \in {"load", "merge", "spin"} \/ ~OnGroup(p) => GroupRests

AtPad(p) ==
    /\ pc[p] \in {"save", "fill"} /\ ~OnGroup(p) => Stores(mem[p], Acked(Job(p)), Progress(Job(p)))
    /\ pc[p] = "fill" /\ ~OnGroup(p) => pad = Blank
    /\ pc[p] = "return" => Stores(pad, Acked(Job(p)), Progress(Job(p)))
    /\ pc[p] \in {"load", "merge", "spin", "seed", "seeding"}
          \/ (pc[p] \in {"save", "fill"} /\ OnGroup(p)) => PadRests
    /\ pc[p] = "merge" /\ Job(p).do = "finding" =>
          mem[p] = LoadScratchpad(pad).found \cup {Job(p).finding}

Serial ==
    calm =>
        /\ \A p, q \in Procs : pc[p] # "idle" /\ pc[q] # "idle" => p = q
        /\ AllIdle => GroupRests /\ PadRests
        /\ \A p \in Procs : pc[p] # "idle" => pc[p] # "orphan" /\ AtGroup(p) /\ AtPad(p)

-----------------------------------------------------------------------------
(* Notification: a complete group that was looked at since it was saved    *)
(* has been told to the parent.                                            *)
Heard == calm /\ asked /\ group \in Groups /\ Complete(group) => told

-----------------------------------------------------------------------------
(* Jobs, groups and scratchpads.                                           *)

LEMMA JobFacts ==
    ASSUME NEW j \in Jobs
    PROVE  /\ j.do \in {"ensure", "update", "query", "write", "finding", "tick", "checkpoint"}
           /\ j.do = "ensure" => j.named \in Groups /\ j.count \in 1 .. MaxAgents
           /\ j.do = "update" => j.agent \in Agents /\ j.status \in Status
           /\ j.do \in {"ensure", "update", "query"} => j.tell \in BOOLEAN
           /\ j.do = "write" => j.keys \in SUBSET {"found", "checkpoint"} /\ j.new \in Pads
           /\ j.do = "finding" => j.finding \in Findings
           /\ j.do \in {"tick", "checkpoint"} => j.processed \in 0 .. MaxProcessed
<1>1. CASE j \in [do : {"ensure"}, named : Groups, count : 1 .. MaxAgents, tell : BOOLEAN]
  BY <1>1
<1>2. CASE j \in [do : {"update"}, agent : Agents, status : Status, tell : BOOLEAN]
  BY <1>2
<1>3. CASE j \in [do : {"query"}, tell : BOOLEAN]
  BY <1>3
<1>4. CASE j \in [do : {"write"}, keys : SUBSET {"found", "checkpoint"}, new : Pads]
  BY <1>4
<1>5. CASE j \in [do : {"finding"}, finding : Findings]
  BY <1>5
<1>6. CASE j \in [do : {"tick", "checkpoint"}, processed : 0 .. MaxProcessed]
  BY <1>6
<1> QED
  BY <1>1, <1>2, <1>3, <1>4, <1>5, <1>6 DEF Jobs

LEMMA GroupFacts ==
    ASSUME NEW g
    PROVE  /\ g \in Groups => /\ DOMAIN g \subseteq Agents
                              /\ \A a \in DOMAIN g : g[a] \in Status
           /\ \A A \in SUBSET Agents : g \in [A -> Status] => g \in Groups /\ DOMAIN g = A
  BY DEF Groups

LEMMA NoFile ==
    /\ Missing \notin Groups /\ Blank \notin Groups /\ Garbled \notin Groups
    /\ Missing \notin Pads /\ Blank \notin Pads /\ Garbled \notin Pads
    /\ Missing \notin Unreadable /\ Blank \in Unreadable /\ Garbled \in Unreadable
  BY OrchestrationAssumption DEF Unreadable

LEMMA SeedFacts ==
    ASSUME NEW j \in Jobs, j.do \in {"ensure", "update"}
    PROVE  Seed(j) \in Groups /\ DOMAIN Seed(j) # {}
<1> DEFINE A == SeedAgents(j)
           n == SeedCount(j)
           F == Filled(A, n)
<1>0. MaxAgents \in Nat /\ MaxAgents >= 1
  BY OrchestrationAssumption
<1>1. A \in SUBSET Agents /\ n \in 1 .. MaxAgents
  <2>1. CASE j.do = "ensure"
    BY <2>1, JobFacts, GroupFacts DEF SeedAgents, SeedCount
  <2>2. CASE j.do = "update"
    BY <1>0, <2>2 DEF SeedAgents, SeedCount
  <2> QED
    BY <2>1, <2>2
<1>2. \A a \in A : j.do = "ensure" /\ j.named[a] \in Status
  BY JobFacts, GroupFacts DEF SeedAgents
<1> HIDE DEF A, n
<1>3. Cardinality(A) \in Nat /\ (A = {} => Cardinality(A) = 0)
  <2>1. IsFiniteSet(Agents)
    BY <1>0, Positions DEF Agents
  <2> QED
    BY <1>1, <2>1, FS_Subset, FS_CardinalityType, FS_EmptySet
<1>4. F \in SUBSET Agents
  <2>1. Cardinality(A) + 1 .. n \subseteq 1 .. MaxAgents
    BY <1>0, <1>1, <1>3
  <2> QED
    BY <1>1, <2>1 DEF Filled, Agents
<1>5. F # {}
  <2>1. CASE A = {}
    <3>1. 1 \in Cardinality(A) + 1 .. n
      BY <1>1, <1>3, <2>1
    <3> QED
      BY <3>1 DEF Filled
  <2>2. CASE A # {}
    BY <2>2 DEF Filled
  <2> QED
    BY <2>1, <2>2
<1>6. Seed(j) = [a \in F |-> IF a \in A THEN j.named[a] ELSE "pending"]
  BY DEF Seed, A, n
<1> HIDE DEF F
<1>7. Seed(j) \in [F -> Status]
  BY <1>2, <1>6 DEF Status, Terminal
<1> QED
  BY <1>4, <1>5, <1>7, GroupFacts

LEMMA UpdatedFacts ==
    ASSUME NEW g \in Groups, NEW j \in Jobs, j.do = "update"
    PROVE  /\ Updated(g, j) \in Groups
           /\ DOMAIN Updated(g, j) = DOMAIN g \cup {j.agent}
           /\ Updated(g, j)[j.agent] = j.status
           /\ \A a \in DOMAIN g : a # j.agent => Updated(g, j)[a] = g[a]
<1>1. j.agent \in Agents /\ j.status \in Status
  BY JobFacts
<1>2. DOMAIN g \subseteq Agents /\ \A a \in DOMAIN g : g[a] \in Status
  BY GroupFacts
<1>3. Updated(g, j) \in [DOMAIN g \cup {j.agent} -> Status]
  BY <1>1, <1>2 DEF Updated
<1>4. DOMAIN g \cup {j.agent} \in SUBSET Agents
  BY <1>1, <1>2
<1>5. Updated(g, j) \in Groups
  BY <1>3, <1>4, GroupFacts
<1> QED
  BY <1>5 DEF Updated

LEMMA PadFacts ==
    ASSUME NEW s \in Pads
    PROVE  /\ s.found \in SUBSET Findings /\ s.checkpoint \in NoCheckpoint .. MaxProcessed
           /\ \A found \in SUBSET Findings : /\ [s EXCEPT !.found = found] \in Pads
                                             /\ [s EXCEPT !.found = found].found = found
                                             /\ [s EXCEPT !.found = found].checkpoint = s.checkpoint
           /\ \A n \in 0 .. MaxProcessed : /\ [s EXCEPT !.checkpoint = n] \in Pads
                                           /\ [s EXCEPT !.checkpoint = n].checkpoint = n
                                           /\ [s EXCEPT !.checkpoint = n].found = s.found
<1>1. s.found \in SUBSET Findings /\ s.checkpoint \in NoCheckpoint .. MaxProcessed
  BY DEF Pads
<1>2. MaxProcessed \in Nat
  BY OrchestrationAssumption
<1>3. \A n \in 0 .. MaxProcessed : n \in NoCheckpoint .. MaxProcessed
  BY <1>2 DEF NoCheckpoint
<1> QED
  BY <1>1, <1>3 DEF Pads

LEMMA LoadFacts ==
    ASSUME NEW f \in Pads \cup Unreadable \cup {Missing}
    PROVE  /\ LoadScratchpad(f) \in Pads
           /\ f \in Pads => LoadScratchpad(f) = f
           /\ f \notin Pads => LoadScratchpad(f) = EmptyPad
           /\ EmptyPad.found = {} /\ EmptyPad.checkpoint = NoCheckpoint
<1>1. MaxProcessed \in Nat
  BY OrchestrationAssumption
<1>2. NoCheckpoint \in NoCheckpoint .. MaxProcessed
  BY <1>1 DEF NoCheckpoint
<1>3. EmptyPad \in Pads /\ EmptyPad.found = {} /\ EmptyPad.checkpoint = NoCheckpoint
  BY <1>2 DEF EmptyPad, Pads
<1> QED
  BY <1>3, NoFile DEF LoadScratchpad, Unreadable

LEMMA MergedFacts ==
    ASSUME NEW s \in Pads, NEW new \in Pads, NEW keys
    PROVE  /\ Merged(s, keys, new) \in Pads
           /\ Merged(s, keys, new).found = IF "found" \in keys THEN new.found ELSE s.found
           /\ Merged(s, keys, new).checkpoint =
                 IF "checkpoint" \in keys THEN new.checkpoint ELSE s.checkpoint
<1> DEFINE f == IF "found" \in keys THEN new.found ELSE s.found
           c == IF "checkpoint" \in keys THEN new.checkpoint ELSE s.checkpoint
<1>1. f \in SUBSET Findings /\ c \in NoCheckpoint .. MaxProcessed
  BY PadFacts
<1>2. Merged(s, keys, new) = [found |-> f, checkpoint |-> c]
  BY DEF Merged
<1> HIDE DEF f, c
<1>3. /\ [found |-> f, checkpoint |-> c] \in Pads
      /\ [found |-> f, checkpoint |-> c].found = f
      /\ [found |-> f, checkpoint |-> c].checkpoint = c
  BY <1>1 DEF Pads
<1> QED
  BY <1>2, <1>3 DEF f, c

LEMMA PatchedFacts ==
    ASSUME NEW s \in Pads, NEW j \in Jobs, NEW found,
           j.do \notin {"ensure", "update", "query"}, j.do = "finding" => found \in SUBSET Findings
    PROVE  /\ Patched(s, j, found) \in Pads
           /\ j.do = "finding" => /\ Patched(s, j, found).found = found
                                  /\ Patched(s, j, found).checkpoint = s.checkpoint
           /\ j.do \in {"tick", "checkpoint"} =>
                 /\ Patched(s, j, found).found = s.found
                 /\ Patched(s, j, found).checkpoint = j.processed
           /\ j.do = "write" =>
                 /\ Patched(s, j, found).found = IF "found" \in j.keys THEN j.new.found ELSE s.found
                 /\ Patched(s, j, found).checkpoint =
                       IF "checkpoint" \in j.keys THEN j.new.checkpoint ELSE s.checkpoint
<1>1. CASE j.do = "finding"
  <2>1. Patched(s, j, found) = [s EXCEPT !.found = found]
    BY <1>1 DEF Patched
  <2>2. /\ [s EXCEPT !.found = found] \in Pads /\ [s EXCEPT !.found = found].found = found
        /\ [s EXCEPT !.found = found].checkpoint = s.checkpoint
    BY <1>1, PadFacts
  <2> QED
    BY <1>1, <2>1, <2>2
<1>2. CASE j.do \in {"tick", "checkpoint"}
  <2>1. Patched(s, j, found) = [s EXCEPT !.checkpoint = j.processed]
    BY <1>2 DEF Patched
  <2>2. j.processed \in 0 .. MaxProcessed
    BY <1>2, JobFacts
  <2>3. /\ [s EXCEPT !.checkpoint = j.processed] \in Pads
        /\ [s EXCEPT !.checkpoint = j.processed].checkpoint = j.processed
        /\ [s EXCEPT !.checkpoint = j.processed].found = s.found
    BY <2>2, PadFacts
  <2> QED
    BY <1>2, <2>1, <2>3
<1>3. CASE j.do = "write"
  <2>1. Patched(s, j, found) = Merged(s, j.keys, j.new)
    BY <1>3 DEF Patched
  <2>2. j.new \in Pads
    BY <1>3, JobFacts
  <2> QED
    BY <1>3, <2>1, <2>2, MergedFacts
<1> QED
  BY <1>1, <1>2, <1>3, JobFacts

(* What an answer acknowledges is in range, and nothing new if the job was *)
(* on the group.                                                           *)
LEMMA AnswerFacts ==
    ASSUME Typed, NEW j \in Jobs
    PROVE  /\ Acked(j) \subseteq Findings /\ Progress(j) \in 0 .. MaxProcessed
           /\ j.do \in {"ensure", "update", "query"} => Acked(j) = acked /\ Progress(j) = progress
<1>1. acked \subseteq Findings /\ progress \in 0 .. MaxProcessed /\ MaxProcessed \in Nat
  BY OrchestrationAssumption DEF Typed
<1>2. CASE j.do \in {"ensure", "update", "query"}
  BY <1>1, <1>2 DEF Acked, Progress
<1>3. CASE j.do = "finding"
  <2>1. j.finding \in Findings
    BY <1>3, JobFacts
  <2>2. Acked(j) = acked \cup {j.finding} /\ Progress(j) = progress
    BY <1>3 DEF Acked, Progress
  <2> QED
    BY <1>1, <1>3, <2>1, <2>2
<1>4. CASE j.do \in {"tick", "checkpoint"}
  <2>1. j.processed \in 0 .. MaxProcessed
    BY <1>4, JobFacts
  <2>2. Acked(j) = acked /\ Progress(j) = j.processed
    BY <1>4 DEF Acked, Progress
  <2> QED
    BY <1>1, <1>4, <2>1, <2>2
<1>5. CASE j.do = "write"
  <2>1. j.new \in Pads
    BY <1>5, JobFacts
  <2>2. j.new.found \in SUBSET Findings /\ j.new.checkpoint \in NoCheckpoint .. MaxProcessed
    BY <2>1, PadFacts
  <2>3. Acked(j) = acked \/ Acked(j) = j.new.found
    BY <1>5 DEF Acked
  <2>4. Progress(j) = progress \/ (j.new.checkpoint # NoCheckpoint /\ Progress(j) = j.new.checkpoint)
    BY <1>5 DEF Progress
  <2>5. j.new.checkpoint # NoCheckpoint => j.new.checkpoint \in 0 .. MaxProcessed
    BY <1>1, <2>2 DEF NoCheckpoint
  <2> QED
    BY <1>1, <1>5, <2>2, <2>3, <2>4, <2>5
<1> QED
  BY <1>2, <1>3, <1>4, <1>5, JobFacts

-----------------------------------------------------------------------------
(* Steps of one process.                                                   *)

Labels == {"idle", "load", "seed", "seeding", "merge", "save", "fill", "orphan", "return", "spin"}

LEMMA GotoFacts ==
    ASSUME Typed, NEW p \in Procs, NEW l \in Labels, Goto(p, l)
    PROVE  /\ pc' \in [Procs -> Labels] /\ pc'[p] = l
           /\ \A q \in Procs \ {p} : pc'[q] = pc[q]
  BY DEF Typed, TypeOK, Labels, Goto

LEMMA KeepFacts ==
    ASSUME Typed, NEW p \in Procs, NEW x, Keep(p, x)
    PROVE  /\ mem' = [q \in Procs |-> mem'[q]] /\ mem'[p] = x
           /\ \A q \in Procs \ {p} : mem'[q] = mem[q]
<1>1. DOMAIN mem = Procs
  BY DEF Typed
<1>2. DOMAIN mem' = Procs /\ mem' = [q \in DOMAIN mem' |-> mem'[q]]
  BY <1>1 DEF Keep
<1> QED
  BY <1>1, <1>2 DEF Keep

LEMMA BusyFacts ==
    ASSUME Typed, NEW p \in Procs, pc[p] # "idle"
    PROVE  /\ todo[p] \in Seq(Jobs) /\ todo[p] # <<>> /\ Job(p) \in Jobs /\ Job(p) = todo[p][1]
           /\ Len(todo[p]) \in Nat \ {0} /\ DOMAIN todo[p] = 1 .. Len(todo[p])
           /\ Tail(todo[p]) \in Seq(Jobs)
           /\ Tail(todo[p]) = <<>> <=> Len(todo[p]) = 1
           /\ DOMAIN Tail(todo[p]) = 1 .. Len(todo[p]) - 1
           /\ \A k \in 1 .. Len(todo[p]) - 1 : Tail(todo[p])[k] = todo[p][k + 1]
<1> DEFINE t == todo[p]
<1>1. t \in Seq(Jobs) /\ t # <<>>
  BY DEF Typed, TypeOK
<1> HIDE DEF t
<1>2. /\ Len(t) \in Nat \ {0} /\ DOMAIN t = 1 .. Len(t) /\ Head(t) \in Jobs /\ Head(t) = t[1]
  BY <1>1, LenProperties, HeadTailProperties, EmptySeq
<1>3. /\ Tail(t) \in Seq(Jobs) /\ Len(Tail(t)) = Len(t) - 1
      /\ \A k \in 1 .. Len(Tail(t)) : Tail(t)[k] = t[k + 1]
  BY <1>1, HeadTailProperties
<1>4. DOMAIN Tail(t) = 1 .. Len(t) - 1
  BY <1>3, LenProperties
<1>5. Tail(t) = <<>> <=> Len(t) = 1
  <2>1. Tail(t) = <<>> <=> Len(Tail(t)) = 0
    BY <1>3, EmptySeq
  <2> QED
    BY <1>2, <1>3, <2>1
<1> QED
  BY <1>1, <1>2, <1>3, <1>4, <1>5 DEF t, Job

(* What p does to its own state.                                           *)
Local(p) ==
    /\ pc' \in [Procs -> Labels] /\ todo' \in [Procs -> Seq(Jobs)]
    /\ mem' = [q \in Procs |-> mem'[q]]
    /\ \A q \in Procs \ {p} : pc'[q] = pc[q] /\ todo'[q] = todo[q] /\ mem'[q] = mem[q]
    /\ pc'[p] = "idle" <=> todo'[p] = <<>>
    /\ pc'[p] \in {"save", "fill"} /\ ~OnGroup(p)' => mem'[p] \in Pads
    /\ Holds(p)'

Ghosts ==
    /\ born \subseteq Agents /\ acked \subseteq Findings
    /\ last \in [Agents -> Status \cup {"none"}]
    /\ progress \in 0 .. MaxProcessed
    /\ calm \in BOOLEAN /\ told \in BOOLEAN /\ asked \in BOOLEAN /\ twice \in BOOLEAN
    /\ twice => born # {}

LEMMA LocalTyped ==
    ASSUME Typed, NEW p \in Procs, Local(p),
           group' \in Groups \cup Unreadable \cup {Missing},
           pad' \in Pads \cup Unreadable \cup {Missing}, Ghosts'
    PROVE  Typed'
<1>1. ASSUME NEW q \in Procs \ {p}
      PROVE  /\ Holds(q)' /\ (pc'[q] = "idle" <=> todo'[q] = <<>>)
             /\ pc'[q] \in {"save", "fill"} /\ ~OnGroup(q)' => mem'[q] \in Pads
  <2>1. pc'[q] = pc[q] /\ todo'[q] = todo[q] /\ mem'[q] = mem[q]
    BY DEF Local
  <2>2. (Job(q))' = Job(q) /\ (OnGroup(q))' = OnGroup(q)
    BY <2>1 DEF Job, OnGroup
  <2>3. Holds(q)'
    BY <2>1, <2>2 DEF Typed, Holds
  <2> QED
    BY <2>1, <2>2, <2>3 DEF Typed, TypeOK
<1>2. \A q \in Procs : /\ Holds(q)' /\ (pc'[q] = "idle" <=> todo'[q] = <<>>)
                       /\ pc'[q] \in {"save", "fill"} /\ ~OnGroup(q)' => mem'[q] \in Pads
  BY <1>1 DEF Local
<1>3. TypeOK'
  BY <1>2 DEF TypeOK, Local, Labels
<1> QED
  BY <1>2, <1>3 DEF Typed, Local, Ghosts

(* A step that leaves the list of jobs alone.                              *)
LEMMA SameJob ==
    ASSUME Typed, NEW p \in Procs, todo' = todo
    PROVE  (Job(p))' = Job(p) /\ (OnGroup(p) <=> OnGroup(p)')
  BY DEF Job, OnGroup

LEMMA StartLocal ==
    ASSUME Typed, NEW p \in Procs, Start(p)
    PROVE  Local(p) /\ pc'[p] = "load"
<1>1. PICK ops \in Programs : /\ todo' = [todo EXCEPT ![p] = ops] /\ Goto(p, "load") /\ mem' = mem
  BY DEF Start
<1>2. ops \in Seq(Jobs) /\ ops # <<>>
  BY OrchestrationAssumption
<1>3. /\ pc' \in [Procs -> Labels] /\ pc'[p] = "load" /\ \A q \in Procs \ {p} : pc'[q] = pc[q]
  BY <1>1, GotoFacts DEF Labels
<1>4. /\ todo' \in [Procs -> Seq(Jobs)] /\ todo'[p] = ops
      /\ \A q \in Procs \ {p} : todo'[q] = todo[q]
  BY <1>1, <1>2 DEF Typed
<1>5. mem' = [q \in Procs |-> mem'[q]]
  BY <1>1 DEF Typed
<1>6. Holds(p)'
  BY <1>3 DEF Holds
<1> QED
  BY <1>1, <1>2, <1>3, <1>4, <1>5, <1>6 DEF Local

(* A process that stops.                                                   *)
LEMMA StopLocal ==
    ASSUME Typed, NEW p \in Procs, Goto(p, "idle"), todo' = [todo EXCEPT ![p] = <<>>],
           mem' = mem \/ Keep(p, Nothing)
    PROVE  Local(p) /\ pc'[p] = "idle"
<1>1. /\ pc' \in [Procs -> Labels] /\ pc'[p] = "idle" /\ \A q \in Procs \ {p} : pc'[q] = pc[q]
  BY GotoFacts DEF Labels
<1>2. /\ todo' \in [Procs -> Seq(Jobs)] /\ todo'[p] = <<>>
      /\ \A q \in Procs \ {p} : todo'[q] = todo[q]
  <2>1. <<>> \in Seq(Jobs)
    OBVIOUS
  <2> QED
    BY <2>1 DEF Typed
<1>3. mem' = [q \in Procs |-> mem'[q]] /\ \A q \in Procs \ {p} : mem'[q] = mem[q]
  <2>1. CASE mem' = mem
    BY <2>1 DEF Typed
  <2>2. CASE Keep(p, Nothing)
    BY <2>2, KeepFacts
  <2> QED
    BY <2>1, <2>2
<1>4. Holds(p)'
  BY <1>1 DEF Holds
<1> QED
  BY <1>1, <1>2, <1>3, <1>4 DEF Local

(* On to the next job.                                                     *)
LEMMA NextJobLocal ==
    ASSUME Typed, NEW p \in Procs, pc[p] # "idle", NextJob(p)
    PROVE  /\ Local(p) /\ todo'[p] = Tail(todo[p])
           /\ pc'[p] = IF Len(todo[p]) = 1 THEN "idle" ELSE "load"
<1>1. Tail(todo[p]) \in Seq(Jobs) /\ (Tail(todo[p]) = <<>> <=> Len(todo[p]) = 1)
  BY BusyFacts
<1> DEFINE l == IF Len(todo[p]) = 1 THEN "idle" ELSE "load"
<1>2. l \in Labels /\ l \in {"idle", "load"} /\ (l = "idle" <=> Len(todo[p]) = 1)
  BY DEF Labels
<1>3. Goto(p, l)
  BY DEF NextJob
<1> HIDE DEF l
<1>4. /\ pc' \in [Procs -> Labels] /\ pc'[p] = l /\ \A q \in Procs \ {p} : pc'[q] = pc[q]
  BY <1>2, <1>3, GotoFacts
<1>5. /\ todo' \in [Procs -> Seq(Jobs)] /\ todo'[p] = Tail(todo[p])
      /\ \A q \in Procs \ {p} : todo'[q] = todo[q]
  BY <1>1 DEF NextJob, Typed
<1>6. mem' = [q \in Procs |-> mem'[q]] /\ \A q \in Procs \ {p} : mem'[q] = mem[q]
  BY KeepFacts DEF NextJob
<1>7. Holds(p)'
  BY <1>2, <1>4 DEF Holds
<1>8. Local(p)
  BY <1>1, <1>2, <1>4, <1>5, <1>6, <1>7 DEF Local
<1> QED
  BY <1>4, <1>5, <1>8 DEF l

(* A step within a job.                                                    *)
LEMMA StayLocal ==
    ASSUME Typed, NEW p \in Procs, pc[p] # "idle", todo' = todo,
           NEW l \in Labels \ {"idle"}, Goto(p, l),
           mem' = mem \/ (\E x : Keep(p, x)),
           l \in {"save", "fill"} /\ ~OnGroup(p) => mem'[p] \in Pads,
           Holds(p)'
    PROVE  Local(p) /\ pc'[p] = l
<1>1. /\ pc' \in [Procs -> Labels] /\ pc'[p] = l /\ \A q \in Procs \ {p} : pc'[q] = pc[q]
  BY GotoFacts
<1>2. todo' \in [Procs -> Seq(Jobs)] /\ todo'[p] # <<>>
  BY BusyFacts DEF Typed
<1>3. mem' = [q \in Procs |-> mem'[q]] /\ \A q \in Procs \ {p} : mem'[q] = mem[q]
  <2>1. CASE mem' = mem
    BY <2>1 DEF Typed
  <2>2. CASE \E x : Keep(p, x)
    BY <2>2, KeepFacts
  <2> QED
    BY <2>1, <2>2
<1>4. OnGroup(p) <=> OnGroup(p)'
  BY SameJob
<1> QED
  BY <1>1, <1>2, <1>3, <1>4 DEF Local

-----------------------------------------------------------------------------
(* Each step keeps the types.                                              *)

LEMMA InitTyped == Init => Typed
<1> SUFFICES ASSUME Init PROVE Typed
  OBVIOUS
<1>1. <<>> \in Seq(Jobs) /\ 0 \in 0 .. MaxProcessed
  BY OrchestrationAssumption
<1>2. TypeOK
  BY DEF Init, TypeOK
<1>3. \A p \in Procs : Holds(p)
  BY DEF Init, Holds
<1>4. last \in [Agents -> Status \cup {"none"}] /\ todo \in [Procs -> Seq(Jobs)]
  BY <1>1 DEF Init
<1> QED
  BY <1>1, <1>2, <1>3, <1>4 DEF Init, Typed

LEMMA SameGhosts == ASSUME Typed, UNCHANGED ghosts PROVE Ghosts'
  BY DEF Typed, Ghosts, ghosts

LEMMA StartTyped == ASSUME Typed, NEW p \in Procs, Start(p) PROVE Typed'
<1>1. UNCHANGED <<files, born, twice, last, told, asked, acked, progress>> /\ calm' = (calm /\ AllIdle)
  BY DEF Start
<1>2. Ghosts'
  BY <1>1 DEF Typed, Ghosts
<1> QED
  BY <1>1, <1>2, StartLocal, LocalTyped DEF files, Typed, TypeOK

LEMMA CrashTyped == ASSUME Typed, NEW p \in Procs, Crash(p) PROVE Typed'
<1>1. /\ UNCHANGED <<files, born, twice, last, told, asked, acked, progress>> /\ calm' = FALSE
      /\ Goto(p, "idle") /\ todo' = [todo EXCEPT ![p] = <<>>] /\ Keep(p, Nothing)
  BY DEF Crash, Stop
<1>2. Ghosts'
  BY <1>1 DEF Typed, Ghosts
<1> QED
  BY <1>1, <1>2, StopLocal, LocalTyped DEF files, Typed, TypeOK

LEMMA CleanupTyped == ASSUME Typed, Cleanup PROVE Typed'
<1>1. /\ pad' = Missing /\ UNCHANGED <<group, todo, mem, born, twice, last, told, asked>>
      /\ pc' = [p \in Procs |-> IF pc[p] = "fill" /\ ~OnGroup(p) THEN "orphan" ELSE pc[p]]
      /\ acked' = {} /\ progress' = 0 /\ calm' = (calm /\ AllIdle)
  BY DEF Cleanup
<1>2. 0 \in 0 .. MaxProcessed
  BY OrchestrationAssumption
<1>3. pc' \in [Procs -> Labels]
  BY <1>1 DEF Typed, TypeOK, Labels
<1>4. ASSUME NEW p \in Procs
      PROVE  /\ Holds(p)' /\ (pc'[p] = "idle" <=> todo'[p] = <<>>)
             /\ pc'[p] \in {"save", "fill"} /\ ~OnGroup(p)' => mem'[p] \in Pads
  <2>1. (Job(p))' = Job(p) /\ (OnGroup(p) <=> OnGroup(p)')
    BY <1>1, SameJob
  <2>2. CASE pc[p] = "fill" /\ ~OnGroup(p)
    <3>1. pc'[p] = "orphan"
      BY <1>1, <2>2
    <3> QED
      BY <1>1, <2>1, <2>2, <3>1 DEF Holds, Typed, TypeOK
  <2>3. CASE ~(pc[p] = "fill" /\ ~OnGroup(p))
    <3>1. pc'[p] = pc[p] /\ mem'[p] = mem[p] /\ todo'[p] = todo[p]
      BY <1>1, <2>3
    <3>2. Holds(p) /\ (pc[p] = "idle" <=> todo[p] = <<>>)
          /\ (pc[p] \in {"save", "fill"} /\ ~OnGroup(p) => mem[p] \in Pads)
      BY DEF Typed, TypeOK
    <3>3. Holds(p)'
      BY <2>1, <3>1, <3>2 DEF Holds
    <3> QED
      BY <2>1, <3>1, <3>2, <3>3
  <2> QED
    BY <2>2, <2>3
<1>5. TypeOK'
  BY <1>1, <1>3, <1>4 DEF Typed, TypeOK, Labels
<1> QED
  BY <1>1, <1>2, <1>4, <1>5 DEF Typed

LEMMA LoadFailsTyped ==
    ASSUME Typed, NEW p \in Procs, LoadFails(p)
    PROVE  Typed' /\ Local(p) /\ pc'[p] = "idle"
<1>1. /\ UNCHANGED <<files, mem, ghosts>> /\ Goto(p, "idle")
      /\ todo' = [todo EXCEPT ![p] = <<>>]
  BY DEF LoadFails
<1>2. Local(p) /\ pc'[p] = "idle"
  BY <1>1, StopLocal
<1> QED
  BY <1>1, <1>2, SameGhosts, LocalTyped DEF files, Typed, TypeOK

LEMMA LoadMissingTyped ==
    ASSUME Typed, NEW p \in Procs, LoadMissing(p)
    PROVE  Typed' /\ Local(p) /\ pc'[p] \in {"spin", "seed"}
<1>1. /\ UNCHANGED <<files, todo, ghosts>> /\ pc[p] = "load" /\ OnGroup(p)
      /\ Job(p).do \in {"ensure", "update"}
  BY DEF LoadMissing, OnGroup
<1>2. (Job(p))' = Job(p) /\ (OnGroup(p) <=> OnGroup(p)')
  BY <1>1, SameJob
<1>3. Local(p) /\ pc'[p] \in {"spin", "seed"}
  <2>1. CASE Goto(p, "spin") /\ UNCHANGED mem
    <3>1. pc'[p] = "spin"
      BY <2>1, GotoFacts DEF Labels
    <3>2. Holds(p)'
      BY <3>1 DEF Holds
    <3>3. "spin" \in Labels \ {"idle"} /\ mem' = mem
      BY <2>1 DEF Labels
    <3> QED
      BY <1>1, <2>1, <3>2, <3>3, StayLocal
  <2>2. CASE Goto(p, "seed") /\ Keep(p, Seed(Job(p)))
    <3>1. pc'[p] = "seed" /\ mem'[p] = Seed(Job(p))
      BY <2>2, GotoFacts, KeepFacts DEF Labels
    <3>2. Holds(p)'
      BY <1>1, <1>2, <3>1 DEF Holds
    <3>3. "seed" \in Labels \ {"idle"} /\ \E x : Keep(p, x)
      BY <2>2 DEF Labels
    <3> QED
      BY <1>1, <2>2, <3>2, <3>3, StayLocal
  <2> QED
    BY <2>1, <2>2 DEF LoadMissing
<1> QED
  BY <1>1, <1>3, SameGhosts, LocalTyped DEF files, Typed, TypeOK

LEMMA LoadExistingTyped ==
    ASSUME Typed, NEW p \in Procs, LoadExisting(p)
    PROVE  /\ Typed' /\ Local(p) /\ group \in Groups
           /\ \/ /\ Job(p).do = "update" /\ pc'[p] = "save"
                 /\ mem'[p] = Updated(group, Job(p))
              \/ /\ Job(p).do # "update" /\ pc'[p] = "return" /\ mem'[p] = group
<1>1. /\ UNCHANGED <<files, todo, ghosts>> /\ pc[p] = "load" /\ OnGroup(p) /\ group \in Groups
  BY DEF LoadExisting, Typed, TypeOK
<1>2. (Job(p))' = Job(p) /\ (OnGroup(p) <=> OnGroup(p)') /\ Job(p) \in Jobs
  BY <1>1, SameJob, BusyFacts
<1>3. CASE Job(p).do = "update"
  <2>1. Goto(p, "save") /\ Keep(p, Updated(group, Job(p)))
    BY <1>3 DEF LoadExisting
  <2>2. pc'[p] = "save" /\ mem'[p] = Updated(group, Job(p))
    BY <2>1, GotoFacts, KeepFacts DEF Labels
  <2>3. mem'[p] \in Groups
    BY <1>1, <1>2, <1>3, <2>2, UpdatedFacts
  <2>4. Holds(p)'
    BY <1>2, <1>3, <2>2, <2>3 DEF Holds
  <2>5. "save" \in Labels \ {"idle"} /\ \E x : Keep(p, x)
    BY <2>1 DEF Labels
  <2>6. Local(p)
    BY <1>1, <2>1, <2>4, <2>5, StayLocal
  <2> QED
    BY <1>1, <1>3, <2>2, <2>6, SameGhosts, LocalTyped DEF files, Typed, TypeOK
<1>4. CASE Job(p).do # "update"
  <2>1. Goto(p, "return") /\ Keep(p, group)
    BY <1>4 DEF LoadExisting
  <2>2. pc'[p] = "return" /\ mem'[p] = group
    BY <2>1, GotoFacts, KeepFacts DEF Labels
  <2>4. Holds(p)'
    BY <1>1, <1>2, <1>4, <2>2 DEF Holds
  <2>5. "return" \in Labels \ {"idle"} /\ \E x : Keep(p, x)
    BY <2>1 DEF Labels
  <2>6. Local(p)
    BY <1>1, <2>1, <2>4, <2>5, StayLocal
  <2> QED
    BY <1>1, <1>4, <2>2, <2>6, SameGhosts, LocalTyped DEF files, Typed, TypeOK
<1> QED
  BY <1>3, <1>4

LEMMA TruncateTyped ==
    ASSUME Typed, NEW p \in Procs, Truncate(p)
    PROVE  /\ Typed' /\ Local(p) /\ mem' = mem /\ todo' = todo
           /\ pc'[p] = IF pc[p] = "seed" THEN "seeding" ELSE "fill"
           /\ OnGroup(p) => group' = Blank /\ pad' = pad
           /\ ~OnGroup(p) => pad' = Blank /\ group' = group /\ pc[p] = "save"
<1> DEFINE l == IF pc[p] = "seed" THEN "seeding" ELSE "fill"
<1>1. /\ UNCHANGED <<todo, mem, ghosts>> /\ pc[p] \in {"seed", "save"} /\ Goto(p, l)
      /\ OnGroup(p) => group' = Blank /\ pad' = pad
      /\ ~OnGroup(p) => pad' = Blank /\ group' = group
  BY DEF Truncate
<1>2. (Job(p))' = Job(p) /\ (OnGroup(p) <=> OnGroup(p)')
  BY <1>1, SameJob
<1>3. /\ l \in Labels \ {"idle"} /\ l \in {"seeding", "fill"}
      /\ (l = "seeding" <=> pc[p] = "seed")
  BY DEF Labels
<1> HIDE DEF l
<1>4. pc'[p] = l
  BY <1>1, <1>3, GotoFacts
<1>5. Holds(p) /\ (pc[p] = "save" /\ ~OnGroup(p) => mem[p] \in Pads)
  BY DEF Typed, TypeOK
<1>6. pc[p] = "seed" => OnGroup(p)
  BY <1>5 DEF Holds, OnGroup
<1>7. Holds(p)'
  <2>1. mem'[p] = mem[p]
    BY <1>1
  <2> QED
    BY <1>1, <1>2, <1>3, <1>4, <1>5, <2>1 DEF Holds
<1>8. Local(p)
  BY <1>1, <1>3, <1>5, <1>6, <1>7, StayLocal
<1>9. Typed'
  <2>1. group' \in Groups \cup Unreadable \cup {Missing} /\ pad' \in Pads \cup Unreadable \cup {Missing}
    BY <1>1, NoFile DEF Typed, TypeOK
  <2> QED
    BY <1>1, <1>8, <2>1, SameGhosts, LocalTyped
<1> QED
  BY <1>1, <1>4, <1>6, <1>8, <1>9 DEF l

LEMMA FillSeedTyped ==
    ASSUME Typed, NEW p \in Procs, FillSeed(p)
    PROVE  /\ Typed' /\ Local(p) /\ pc[p] = "seeding" /\ OnGroup(p)
           /\ mem[p] \in Groups /\ DOMAIN mem[p] # {} /\ mem[p] = Seed(Job(p))
           /\ group' \in Written(group, mem[p]) /\ todo' = todo
           /\ \/ /\ Job(p).do = "update" /\ pc'[p] = "save"
                 /\ mem'[p] = Updated(mem[p], Job(p))
              \/ /\ Job(p).do = "ensure" /\ pc'[p] = "return" /\ mem'[p] = mem[p]
<1>1. /\ UNCHANGED <<pad, todo, calm, last, told, acked, progress>> /\ pc[p] = "seeding"
      /\ asked' = FALSE
      /\ born' = (IF born = {} THEN DOMAIN mem[p] ELSE born) /\ twice' = (born # {})
      /\ group' \in Written(group, mem[p])
  BY DEF FillSeed
<1>2. (Job(p))' = Job(p) /\ (OnGroup(p) <=> OnGroup(p)') /\ Job(p) \in Jobs
  BY <1>1, SameJob, BusyFacts
<1>3. Job(p).do \in {"ensure", "update"} /\ mem[p] = Seed(Job(p)) /\ OnGroup(p)
  BY <1>1 DEF Typed, Holds, OnGroup
<1>4. mem[p] \in Groups /\ DOMAIN mem[p] # {}
  BY <1>2, <1>3, SeedFacts
<1>5. Ghosts'
  BY <1>1, <1>4, GroupFacts DEF Typed, Ghosts
<1>6. group' \in Groups \cup Unreadable \cup {Missing} /\ pad' \in Pads \cup Unreadable \cup {Missing}
  BY <1>1, <1>4, NoFile DEF Typed, TypeOK, Written
<1>7. CASE Job(p).do = "update"
  <2>1. Goto(p, "save") /\ Keep(p, Updated(mem[p], Job(p)))
    BY <1>7 DEF FillSeed
  <2>2. pc'[p] = "save" /\ mem'[p] = Updated(mem[p], Job(p))
    BY <2>1, GotoFacts, KeepFacts DEF Labels
  <2>3. mem'[p] \in Groups
    BY <1>2, <1>4, <1>7, <2>2, UpdatedFacts
  <2>4. Holds(p)'
    BY <1>2, <1>7, <2>2, <2>3 DEF Holds
  <2>5. "save" \in Labels \ {"idle"} /\ \E x : Keep(p, x)
    BY <2>1 DEF Labels
  <2>6. Local(p)
    BY <1>1, <1>3, <2>1, <2>4, <2>5, StayLocal
  <2> QED
    BY <1>1, <1>3, <1>4, <1>5, <1>6, <1>7, <2>2, <2>6, LocalTyped
<1>8. CASE Job(p).do = "ensure"
  <2>1. Goto(p, "return") /\ mem' = mem
    BY <1>8 DEF FillSeed
  <2>2. pc'[p] = "return" /\ mem'[p] = mem[p]
    BY <2>1, GotoFacts DEF Labels
  <2>4. Holds(p)'
    BY <1>2, <1>4, <1>8, <2>2 DEF Holds
  <2>5. "return" \in Labels \ {"idle"}
    BY DEF Labels
  <2>6. Local(p)
    BY <1>1, <2>1, <2>4, <2>5, StayLocal
  <2> QED
    BY <1>1, <1>3, <1>4, <1>5, <1>6, <1>8, <2>2, <2>6, LocalTyped
<1> QED
  BY <1>3, <1>7, <1>8

(* The three steps to "return" that keep the copy.                         *)
LEMMA ToReturn ==
    ASSUME Typed, NEW p \in Procs, pc[p] # "idle", todo' = todo, mem' = mem, Goto(p, "return"),
           OnGroup(p) => mem[p] \in Groups
    PROVE  Local(p) /\ pc'[p] = "return"
<1>1. pc'[p] = "return" /\ "return" \in Labels \ {"idle"}
  BY GotoFacts DEF Labels
<1>2. (Job(p))' = Job(p) /\ (OnGroup(p) <=> OnGroup(p)')
  BY SameJob
<1>3. Holds(p)'
  BY <1>1, <1>2 DEF Holds
<1> QED
  BY <1>1, <1>3, StayLocal

LEMMA FillGroupTyped ==
    ASSUME Typed, NEW p \in Procs, FillGroup(p)
    PROVE  /\ Typed' /\ Local(p) /\ pc[p] = "fill" /\ OnGroup(p) /\ Job(p).do = "update"
           /\ mem[p] \in Groups /\ pc'[p] = "return" /\ mem' = mem /\ todo' = todo
           /\ group' \in Written(group, mem[p])
<1>1. /\ UNCHANGED <<pad, todo, mem, calm, born, twice, last, acked, progress>>
      /\ pc[p] = "fill" /\ OnGroup(p) /\ group' \in Written(group, mem[p])
      /\ told' = (told /\ Complete(mem[p])) /\ asked' = FALSE /\ Goto(p, "return")
  BY DEF FillGroup
<1>2. Job(p).do = "update" /\ mem[p] \in Groups
  BY <1>1 DEF Typed, Holds
<1>3. Local(p) /\ pc'[p] = "return"
  BY <1>1, <1>2, ToReturn
<1>4. Ghosts'
  <2>1. told' \in BOOLEAN
    BY <1>1
  <2> QED
    BY <1>1, <2>1 DEF Typed, Ghosts
<1>5. group' \in Groups \cup Unreadable \cup {Missing} /\ pad' \in Pads \cup Unreadable \cup {Missing}
  BY <1>1, <1>2, NoFile DEF Typed, TypeOK, Written
<1> QED
  BY <1>1, <1>2, <1>3, <1>4, <1>5, LocalTyped

LEMMA FillPadTyped ==
    ASSUME Typed, NEW p \in Procs, FillPad(p)
    PROVE  /\ Typed' /\ Local(p) /\ pc[p] = "fill" /\ ~OnGroup(p) /\ mem[p] \in Pads
           /\ pc'[p] = "return" /\ mem' = mem /\ todo' = todo
           /\ pad' \in Written(pad, mem[p])
<1>1. /\ UNCHANGED <<group, todo, mem, ghosts>>
      /\ pc[p] = "fill" /\ ~OnGroup(p) /\ pad' \in Written(pad, mem[p]) /\ Goto(p, "return")
  BY DEF FillPad
<1>2. mem[p] \in Pads
  BY <1>1 DEF Typed, TypeOK
<1>3. Local(p) /\ pc'[p] = "return"
  BY <1>1, <1>2, ToReturn
<1>4. group' \in Groups \cup Unreadable \cup {Missing} /\ pad' \in Pads \cup Unreadable \cup {Missing}
  BY <1>1, <1>2, NoFile DEF Typed, TypeOK, Written
<1> QED
  BY <1>1, <1>2, <1>3, <1>4, SameGhosts, LocalTyped

LEMMA FillRemovedTyped ==
    ASSUME Typed, NEW p \in Procs, FillRemoved(p)
    PROVE  Typed' /\ Local(p) /\ pc[p] = "orphan" /\ pc'[p] = "return" /\ ~OnGroup(p) /\ todo' = todo
<1>1. /\ UNCHANGED <<files, todo, mem, ghosts>> /\ pc[p] = "orphan" /\ Goto(p, "return")
  BY DEF FillRemoved
<1>2. ~OnGroup(p)
  BY <1>1 DEF Typed, Holds
<1>3. Local(p) /\ pc'[p] = "return"
  BY <1>1, <1>2, ToReturn
<1> QED
  BY <1>1, <1>2, <1>3, SameGhosts, LocalTyped DEF files, Typed, TypeOK

LEMMA ReturnTyped ==
    ASSUME Typed, NEW p \in Procs, Return(p)
    PROVE  /\ Typed' /\ Local(p) /\ pc[p] = "return" /\ todo'[p] = Tail(todo[p])
           /\ pc'[p] = IF Len(todo[p]) = 1 THEN "idle" ELSE "load"
           /\ last' = LastAfter(p) /\ acked' = Acked(Job(p)) /\ progress' = Progress(Job(p))
<1>1. /\ UNCHANGED <<files, calm, born, twice>> /\ pc[p] = "return" /\ NextJob(p)
      /\ told' = (told \/ (OnGroup(p) /\ Job(p).tell /\ Complete(mem[p])))
      /\ asked' = (asked \/ (OnGroup(p) /\ Job(p).tell))
      /\ last' = LastAfter(p) /\ acked' = Acked(Job(p)) /\ progress' = Progress(Job(p))
  BY DEF Return, LastAfter
<1>2. /\ Local(p) /\ todo'[p] = Tail(todo[p])
      /\ pc'[p] = IF Len(todo[p]) = 1 THEN "idle" ELSE "load"
  BY <1>1, NextJobLocal
<1>3. Job(p) \in Jobs
  BY <1>1, BusyFacts
<1>4. LastAfter(p) \in [Agents -> Status \cup {"none"}]
  BY <1>3, JobFacts DEF Typed, LastAfter
<1>5. Acked(Job(p)) \subseteq Findings /\ Progress(Job(p)) \in 0 .. MaxProcessed
  BY <1>3, AnswerFacts
<1>6. told' \in BOOLEAN /\ asked' \in BOOLEAN
  BY <1>1 DEF Typed
<1>7. Ghosts'
  BY <1>1, <1>4, <1>5, <1>6 DEF Typed, Ghosts
<1> QED
  BY <1>1, <1>2, <1>7, LocalTyped DEF files, Typed, TypeOK

LEMMA ReadFindingsTyped ==
    ASSUME Typed, NEW p \in Procs, ReadFindings(p)
    PROVE  /\ Typed' /\ Local(p) /\ pc'[p] = "merge" /\ todo' = todo /\ ~OnGroup(p)
           /\ mem'[p] = LoadScratchpad(pad).found \cup {Job(p).finding}
<1> DEFINE x == LoadScratchpad(pad).found \cup {Job(p).finding}
<1>1. /\ UNCHANGED <<files, todo, ghosts>> /\ pc[p] = "load" /\ Job(p).do = "finding"
      /\ Goto(p, "merge") /\ Keep(p, x)
  BY DEF ReadFindings
<1>2. (Job(p))' = Job(p) /\ Job(p) \in Jobs /\ ~OnGroup(p)
  BY <1>1, SameJob, BusyFacts DEF OnGroup
<1>3. x \in SUBSET Findings
  BY <1>1, <1>2, JobFacts, LoadFacts, PadFacts DEF Typed, TypeOK
<1>4. pc'[p] = "merge" /\ mem'[p] = x /\ "merge" \in Labels \ {"idle"}
  BY <1>1, GotoFacts, KeepFacts DEF Labels
<1> HIDE DEF x
<1>5. Holds(p)'
  BY <1>1, <1>2, <1>3, <1>4 DEF Holds
<1>6. Local(p)
  BY <1>1, <1>4, <1>5, StayLocal
<1> QED
  BY <1>1, <1>2, <1>4, <1>6, SameGhosts, LocalTyped DEF files, Typed, TypeOK, x

LEMMA DecideTyped ==
    ASSUME Typed, NEW p \in Procs, Decide(p)
    PROVE  /\ Typed' /\ Local(p) /\ todo' = todo /\ mem' = mem /\ ~OnGroup(p)
           /\ pc'[p] \in {"merge", "return"}
           /\ pc'[p] = "return" =>
                \E late \in BOOLEAN : ~ShouldCheckpoint(LoadScratchpad(pad), Job(p).processed, late)
<1>1. PICK late \in BOOLEAN :
         /\ pc[p] = "load" /\ Job(p).do = "tick"
         /\ Goto(p, IF ShouldCheckpoint(LoadScratchpad(pad), Job(p).processed, late)
                    THEN "merge" ELSE "return")
         /\ UNCHANGED <<files, todo, mem, ghosts>>
  BY DEF Decide
<1> DEFINE l == IF ShouldCheckpoint(LoadScratchpad(pad), Job(p).processed, late)
                THEN "merge" ELSE "return"
<1>2. /\ l \in Labels \ {"idle"} /\ l \in {"merge", "return"} /\ Goto(p, l)
      /\ l = "return" => ~ShouldCheckpoint(LoadScratchpad(pad), Job(p).processed, late)
  BY <1>1 DEF Labels
<1> HIDE DEF l
<1>3. pc'[p] = l
  BY <1>2, GotoFacts
<1>4. (Job(p))' = Job(p) /\ ~OnGroup(p) /\ ~OnGroup(p)'
  BY <1>1, SameJob DEF OnGroup
<1>5. Holds(p)'
  BY <1>1, <1>2, <1>3, <1>4 DEF Holds
<1>6. Local(p)
  BY <1>1, <1>2, <1>5, StayLocal
<1> QED
  BY <1>1, <1>2, <1>3, <1>4, <1>6, SameGhosts, LocalTyped DEF files, Typed, TypeOK

LEMMA MergePatchTyped ==
    ASSUME Typed, NEW p \in Procs, MergePatch(p)
    PROVE  /\ Typed' /\ Local(p) /\ todo' = todo /\ ~OnGroup(p) /\ pc'[p] = "save"
           /\ mem'[p] = Patched(LoadScratchpad(pad), Job(p), mem[p]) /\ mem'[p] \in Pads
           /\ Job(p).do = "finding" => pc[p] = "merge" /\ mem[p] \in SUBSET Findings
<1> DEFINE x == Patched(LoadScratchpad(pad), Job(p), mem[p])
<1>1. /\ UNCHANGED <<files, todo, ghosts>> /\ pc[p] \in {"merge", "load"}
      /\ Goto(p, "save") /\ Keep(p, x)
      /\ pc[p] = "load" => Job(p).do \in {"write", "checkpoint"}
  BY DEF MergePatch
<1>2. (Job(p))' = Job(p) /\ Job(p) \in Jobs
  BY <1>1, SameJob, BusyFacts
<1>3. /\ Job(p).do \in {"write", "finding", "tick", "checkpoint"} /\ ~OnGroup(p) /\ ~OnGroup(p)'
      /\ Job(p).do = "finding" => pc[p] = "merge" /\ mem[p] \in SUBSET Findings
  BY <1>1, <1>2 DEF Typed, Holds, OnGroup
<1>4. x \in Pads
  <2>1. LoadScratchpad(pad) \in Pads
    BY LoadFacts DEF Typed, TypeOK
  <2> QED
    BY <1>2, <1>3, <2>1, PatchedFacts
<1>5. pc'[p] = "save" /\ mem'[p] = x /\ "save" \in Labels \ {"idle"}
  BY <1>1, GotoFacts, KeepFacts DEF Labels
<1> HIDE DEF x
<1>6. Holds(p)'
  BY <1>2, <1>3, <1>5 DEF Holds
<1>7. Local(p)
  BY <1>1, <1>4, <1>5, <1>6, StayLocal
<1> QED
  BY <1>1, <1>3, <1>4, <1>5, <1>7, SameGhosts, LocalTyped DEF files, Typed, TypeOK, x

LEMMA SaveFailsTyped ==
    ASSUME Typed, NEW p \in Procs, SaveFails(p)
    PROVE  /\ Typed' /\ Local(p) /\ pc'[p] \in {"idle", "load"} /\ ~calm'
           /\ group' = group \/ group' = Garbled
<1>1. /\ pc[p] # "idle" /\ (NextJob(p) \/ Stop(p)) /\ calm' = FALSE
      /\ group' = group \/ group' = Garbled
      /\ pad' = pad \/ pad' = Garbled
      /\ UNCHANGED <<born, twice, last, told, asked, acked, progress>>
  BY DEF SaveFails
<1>2. Local(p) /\ pc'[p] \in {"idle", "load"}
  <2>1. CASE NextJob(p)
    BY <1>1, <2>1, NextJobLocal
  <2>2. CASE Stop(p)
    BY <2>2, StopLocal DEF Stop
  <2> QED
    BY <1>1, <2>1, <2>2
<1>3. Ghosts'
  BY <1>1 DEF Typed, Ghosts
<1>4. group' \in Groups \cup Unreadable \cup {Missing} /\ pad' \in Pads \cup Unreadable \cup {Missing}
  BY <1>1, NoFile DEF Typed, TypeOK
<1> QED
  BY <1>1, <1>2, <1>3, <1>4, LocalTyped

LEMMA NextTyped == Typed /\ [Next]_vars => Typed'
<1> SUFFICES ASSUME Typed, [Next]_vars PROVE Typed'
  OBVIOUS
<1>1. ASSUME NEW p \in Procs, Start(p) \/ Step(p) \/ Crash(p) PROVE Typed'
  BY <1>1, StartTyped, CrashTyped, LoadFailsTyped, LoadMissingTyped, LoadExistingTyped,
     TruncateTyped, FillSeedTyped, FillGroupTyped, FillPadTyped, FillRemovedTyped, ReturnTyped,
     SaveFailsTyped, ReadFindingsTyped, DecideTyped, MergePatchTyped DEF Step
<1>2. CASE Cleanup
  BY <1>2, CleanupTyped
<1>3. CASE UNCHANGED vars
  BY <1>3 DEF vars, files, ghosts, Typed, TypeOK, Holds, OnGroup, Job
<1> QED
  BY <1>1, <1>2, <1>3 DEF Next

LEMMA TypedHolds == Spec => []Typed
  BY InitTyped, NextTyped, PTL DEF Spec

-----------------------------------------------------------------------------
(* No step notifies early.                                                 *)

LEMMA BackedGrows ==
    ASSUME NEW g, NEW B, NEW R, Backed(g, B, R), NEW S, R \subseteq S
    PROVE  Backed(g, B, S)
  BY DEF Backed

LEMMA BackedUpdate ==
    ASSUME NEW g \in Groups, NEW B, NEW R, Backed(g, B, R), NEW j \in Jobs, j.do = "update"
    PROVE  Backed(Updated(g, j), B, R \cup {j.agent})
<1> DEFINE u == Updated(g, j)
<1>1. /\ DOMAIN u = DOMAIN g \cup {j.agent}
      /\ \A a \in DOMAIN g : a # j.agent => u[a] = g[a]
  BY UpdatedFacts
<1> HIDE DEF u
<1>2. Backed(u, B, R \cup {j.agent})
  BY <1>1 DEF Backed
<1> QED
  BY <1>2 DEF u

LEMMA CarriesFrame ==
    ASSUME NEW p \in Procs, Local(p), NEW q \in Procs \ {p}, Carries(q),
           born' = born, reported \subseteq reported'
    PROVE  Carries(q)'
<1>1. pc'[q] = pc[q] /\ todo'[q] = todo[q] /\ mem'[q] = mem[q]
  BY DEF Local
<1>2. (Job(q))' = Job(q) /\ (OnGroup(q))' = OnGroup(q)
  BY <1>1 DEF Job, OnGroup
<1>3. reported \cup {Job(q).agent} \subseteq reported' \cup {Job(q).agent}
  OBVIOUS
<1>4. ASSUME pc[q] \in {"save", "fill"}, OnGroup(q)
      PROVE  Backed(mem[q], born, reported' \cup {Job(q).agent})
  BY <1>3, <1>4, BackedGrows DEF Carries
<1>5. ASSUME pc[q] = "return", OnGroup(q) PROVE Backed(mem[q], born, reported')
  BY <1>5, BackedGrows DEF Carries
<1> QED
  BY <1>1, <1>2, <1>4, <1>5 DEF Carries

LEMMA EarlyStep ==
    ASSUME NotEarly, ~twice, NEW p \in Procs, Local(p), born' = born, reported \subseteq reported',
           Carries(p)', group' \in Groups => Backed(group', born, reported'),
           told' => born # {} /\ born \subseteq reported'
    PROVE  NotEarly'
<1>1. \A q \in Procs \ {p} : Carries(q)'
  BY CarriesFrame DEF NotEarly
<1> QED
  BY <1>1 DEF NotEarly

(* Steps that leave the file and what was reported alone.                  *)
LEMMA EarlyQuiet ==
    ASSUME NotEarly, NEW p \in Procs, Local(p),
           UNCHANGED <<group, born, twice, reported, told>>, ~twice => Carries(p)'
    PROVE  NotEarly'
<1>1. CASE twice
  BY <1>1 DEF NotEarly
<1>2. CASE ~twice
  BY <1>2, EarlyStep DEF NotEarly
<1> QED
  BY <1>1, <1>2

LEMMA LoadExistingEarly ==
    ASSUME Typed, NotEarly, NEW p \in Procs, LoadExisting(p)
    PROVE  NotEarly'
<1>1. /\ Local(p) /\ group \in Groups
      /\ \/ /\ Job(p).do = "update" /\ pc'[p] = "save"
            /\ mem'[p] = Updated(group, Job(p))
         \/ /\ Job(p).do # "update" /\ pc'[p] = "return" /\ mem'[p] = group
  BY LoadExistingTyped
<1>2. /\ UNCHANGED <<group, born, twice, reported, told>> /\ todo' = todo /\ pc[p] = "load"
  BY DEF LoadExisting, files, ghosts
<1>3. (Job(p))' = Job(p) /\ Job(p) \in Jobs
  BY <1>2, SameJob, BusyFacts
<1>4. ASSUME ~twice PROVE Carries(p)'
  <2>1. Backed(group, born, reported)
    BY <1>1, <1>4 DEF NotEarly
  <2>2. CASE Job(p).do = "update" /\ pc'[p] = "save" /\ mem'[p] = Updated(group, Job(p))
    <3>1. Backed(mem'[p], born, reported \cup {Job(p).agent})
      BY <1>1, <1>3, <2>1, <2>2, BackedUpdate
    <3> QED
      BY <1>2, <1>3, <2>2, <3>1 DEF Carries
  <2>3. CASE pc'[p] = "return" /\ mem'[p] = group
    BY <1>2, <2>1, <2>3 DEF Carries
  <2> QED
    BY <1>1, <2>2, <2>3
<1> QED
  BY <1>1, <1>2, <1>4, EarlyQuiet

LEMMA TruncateEarly ==
    ASSUME Typed, NotEarly, NEW p \in Procs, Truncate(p)
    PROVE  NotEarly'
<1>1. /\ Local(p) /\ mem' = mem /\ todo' = todo
      /\ pc'[p] = IF pc[p] = "seed" THEN "seeding" ELSE "fill"
      /\ group' = Blank \/ group' = group
  BY TruncateTyped
<1>2. UNCHANGED <<born, twice, reported, told>> /\ pc[p] \in {"seed", "save"}
  BY DEF Truncate, ghosts
<1>3. (Job(p))' = Job(p) /\ (OnGroup(p) <=> OnGroup(p)')
  BY <1>1, SameJob
<1>4. CASE twice
  BY <1>2, <1>4 DEF NotEarly
<1>5. CASE ~twice
  <2>1. Carries(p)'
    BY <1>1, <1>2, <1>3, <1>5 DEF NotEarly, Carries
  <2>2. group' \in Groups => Backed(group', born, reported')
    BY <1>1, <1>2, <1>5, NoFile DEF NotEarly
  <2> QED
    BY <1>1, <1>2, <1>5, <2>1, <2>2, EarlyStep DEF NotEarly
<1> QED
  BY <1>4, <1>5

LEMMA FillSeedEarly ==
    ASSUME Typed, NotEarly, NEW p \in Procs, FillSeed(p)
    PROVE  NotEarly'
<1>1. /\ Local(p) /\ OnGroup(p) /\ pc[p] = "seeding" /\ todo' = todo
      /\ mem[p] \in Groups /\ DOMAIN mem[p] # {} /\ group' \in Written(group, mem[p])
      /\ \/ /\ Job(p).do = "update" /\ pc'[p] = "save"
            /\ mem'[p] = Updated(mem[p], Job(p))
         \/ /\ Job(p).do = "ensure" /\ pc'[p] = "return" /\ mem'[p] = mem[p]
  BY FillSeedTyped
<1>2. /\ born' = (IF born = {} THEN DOMAIN mem[p] ELSE born) /\ twice' = (born # {})
      /\ reported' = reported \cup {a \in DOMAIN mem[p] : mem[p][a] \in Terminal}
      /\ told' = told
  BY DEF FillSeed
<1>3. (Job(p))' = Job(p) /\ (OnGroup(p))' = OnGroup(p) /\ Job(p) \in Jobs
  BY <1>1, SameJob, BusyFacts DEF OnGroup
<1> SUFFICES ASSUME born = {} PROVE NotEarly'
  BY <1>2 DEF NotEarly
<1>4. ~twice
  BY DEF Typed
<1>5. born' = DOMAIN mem[p]
  BY <1>2
<1>6. Backed(mem[p], born', reported')
  BY <1>1, <1>2, <1>5 DEF Backed
<1>7. ASSUME NEW q \in Procs \ {p} PROVE Carries(q)'
  <2>1. pc'[q] = pc[q] /\ todo'[q] = todo[q]
    BY <1>1 DEF Local
  <2>2. (OnGroup(q))' = OnGroup(q)
    BY <2>1 DEF Job, OnGroup
  <2>3. ~(pc[q] \in {"save", "fill", "return"} /\ OnGroup(q))
    BY <1>4 DEF NotEarly, Carries, Backed
  <2> QED
    BY <2>1, <2>2, <2>3 DEF Carries
<1>8. Carries(p)'
  <2>1. CASE Job(p).do = "update" /\ pc'[p] = "save" /\ mem'[p] = Updated(mem[p], Job(p))
    <3>1. Backed(mem'[p], born', reported' \cup {Job(p).agent})
      BY <1>1, <1>3, <1>6, <2>1, BackedUpdate
    <3> QED
      BY <1>3, <2>1, <3>1 DEF Carries
  <2>2. CASE pc'[p] = "return" /\ mem'[p] = mem[p]
    BY <1>6, <2>2 DEF Carries
  <2> QED
    BY <1>1, <2>1, <2>2
<1>9. group' \in Groups => Backed(group', born', reported')
  BY <1>1, <1>6, NoFile DEF Written
<1>10. ~told
  BY <1>4 DEF NotEarly
<1> QED
  BY <1>2, <1>7, <1>8, <1>9, <1>10 DEF NotEarly

LEMMA FillGroupEarly ==
    ASSUME Typed, NotEarly, NEW p \in Procs, FillGroup(p)
    PROVE  NotEarly'
<1>1. /\ Local(p) /\ pc[p] = "fill" /\ OnGroup(p) /\ pc'[p] = "return" /\ mem' = mem
      /\ todo' = todo /\ group' \in Written(group, mem[p])
  BY FillGroupTyped
<1>2. /\ born' = born /\ twice' = twice /\ (told' => told)
      /\ reported' = reported \cup ({Job(p).agent} \cap {a \in DOMAIN mem[p] : mem[p][a] \in Terminal})
  BY DEF FillGroup
<1>3. CASE twice
  BY <1>2, <1>3 DEF NotEarly
<1>4. CASE ~twice
  <2>1. Backed(mem[p], born, reported \cup {Job(p).agent})
    BY <1>1, <1>4 DEF NotEarly, Carries
  <2>2. Backed(mem[p], born, reported')
    BY <1>2, <2>1 DEF Backed
  <2>3. Carries(p)'
    BY <1>1, <1>2, <2>2 DEF Carries
  <2>4. group' \in Groups => Backed(group', born, reported')
    BY <1>1, <2>2, NoFile DEF Written
  <2>5. reported \subseteq reported' /\ (told' => born # {} /\ born \subseteq reported')
    BY <1>2, <1>4 DEF NotEarly
  <2> QED
    BY <1>1, <1>2, <1>4, <2>3, <2>4, <2>5, EarlyStep
<1> QED
  BY <1>3, <1>4

LEMMA ReturnEarly ==
    ASSUME Typed, NotEarly, NEW p \in Procs, Return(p)
    PROVE  NotEarly'
<1>1. Local(p) /\ pc[p] = "return" /\ pc'[p] \in {"idle", "load"}
  BY ReturnTyped
<1>2. /\ UNCHANGED <<group, born, twice, reported>>
      /\ told' = (told \/ (OnGroup(p) /\ Job(p).tell /\ Complete(mem[p])))
  BY DEF Return, files
<1>3. CASE twice
  BY <1>2, <1>3 DEF NotEarly
<1>4. CASE ~twice
  <2>1. Carries(p)'
    BY <1>1 DEF Carries
  <2>2. ASSUME told' PROVE born # {} /\ born \subseteq reported
    <3>1. CASE told
      BY <1>4, <3>1 DEF NotEarly
    <3>2. CASE OnGroup(p) /\ Complete(mem[p])
      BY <1>1, <1>4, <3>2 DEF NotEarly, Carries, Backed, Complete
    <3> QED
      BY <1>2, <2>2, <3>1, <3>2
  <2> QED
    BY <1>1, <1>2, <1>4, <2>1, <2>2, EarlyStep DEF NotEarly
<1> QED
  BY <1>3, <1>4

(* Steps of a process that does not end with a copy of the group.          *)
LEMMA OtherEarly ==
    ASSUME Typed, NotEarly, NEW p \in Procs,
           \/ Start(p) \/ Crash(p) \/ LoadFails(p) \/ LoadMissing(p) \/ FillPad(p)
           \/ FillRemoved(p) \/ ReadFindings(p) \/ Decide(p) \/ MergePatch(p)
    PROVE  NotEarly'
<1>1. UNCHANGED <<group, born, twice, reported, told>>
  BY DEF Start, Crash, LoadFails, LoadMissing, FillPad, FillRemoved, ReadFindings, Decide,
         MergePatch, files, ghosts
<1>2. ASSUME Crash(p) PROVE Local(p) /\ pc'[p] = "idle"
  BY <1>2, StopLocal DEF Crash, Stop
<1>3. Local(p) /\ (pc'[p] \in {"idle", "load", "spin", "seed", "merge"} \/ ~OnGroup(p)')
  <2>1. ASSUME todo' = todo, ~OnGroup(p) PROVE ~OnGroup(p)'
    BY <2>1, SameJob
  <2> QED
    BY <1>2, <2>1, StartLocal, LoadFailsTyped, LoadMissingTyped, FillPadTyped, FillRemovedTyped,
       ReadFindingsTyped, DecideTyped, MergePatchTyped
<1>4. Carries(p)'
  BY <1>3 DEF Carries
<1> QED
  BY <1>1, <1>3, <1>4, EarlyQuiet

LEMMA SaveFailsEarly ==
    ASSUME Typed, NotEarly, NEW p \in Procs, SaveFails(p)
    PROVE  NotEarly'
<1>1. /\ Local(p) /\ pc'[p] \in {"idle", "load"} /\ (group' = group \/ group' = Garbled)
  BY SaveFailsTyped
<1>2. UNCHANGED <<born, twice, reported, told>>
  BY DEF SaveFails
<1>3. Carries(p)'
  BY <1>1 DEF Carries
<1>4. CASE twice
  BY <1>2, <1>4 DEF NotEarly
<1>5. CASE ~twice
  <2>1. group' \in Groups => Backed(group', born, reported')
    BY <1>1, <1>2, <1>5, NoFile DEF NotEarly
  <2> QED
    BY <1>1, <1>2, <1>3, <1>5, <2>1, EarlyStep DEF NotEarly
<1> QED
  BY <1>4, <1>5

LEMMA CleanupEarly == ASSUME NotEarly, Cleanup PROVE NotEarly'
<1>1. /\ UNCHANGED <<group, todo, mem, born, twice, reported, told>>
      /\ pc' = [p \in Procs |-> IF pc[p] = "fill" /\ ~OnGroup(p) THEN "orphan" ELSE pc[p]]
  BY DEF Cleanup
<1>2. ASSUME NEW q \in Procs, Carries(q) PROVE Carries(q)'
  <2>1. (Job(q))' = Job(q) /\ (OnGroup(q))' = OnGroup(q)
    BY <1>1 DEF Job, OnGroup
  <2>2. pc'[q] = "orphan" \/ pc'[q] = pc[q]
    BY <1>1
  <2> QED
    BY <1>1, <1>2, <2>1, <2>2 DEF Carries
<1> QED
  BY <1>1, <1>2 DEF NotEarly

LEMMA NextEarly == Typed /\ NotEarly /\ [Next]_vars => NotEarly'
<1> SUFFICES ASSUME Typed, NotEarly, [Next]_vars PROVE NotEarly'
  OBVIOUS
<1>1. ASSUME NEW p \in Procs, Start(p) \/ Step(p) \/ Crash(p) PROVE NotEarly'
  BY <1>1, LoadExistingEarly, TruncateEarly, FillSeedEarly, FillGroupEarly, ReturnEarly,
     SaveFailsEarly, OtherEarly DEF Step
<1>2. CASE Cleanup
  BY <1>2, CleanupEarly
<1>3. CASE UNCHANGED vars
  BY <1>3 DEF vars, files, ghosts, NotEarly, Carries, OnGroup, Job
<1> QED
  BY <1>1, <1>2, <1>3 DEF Next

LEMMA NotEarlyHolds == Spec => []NotEarly
<1>1. Init => NotEarly
  BY NoFile DEF Init, NotEarly, Carries
<1> QED
  BY <1>1, NextEarly, TypedHolds, PTL DEF Spec

-----------------------------------------------------------------------------
(* Steps that do not overlap.                                              *)

LEMMA FaithfulUpdate ==
    ASSUME NEW g, NEW l \in [Agents -> Status \cup {"none"}], NEW B, Faithful(g, l, B),
           NEW j \in Jobs, j.do = "update"
    PROVE  Faithful(Updated(g, j), [l EXCEPT ![j.agent] = j.status], B)
<1> DEFINE u == Updated(g, j)
           m == [l EXCEPT ![j.agent] = j.status]
<1>1. j.agent \in Agents /\ j.status \in Status /\ g \in Groups
  BY JobFacts DEF Faithful
<1>2. /\ u \in Groups /\ DOMAIN u = DOMAIN g \cup {j.agent} /\ u[j.agent] = j.status
      /\ \A a \in DOMAIN g : a # j.agent => u[a] = g[a]
  BY <1>1, UpdatedFacts
<1>3. m[j.agent] = j.status /\ m[j.agent] # "none" /\ \A a \in Agents : a # j.agent => m[a] = l[a]
  BY <1>1 DEF Status, Terminal
<1> HIDE DEF u, m
<1>4. DOMAIN u = B \cup {a \in Agents : m[a] # "none"}
  BY <1>1, <1>2, <1>3 DEF Faithful
<1>5. \A a \in Agents : m[a] # "none" => u[a] = m[a]
  BY <1>2, <1>3 DEF Faithful
<1>6. Faithful(u, m, B)
  BY <1>2, <1>4, <1>5 DEF Faithful
<1> QED
  BY <1>6 DEF u, m

LEMMA UpdatedFaithful ==
    ASSUME Typed, NEW p \in Procs, Job(p) \in Jobs, Job(p).do = "update", NEW g, NEW B,
           Faithful(g, last, B)
    PROVE  Faithful(Updated(g, Job(p)), LastAfter(p), B)
<1> DEFINE j == Job(p)
           l == last
<1>1. j \in Jobs /\ j.do = "update" /\ l \in [Agents -> Status \cup {"none"}] /\ Faithful(g, l, B)
  BY DEF Typed
<1>2. LastAfter(p) = [l EXCEPT ![j.agent] = j.status]
  BY DEF LastAfter
<1> HIDE DEF j, l
<1>3. Faithful(Updated(g, j), [l EXCEPT ![j.agent] = j.status], B)
  BY <1>1, FaithfulUpdate
<1> QED
  BY <1>2, <1>3 DEF j

LEMMA Alone ==
    ASSUME Serial, calm, NEW p \in Procs, pc[p] # "idle"
    PROVE  /\ \A q \in Procs \ {p} : pc[q] = "idle"
           /\ pc[p] # "orphan" /\ AtGroup(p) /\ AtPad(p)
  BY DEF Serial

LEMMA SerialStep ==
    ASSUME NEW p \in Procs, Local(p), \A q \in Procs \ {p} : pc[q] = "idle",
           pc'[p] = "idle" => GroupRests' /\ PadRests',
           pc'[p] # "idle" => pc'[p] # "orphan" /\ AtGroup(p)' /\ AtPad(p)'
    PROVE  Serial'
<1>1. \A q \in Procs \ {p} : pc'[q] = "idle"
  BY DEF Local
<1> QED
  BY <1>1 DEF Serial, AllIdle

(* What is there when a job is loaded.                                     *)
LEMMA AtLoad ==
    ASSUME Serial, calm, NEW p \in Procs, pc[p] \in {"load", "merge"}
    PROVE  /\ GroupRests /\ PadRests
           /\ group = Missing => Unborn
           /\ group \in Groups => Faithful(group, last, born)
<1>1. GroupRests /\ PadRests
  BY Alone DEF AtGroup, AtPad
<1> QED
  BY <1>1, NoFile DEF GroupRests, Faithful

LEMMA StartSerial == ASSUME Typed, Serial, NEW p \in Procs, Start(p) PROVE Serial'
<1>1. /\ UNCHANGED <<files, born, last, acked, progress>> /\ calm' = (calm /\ AllIdle)
  BY DEF Start
<1>2. Local(p) /\ pc'[p] = "load"
  BY StartLocal
<1> SUFFICES ASSUME calm, AllIdle PROVE Serial'
  BY <1>1 DEF Serial
<1>3. GroupRests /\ PadRests /\ \A q \in Procs : pc[q] = "idle"
  BY DEF Serial, AllIdle
<1>4. GroupRests' /\ PadRests'
  BY <1>1, <1>3 DEF GroupRests, Unborn, PadRests, files
<1>5. AtGroup(p)' /\ AtPad(p)'
  BY <1>2, <1>4 DEF AtGroup, AtPad
<1> QED
  BY <1>2, <1>3, <1>5, SerialStep

LEMMA LoadFailsSerial ==
    ASSUME Typed, Serial, calm, NEW p \in Procs, LoadFails(p)
    PROVE  Serial'
<1>1. UNCHANGED <<group, pad, born, last, acked, progress>> /\ pc[p] = "load"
  BY DEF LoadFails, files, ghosts
<1>2. Local(p) /\ pc'[p] = "idle"
  BY LoadFailsTyped
<1>3. GroupRests' /\ PadRests'
  BY <1>1, AtLoad DEF GroupRests, Unborn, PadRests
<1> QED
  BY <1>1, <1>2, <1>3, Alone, SerialStep

LEMMA LoadMissingSerial ==
    ASSUME Typed, Serial, calm, NEW p \in Procs, LoadMissing(p)
    PROVE  Serial'
<1>1. /\ UNCHANGED <<group, pad, born, last, acked, progress>> /\ pc[p] = "load" /\ todo' = todo
      /\ group = Missing /\ OnGroup(p)
  BY DEF LoadMissing, files, ghosts
<1>2. Local(p) /\ pc'[p] \in {"spin", "seed"}
  BY LoadMissingTyped
<1>3. GroupRests' /\ PadRests' /\ Unborn'
  BY <1>1, AtLoad DEF GroupRests, Unborn, PadRests
<1>4. OnGroup(p)'
  BY <1>1, SameJob
<1>5. AtGroup(p)' /\ AtPad(p)'
  BY <1>1, <1>2, <1>3, <1>4 DEF AtGroup, AtPad
<1> QED
  BY <1>1, <1>2, <1>5, Alone, SerialStep

(* What will be acknowledged does not change within a job.                 *)
LEMMA SameAfter ==
    ASSUME NEW p \in Procs, todo' = todo, UNCHANGED <<last, acked, progress>>
    PROVE  /\ (LastAfter(p))' = LastAfter(p) /\ (Acked(Job(p)))' = Acked(Job(p))
           /\ (Progress(Job(p)))' = Progress(Job(p))
           /\ (Job(p))' = Job(p) /\ (OnGroup(p))' = OnGroup(p)
  BY DEF LastAfter, Acked, Progress, Job, OnGroup

(* A job on the group leaves the scratchpad's history alone.               *)
LEMMA GroupAfter ==
    ASSUME Typed, NEW p \in Procs, Job(p) \in Jobs, OnGroup(p)
    PROVE  Acked(Job(p)) = acked /\ Progress(Job(p)) = progress
  BY AnswerFacts DEF OnGroup

LEMMA LoadExistingSerial ==
    ASSUME Typed, Serial, calm, NEW p \in Procs, LoadExisting(p)
    PROVE  Serial'
<1>1. /\ UNCHANGED <<group, pad, born, last, acked, progress>> /\ pc[p] = "load" /\ todo' = todo
      /\ OnGroup(p)
  BY DEF LoadExisting, files, ghosts
<1>2. /\ Local(p) /\ group \in Groups
      /\ \/ /\ Job(p).do = "update" /\ pc'[p] = "save"
            /\ mem'[p] = Updated(group, Job(p))
         \/ /\ Job(p).do # "update" /\ pc'[p] = "return" /\ mem'[p] = group
  BY LoadExistingTyped
<1>3. Faithful(group, last, born) /\ PadRests
  BY <1>1, <1>2, AtLoad
<1>4. /\ (LastAfter(p))' = LastAfter(p) /\ OnGroup(p)' /\ Job(p) \in Jobs
      /\ (Acked(Job(p)))' = acked /\ (Progress(Job(p)))' = progress
  BY <1>1, SameAfter, GroupAfter, BusyFacts
<1>5. PadRests'
  BY <1>1, <1>3 DEF PadRests
<1>6. CASE Job(p).do = "update" /\ pc'[p] = "save" /\ mem'[p] = Updated(group, Job(p))
  <2>1. LastAfter(p) = [last EXCEPT ![Job(p).agent] = Job(p).status]
    BY <1>6 DEF LastAfter
  <2>2. Faithful(mem'[p], LastAfter(p), born)
    BY <1>3, <1>4, <1>6, UpdatedFaithful
  <2>3. AtGroup(p)' /\ AtPad(p)'
    BY <1>1, <1>4, <1>5, <1>6, <2>2 DEF AtGroup, AtPad
  <2> QED
    BY <1>1, <1>2, <1>6, <2>3, Alone, SerialStep
<1>7. CASE Job(p).do # "update" /\ pc'[p] = "return" /\ mem'[p] = group
  <2>1. LastAfter(p) = last
    BY <1>7 DEF LastAfter
  <2>2. AtGroup(p)'
    BY <1>1, <1>3, <1>4, <1>7, <2>1 DEF AtGroup
  <2>3. AtPad(p)'
    BY <1>1, <1>3, <1>4, <1>7 DEF AtPad, PadRests
  <2> QED
    BY <1>1, <1>2, <1>7, <2>2, <2>3, Alone, SerialStep
<1> QED
  BY <1>2, <1>6, <1>7

LEMMA TruncateSerial ==
    ASSUME Typed, Serial, calm, NEW p \in Procs, Truncate(p)
    PROVE  Serial'
<1>1. UNCHANGED <<born, last, acked, progress>> /\ pc[p] \in {"seed", "save"}
  BY DEF Truncate, ghosts
<1>2. /\ Local(p) /\ mem' = mem /\ todo' = todo
      /\ pc'[p] = IF pc[p] = "seed" THEN "seeding" ELSE "fill"
      /\ OnGroup(p) => group' = Blank /\ pad' = pad
      /\ ~OnGroup(p) => pad' = Blank /\ group' = group /\ pc[p] = "save"
  BY TruncateTyped
<1>3. /\ (LastAfter(p))' = LastAfter(p) /\ (Acked(Job(p)))' = Acked(Job(p))
      /\ (Progress(Job(p)))' = Progress(Job(p))
      /\ (Job(p))' = Job(p) /\ (OnGroup(p))' = OnGroup(p)
  BY <1>1, <1>2, SameAfter
<1>4. AtGroup(p) /\ AtPad(p) /\ \A q \in Procs \ {p} : pc[q] = "idle"
  BY <1>1, Alone
<1>5. CASE OnGroup(p)
  <2>1. PadRests'
    BY <1>1, <1>2, <1>4, <1>5 DEF AtPad, PadRests
  <2>2. AtPad(p)'
    BY <1>1, <1>2, <1>3, <1>5, <2>1 DEF AtPad
  <2>3. AtGroup(p)'
    BY <1>1, <1>2, <1>3, <1>4, <1>5 DEF AtGroup, Unborn
  <2> QED
    BY <1>1, <1>2, <1>4, <2>2, <2>3, SerialStep
<1>6. CASE ~OnGroup(p)
  <2>1. GroupRests'
    BY <1>1, <1>2, <1>4, <1>6 DEF AtGroup, GroupRests, Unborn
  <2>2. AtGroup(p)'
    BY <1>2, <1>3, <1>6, <2>1 DEF AtGroup
  <2>3. AtPad(p)'
    BY <1>1, <1>2, <1>3, <1>4, <1>6 DEF AtPad
  <2> QED
    BY <1>1, <1>2, <1>4, <1>6, <2>2, <2>3, SerialStep
<1> QED
  BY <1>5, <1>6

LEMMA FillSeedSerial ==
    ASSUME Typed, Serial, calm, NEW p \in Procs, FillSeed(p)
    PROVE  Serial'
<1>1. /\ UNCHANGED <<pad, last, acked, progress>>
      /\ born' = (IF born = {} THEN DOMAIN mem[p] ELSE born)
  BY DEF FillSeed
<1>2. /\ Local(p) /\ OnGroup(p) /\ pc[p] = "seeding" /\ todo' = todo
      /\ mem[p] \in Groups /\ DOMAIN mem[p] # {} /\ group' \in Written(group, mem[p])
      /\ \/ /\ Job(p).do = "update" /\ pc'[p] = "save"
            /\ mem'[p] = Updated(mem[p], Job(p))
         \/ /\ Job(p).do = "ensure" /\ pc'[p] = "return" /\ mem'[p] = mem[p]
  BY FillSeedTyped
<1>3. AtGroup(p) /\ AtPad(p) /\ \A q \in Procs \ {p} : pc[q] = "idle"
  BY <1>2, Alone
<1>4. group = Blank /\ born = {} /\ \A a \in Agents : last[a] = "none"
  BY <1>2, <1>3 DEF AtGroup, Unborn
<1>5. group' = mem[p] /\ born' = DOMAIN mem[p]
  BY <1>1, <1>2, <1>4 DEF Written
<1>6. Faithful(mem[p], last, born')
  BY <1>2, <1>4, <1>5 DEF Faithful
<1>7. /\ (LastAfter(p))' = LastAfter(p) /\ OnGroup(p)' /\ Job(p) \in Jobs
      /\ (Acked(Job(p)))' = acked /\ (Progress(Job(p)))' = progress
  BY <1>1, <1>2, SameAfter, GroupAfter, BusyFacts
<1>8. PadRests /\ PadRests'
  BY <1>1, <1>2, <1>3 DEF AtPad, PadRests
<1>9. CASE Job(p).do = "update" /\ pc'[p] = "save" /\ mem'[p] = Updated(mem[p], Job(p))
  <2>1. Faithful(mem'[p], LastAfter(p), born')
    BY <1>6, <1>7, <1>9, UpdatedFaithful
  <2>2. AtGroup(p)' /\ AtPad(p)'
    BY <1>7, <1>8, <1>9, <2>1 DEF AtGroup, AtPad
  <2> QED
    BY <1>2, <1>3, <1>9, <2>2, SerialStep
<1>10. CASE Job(p).do = "ensure" /\ pc'[p] = "return" /\ mem'[p] = mem[p]
  <2>1. LastAfter(p) = last
    BY <1>10 DEF LastAfter
  <2>2. AtGroup(p)'
    BY <1>5, <1>6, <1>7, <1>10, <2>1 DEF AtGroup
  <2>3. AtPad(p)'
    BY <1>1, <1>7, <1>8, <1>10 DEF AtPad, PadRests
  <2> QED
    BY <1>2, <1>3, <1>10, <2>2, <2>3, SerialStep
<1> QED
  BY <1>2, <1>9, <1>10

LEMMA FillGroupSerial ==
    ASSUME Typed, Serial, calm, NEW p \in Procs, FillGroup(p)
    PROVE  Serial'
<1>1. UNCHANGED <<pad, born, last, acked, progress>>
  BY DEF FillGroup
<1>2. /\ Local(p) /\ pc[p] = "fill" /\ OnGroup(p) /\ pc'[p] = "return" /\ mem' = mem
      /\ todo' = todo /\ group' \in Written(group, mem[p])
  BY FillGroupTyped
<1>3. AtGroup(p) /\ AtPad(p) /\ \A q \in Procs \ {p} : pc[q] = "idle"
  BY <1>2, Alone
<1>4. /\ (LastAfter(p))' = LastAfter(p) /\ OnGroup(p)'
      /\ (Acked(Job(p)))' = acked /\ (Progress(Job(p)))' = progress
  BY <1>1, <1>2, SameAfter, GroupAfter, BusyFacts
<1>5. group = Blank /\ Faithful(mem[p], LastAfter(p), born) /\ PadRests
  BY <1>2, <1>3 DEF AtGroup, AtPad
<1>6. group' = mem[p]
  BY <1>2, <1>5 DEF Written
<1>7. AtGroup(p)'
  BY <1>1, <1>2, <1>4, <1>5, <1>6 DEF AtGroup
<1>8. AtPad(p)'
  BY <1>1, <1>2, <1>4, <1>5 DEF AtPad, PadRests
<1> QED
  BY <1>2, <1>3, <1>7, <1>8, SerialStep

LEMMA FillPadSerial ==
    ASSUME Typed, Serial, calm, NEW p \in Procs, FillPad(p)
    PROVE  Serial'
<1>1. UNCHANGED <<group, born, last, acked, progress>>
  BY DEF FillPad, ghosts
<1>2. /\ Local(p) /\ pc[p] = "fill" /\ ~OnGroup(p) /\ pc'[p] = "return" /\ todo' = todo
      /\ pad' \in Written(pad, mem[p])
  BY FillPadTyped
<1>3. AtGroup(p) /\ AtPad(p) /\ \A q \in Procs \ {p} : pc[q] = "idle"
  BY <1>2, Alone
<1>4. /\ (OnGroup(p))' = OnGroup(p)
      /\ (Acked(Job(p)))' = Acked(Job(p)) /\ (Progress(Job(p)))' = Progress(Job(p))
  BY <1>1, <1>2, SameAfter
<1>5. pad = Blank /\ Stores(mem[p], Acked(Job(p)), Progress(Job(p))) /\ GroupRests
  BY <1>2, <1>3 DEF AtGroup, AtPad
<1>6. pad' = mem[p] /\ GroupRests'
  BY <1>1, <1>2, <1>5 DEF Written, GroupRests, Unborn
<1>7. AtGroup(p)'
  BY <1>2, <1>4, <1>6 DEF AtGroup
<1>8. AtPad(p)'
  BY <1>2, <1>4, <1>5, <1>6 DEF AtPad
<1> QED
  BY <1>2, <1>3, <1>7, <1>8, SerialStep

LEMMA ReturnSerial ==
    ASSUME Typed, Serial, calm, NEW p \in Procs, Return(p)
    PROVE  Serial'
<1>1. UNCHANGED <<group, pad, born>>
  BY DEF Return, files
<1>2. /\ Local(p) /\ pc[p] = "return" /\ pc'[p] \in {"idle", "load"}
      /\ last' = LastAfter(p) /\ acked' = Acked(Job(p)) /\ progress' = Progress(Job(p))
  BY ReturnTyped
<1>3. AtGroup(p) /\ AtPad(p) /\ \A q \in Procs \ {p} : pc[q] = "idle"
  BY <1>2, Alone
<1>4. GroupRests'
  <2>1. CASE OnGroup(p)
    BY <1>1, <1>2, <1>3, <2>1 DEF AtGroup, GroupRests
  <2>2. CASE ~OnGroup(p)
    <3>1. last' = last
      BY <1>2, <2>2 DEF LastAfter, OnGroup
    <3> QED
      BY <1>1, <1>3, <2>2, <3>1 DEF AtGroup, GroupRests, Unborn
  <2> QED
    BY <2>1, <2>2
<1>5. PadRests'
  BY <1>1, <1>2, <1>3 DEF AtPad, PadRests
<1>6. pc'[p] = "load" => AtGroup(p)' /\ AtPad(p)'
  BY <1>4, <1>5 DEF AtGroup, AtPad
<1> QED
  BY <1>2, <1>3, <1>4, <1>5, <1>6, SerialStep

LEMMA ReadFindingsSerial ==
    ASSUME Typed, Serial, calm, NEW p \in Procs, ReadFindings(p)
    PROVE  Serial'
<1>1. UNCHANGED <<group, pad, born, last, acked, progress>> /\ pc[p] = "load"
  BY DEF ReadFindings, files, ghosts
<1>2. /\ Local(p) /\ pc'[p] = "merge" /\ todo' = todo
      /\ mem'[p] = LoadScratchpad(pad).found \cup {Job(p).finding}
  BY ReadFindingsTyped
<1>3. GroupRests' /\ PadRests'
  BY <1>1, AtLoad DEF GroupRests, Unborn, PadRests
<1>4. (Job(p))' = Job(p)
  BY <1>2 DEF Job
<1>5. AtGroup(p)' /\ AtPad(p)'
  BY <1>1, <1>2, <1>3, <1>4 DEF AtGroup, AtPad
<1> QED
  BY <1>1, <1>2, <1>5, Alone, SerialStep

LEMMA DecideSerial ==
    ASSUME Typed, Serial, calm, NEW p \in Procs, Decide(p)
    PROVE  Serial'
<1>1. UNCHANGED <<group, pad, born, last, acked, progress>> /\ pc[p] = "load" /\ Job(p).do = "tick"
  BY DEF Decide, files, ghosts
<1>2. /\ Local(p) /\ pc'[p] \in {"merge", "return"} /\ todo' = todo /\ ~OnGroup(p)
      /\ pc'[p] = "return" =>
           \E late \in BOOLEAN : ~ShouldCheckpoint(LoadScratchpad(pad), Job(p).processed, late)
  BY DecideTyped
<1>3. GroupRests' /\ PadRests' /\ PadRests
  BY <1>1, AtLoad DEF GroupRests, Unborn, PadRests
<1>4. /\ (Job(p))' = Job(p) /\ (OnGroup(p))' = OnGroup(p)
      /\ (Acked(Job(p)))' = Acked(Job(p)) /\ (Progress(Job(p)))' = Progress(Job(p))
  BY <1>1, <1>2, SameAfter
<1>5. ASSUME pc'[p] = "return" PROVE Stores(pad, Acked(Job(p)), Progress(Job(p)))
  <2>1. Acked(Job(p)) = acked /\ Progress(Job(p)) = Job(p).processed
    BY <1>1 DEF Acked, Progress
  <2>2. PICK late \in BOOLEAN : ~ShouldCheckpoint(LoadScratchpad(pad), Job(p).processed, late)
    BY <1>2, <1>5
  <2> DEFINE s == LoadScratchpad(pad)
             n == Job(p).processed
  <2>3. /\ s.checkpoint \in NoCheckpoint .. MaxProcessed /\ n \in 0 .. MaxProcessed
        /\ ItemInterval \in Nat /\ MaxProcessed \in Nat
    BY <1>1, LoadFacts, PadFacts, JobFacts, BusyFacts, OrchestrationAssumption DEF Typed, TypeOK
  <2>4. s.checkpoint # NoCheckpoint => ~(n - s.checkpoint >= ItemInterval)
    BY <2>2 DEF ShouldCheckpoint
  <2> HIDE DEF s, n
  <2>5. s.checkpoint # NoCheckpoint => n - s.checkpoint < ItemInterval
    BY <2>3, <2>4 DEF NoCheckpoint
  <2> QED
    BY <1>3, <2>1, <2>5 DEF PadRests, Stores, s, n
<1>6. AtGroup(p)'
  BY <1>2, <1>3, <1>4 DEF AtGroup
<1>7. AtPad(p)'
  BY <1>1, <1>2, <1>3, <1>4, <1>5 DEF AtPad
<1> QED
  BY <1>1, <1>2, <1>6, <1>7, Alone, SerialStep

LEMMA MergePatchSerial ==
    ASSUME Typed, Serial, calm, NEW p \in Procs, MergePatch(p)
    PROVE  Serial'
<1>1. /\ UNCHANGED <<group, pad, born, last, acked, progress>> /\ pc[p] \in {"load", "merge"}
  BY DEF MergePatch, files, ghosts
<1>2. /\ Local(p) /\ pc'[p] = "save" /\ todo' = todo /\ ~OnGroup(p)
      /\ mem'[p] = Patched(LoadScratchpad(pad), Job(p), mem[p]) /\ mem'[p] \in Pads
      /\ Job(p).do = "finding" => pc[p] = "merge" /\ mem[p] \in SUBSET Findings
  BY MergePatchTyped
<1>3. GroupRests' /\ PadRests
  BY <1>1, AtLoad DEF GroupRests, Unborn
<1>4. /\ (OnGroup(p))' = OnGroup(p)
      /\ (Acked(Job(p)))' = Acked(Job(p)) /\ (Progress(Job(p)))' = Progress(Job(p))
  BY <1>1, <1>2, SameAfter
<1> DEFINE s == LoadScratchpad(pad)
           m == mem'[p]
           j == Job(p)
<1>5. s \in Pads /\ j \in Jobs /\ j.do \notin {"ensure", "update", "query"}
  BY <1>1, <1>2, LoadFacts, BusyFacts DEF Typed, TypeOK, OnGroup
<1>6. /\ j.do = "finding" => m.found = mem[p] /\ m.checkpoint = s.checkpoint
      /\ j.do \in {"tick", "checkpoint"} => m.found = s.found /\ m.checkpoint = j.processed
      /\ j.do = "write" =>
           /\ m.found = IF "found" \in j.keys THEN j.new.found ELSE s.found
           /\ m.checkpoint = IF "checkpoint" \in j.keys THEN j.new.checkpoint ELSE s.checkpoint
  BY <1>2, <1>5, PatchedFacts
<1>7. j.do = "finding" => mem[p] = s.found \cup {j.finding}
  BY <1>1, <1>2, Alone DEF AtPad
<1>8. LoadScratchpad(m) = m
  BY <1>2, LoadFacts
<1>9. /\ acked \subseteq s.found
      /\ s.checkpoint # NoCheckpoint => progress - s.checkpoint < ItemInterval
  BY <1>3 DEF PadRests, Stores
<1>10. j.do \in {"finding", "tick", "checkpoint", "write"}
  BY <1>5, JobFacts
<1>11. m.checkpoint \in NoCheckpoint .. MaxProcessed
  BY <1>2, PadFacts
<1> HIDE DEF s, m, j
<1>12. Acked(j) \subseteq m.found
  BY <1>6, <1>7, <1>9, <1>10 DEF Acked
<1>13. m.checkpoint # NoCheckpoint => Progress(j) - m.checkpoint < ItemInterval
  <2>1. ASSUME m.checkpoint # NoCheckpoint
        PROVE  \/ m.checkpoint = s.checkpoint /\ Progress(j) = progress
               \/ Progress(j) = m.checkpoint
    BY <1>6, <1>10, <2>1 DEF Progress
  <2>2. ASSUME Progress(j) = m.checkpoint PROVE Progress(j) - m.checkpoint < ItemInterval
    <3>1. ItemInterval \in Nat \ {0} /\ MaxProcessed \in Nat
      BY OrchestrationAssumption
    <3> QED
      BY <1>11, <2>2, <3>1 DEF NoCheckpoint
  <2> QED
    BY <1>9, <2>1, <2>2
<1>14. Stores(mem'[p], Acked(Job(p)), Progress(Job(p)))
  BY <1>2, <1>8, <1>12, <1>13 DEF Stores, m, j
<1>15. AtGroup(p)'
  BY <1>2, <1>3, <1>4 DEF AtGroup
<1>16. AtPad(p)'
  BY <1>2, <1>4, <1>14 DEF AtPad
<1> QED
  BY <1>1, <1>2, <1>15, <1>16, Alone, SerialStep

LEMMA CleanupSerial == ASSUME Typed, Serial, Cleanup PROVE Serial'
<1>1. /\ pad' = Missing /\ UNCHANGED <<group, todo, born, last>>
      /\ pc' = [p \in Procs |-> IF pc[p] = "fill" /\ ~OnGroup(p) THEN "orphan" ELSE pc[p]]
      /\ acked' = {} /\ progress' = 0 /\ calm' = (calm /\ AllIdle)
  BY DEF Cleanup
<1> SUFFICES ASSUME calm, AllIdle PROVE Serial'
  BY <1>1 DEF Serial
<1>2. \A p \in Procs : pc'[p] = "idle"
  BY <1>1 DEF AllIdle
<1>3. GroupRests'
  BY <1>1 DEF Serial, GroupRests, Unborn
<1>4. PadRests'
  BY <1>1, LoadFacts, NoFile DEF PadRests, Stores
<1> QED
  BY <1>2, <1>3, <1>4 DEF Serial

LEMMA StepCalm ==
    ASSUME Typed, NEW p \in Procs, Step(p)
    PROVE  (calm' => calm /\ ~SaveFails(p)) /\ pc[p] # "idle"
<1>1. calm' = calm \/ SaveFails(p)
  BY DEF Step, LoadFails, LoadMissing, LoadExisting, Truncate, FillSeed, FillGroup, FillPad,
         FillRemoved, Return, ReadFindings, Decide, MergePatch, ghosts
<1>2. pc[p] # "idle"
  BY DEF Step, LoadFails, LoadMissing, LoadExisting, Truncate, FillSeed, FillGroup, FillPad,
         FillRemoved, SaveFails, Return, ReadFindings, Decide, MergePatch
<1> QED
  BY <1>1, <1>2, SaveFailsTyped

LEMMA NextSerial == Typed /\ Serial /\ [Next]_vars => Serial'
<1> SUFFICES ASSUME Typed, Serial, [Next]_vars PROVE Serial'
  OBVIOUS
<1>1. ASSUME NEW p \in Procs, Start(p) PROVE Serial'
  BY <1>1, StartSerial
<1>2. ASSUME NEW p \in Procs, Crash(p) PROVE Serial'
  <2>1. ~calm'
    BY <1>2 DEF Crash
  <2> QED
    BY <2>1 DEF Serial
<1>3. ASSUME NEW p \in Procs, Step(p) PROVE Serial'
  <2>1. CASE ~calm'
    BY <2>1 DEF Serial
  <2>2. CASE calm'
    <3>1. calm /\ pc[p] # "idle" /\ ~SaveFails(p)
      BY <1>3, <2>2, StepCalm
    <3>2. ~FillRemoved(p)
      BY <3>1, Alone DEF FillRemoved
    <3> QED
      BY <1>3, <3>1, <3>2, LoadFailsSerial, LoadMissingSerial, LoadExistingSerial, TruncateSerial,
         FillSeedSerial, FillGroupSerial, FillPadSerial, ReturnSerial, ReadFindingsSerial,
         DecideSerial, MergePatchSerial DEF Step
  <2> QED
    BY <2>1, <2>2
<1>4. CASE Cleanup
  BY <1>4, CleanupSerial
<1>5. CASE UNCHANGED vars
  <2>1. /\ group' = group /\ pad' = pad /\ pc' = pc /\ todo' = todo /\ mem' = mem
        /\ calm' = calm /\ born' = born /\ last' = last /\ acked' = acked /\ progress' = progress
    BY <1>5 DEF vars, files, ghosts
  <2>2. (AllIdle' <=> AllIdle) /\ (Unborn' <=> Unborn)
    BY <2>1 DEF AllIdle, Unborn
  <2>3. (GroupRests' <=> GroupRests) /\ (PadRests' <=> PadRests)
    BY <2>1, <2>2 DEF GroupRests, PadRests
  <2>4. ASSUME NEW p \in Procs PROVE (AtGroup(p)' <=> AtGroup(p)) /\ (AtPad(p)' <=> AtPad(p))
    <3>1. Job(p)' = Job(p)
      BY <2>1 DEF Job
    <3>2. /\ OnGroup(p)' <=> OnGroup(p)
          /\ LastAfter(p)' = LastAfter(p)
          /\ Acked(Job(p))' = Acked(Job(p)) /\ Progress(Job(p))' = Progress(Job(p))
      BY <2>1, <3>1 DEF OnGroup, LastAfter, Acked, Progress
    <3>3. AtGroup(p)' <=> AtGroup(p)
      BY <2>1, <2>2, <2>3, <3>2 DEF AtGroup
    <3>4. AtPad(p)' <=> AtPad(p)
      BY <2>1, <2>3, <3>1, <3>2 DEF AtPad
    <3> QED
      BY <3>3, <3>4
  <2> QED
    BY <2>1, <2>2, <2>3, <2>4 DEF Serial
<1> QED
  BY <1>1, <1>2, <1>3, <1>4, <1>5 DEF Next

LEMMA SerialHolds == Spec => []Serial
<1>1. Init => Serial
  <2> SUFFICES ASSUME Init PROVE Serial
    OBVIOUS
  <2>1. \A p \in Procs : pc[p] = "idle"
    BY DEF Init
  <2>2. GroupRests
    BY DEF Init, GroupRests, Unborn
  <2>3. PadRests
    BY LoadFacts, NoFile DEF Init, PadRests, Stores
  <2> QED
    BY <2>1, <2>2, <2>3 DEF Serial
<1> QED
  BY <1>1, NextSerial, TypedHolds, PTL DEF Spec

-----------------------------------------------------------------------------
(* Notification while operations do not overlap.                           *)

(* With every report in, the group as answered is complete.                *)
LEMMA ReportedComplete ==
    ASSUME NEW g, NEW l, NEW B, Faithful(g, l, B),
           \A a \in Agents : a \in B \/ l[a] # "none" => l[a] \in Terminal
    PROVE  Complete(g)
<1>1. DOMAIN g # {}
  BY DEF Faithful
<1>2. ASSUME NEW a \in DOMAIN g PROVE g[a] \in Terminal
  <2>1. a \in Agents /\ (a \in B \/ l[a] # "none")
    BY <1>2, GroupFacts DEF Faithful
  <2>2. l[a] \in Terminal /\ l[a] # "none"
    BY <2>1 DEF Terminal
  <2> QED
    BY <2>1, <2>2 DEF Faithful
<1> QED
  BY <1>1, <1>2 DEF Complete

LEMMA StepHeard ==
    ASSUME Typed, Serial, Heard, calm, NEW p \in Procs, Step(p), ~SaveFails(p)
    PROVE  Heard'
<1>1. CASE FillSeed(p) \/ FillGroup(p)
  BY <1>1 DEF FillSeed, FillGroup, Heard
<1>2. CASE Truncate(p)
  <2>1. group' = Blank \/ group' = group
    BY <1>2, TruncateTyped
  <2>2. UNCHANGED <<calm, asked, told>>
    BY <1>2 DEF Truncate, ghosts
  <2> QED
    BY <2>1, <2>2, NoFile DEF Heard
<1>3. CASE Return(p)
  <2>1. /\ group' = group /\ asked' = (asked \/ (OnGroup(p) /\ Job(p).tell))
        /\ told' = (told \/ (OnGroup(p) /\ Job(p).tell /\ Complete(mem[p])))
        /\ pc[p] = "return"
    BY <1>3 DEF Return, files
  <2>2. OnGroup(p) => mem[p] = group
    BY <2>1, Alone DEF AtGroup
  <2> QED
    BY <2>1, <2>2 DEF Heard
<1>4. CASE \/ LoadFails(p) \/ LoadMissing(p) \/ LoadExisting(p) \/ FillPad(p) \/ FillRemoved(p)
           \/ ReadFindings(p) \/ Decide(p) \/ MergePatch(p)
  <2>1. UNCHANGED <<group, calm, asked, told>>
    BY <1>4 DEF LoadFails, LoadMissing, LoadExisting, FillPad, FillRemoved, ReadFindings, Decide,
                MergePatch, files, ghosts
  <2> QED
    BY <2>1 DEF Heard
<1> QED
  BY <1>1, <1>2, <1>3, <1>4 DEF Step

LEMMA NextHeard == Typed /\ Serial /\ Heard /\ [Next]_vars => Heard'
<1> SUFFICES ASSUME Typed, Serial, Heard, [Next]_vars, calm' PROVE Heard'
  BY DEF Heard
<1>1. ASSUME NEW p \in Procs, Start(p) PROVE Heard'
  <2>1. UNCHANGED <<group, asked, told>> /\ calm
    BY <1>1 DEF Start, files
  <2> QED
    BY <2>1 DEF Heard
<1>2. ASSUME NEW p \in Procs, Crash(p) PROVE FALSE
  BY <1>2 DEF Crash
<1>3. ASSUME NEW p \in Procs, Step(p) PROVE Heard'
  BY <1>3, StepCalm, StepHeard
<1>4. CASE Cleanup
  <2>1. UNCHANGED <<group, asked, told>> /\ calm
    BY <1>4 DEF Cleanup
  <2> QED
    BY <2>1 DEF Heard
<1>5. CASE UNCHANGED vars
  BY <1>5 DEF vars, files, ghosts, Heard
<1> QED
  BY <1>1, <1>2, <1>3, <1>4, <1>5 DEF Next

LEMMA HeardHolds == Spec => []Heard
<1>1. Init => Heard
  BY DEF Init, Heard
<1> QED
  BY <1>1, NextHeard, TypedHolds, SerialHolds, PTL DEF Spec

-----------------------------------------------------------------------------
(* The files hold nothing but what a save wrote whole, a truncated text or *)
(* one text over another, and every process that is about to save a        *)
(* scratchpad holds one, whichever operations run together or die.         *)
THEOREM TypesKept == Spec => []TypeOK
<1>1. Typed => TypeOK
  BY DEF Typed
<1> QED
  BY <1>1, TypedHolds, PTL

(* completion_summary's notification never comes before every agent the    *)
(* group was created with was saved with a final status, unless the group  *)
(* was created twice: a report that is overwritten can only make the       *)
(* notification late.                                                      *)
THEOREM NotifiedOnlyWhenReported == Spec => []NotifiedNotEarly
<1>1. NotEarly => NotifiedNotEarly
  BY DEF NotEarly, NotifiedNotEarly
<1> QED
  BY <1>1, NotEarlyHolds, PTL

(* derive_group_status gives a final status exactly to the groups that     *)
(* completion_summary calls complete.                                      *)
THEOREM StatusesAgree == Spec => []StatusAgrees
<1>1. ASSUME NEW g \in Groups, DOMAIN g # {}
      PROVE  Complete(g) <=> DeriveGroupStatus(g) \in Terminal \cup {"completed"}
  <2>1. \A a \in DOMAIN g : g[a] \in Terminal \/ g[a] = "pending" \/ g[a] = "running"
    BY GroupFacts DEF Status
  <2>2. CASE Complete(g)
    <3>1. With(g, "pending") = {} /\ With(g, "running") = {}
      BY <2>2 DEF Complete, With, Terminal
    <3> QED
      BY <1>1, <2>2, <3>1 DEF DeriveGroupStatus, Terminal
  <2>3. CASE ~Complete(g)
    <3>1. With(g, "running") \cup With(g, "pending") # {}
      BY <1>1, <2>1, <2>3 DEF Complete, With
    <3> QED
      BY <2>3, <3>1 DEF DeriveGroupStatus, Terminal
  <2> QED
    BY <2>2, <2>3
<1>2. ASSUME NEW g \in Groups, DOMAIN g = {}
      PROVE  Complete(g) <=> DeriveGroupStatus(g) \in Terminal \cup {"completed"}
  BY <1>2 DEF Complete, DeriveGroupStatus, With, Terminal
<1>3. StatusAgrees
  BY <1>1, <1>2 DEF StatusAgrees
<1> QED
  BY <1>3, PTL

(* While no two operations overlap and none dies, the files hold every     *)
(* finding and every agent's last status that an operation acknowledged.   *)
THEOREM SerialKeepsAcks == Spec => []SerialKeeps
<1>1. Typed /\ Serial => SerialKeeps
  <2> SUFFICES ASSUME Typed, Serial, calm, AllIdle PROVE
        /\ acked \subseteq LoadScratchpad(pad).found
        /\ \A a \in Agents : last[a] # "none" => a \in DOMAIN group /\ group[a] = last[a]
    BY DEF SerialKeeps
  <2>1. GroupRests /\ PadRests
    BY DEF Serial
  <2> QED
    BY <2>1 DEF GroupRests, Unborn, Faithful, PadRests, Stores
<1> QED
  BY <1>1, TypedHolds, SerialHolds, PTL

(* While no two operations overlap and none dies, maybe_checkpoint keeps   *)
(* the last checkpoint less than an interval behind the progress.          *)
THEOREM CheckpointsFresh == Spec => []CheckpointFresh
<1>1. Serial => CheckpointFresh
  BY DEF Serial, PadRests, Stores, CheckpointFresh
<1> QED
  BY <1>1, SerialHolds, PTL

(* While no two operations overlap, none dies and no write fails, the      *)
(* parent has been notified once every agent's last status is final and an *)
(* operation that looks for completion was answered since: whatever mix of *)
(* completion.track, batches, task-group updates and queries the clients   *)
(* start, none of the looks at the complete group goes by in silence.      *)
THEOREM ParentToldWhenSerial == Spec => []NotifiedWhenSerial
<1>1. Serial /\ Heard => NotifiedWhenSerial
  <2> SUFFICES ASSUME Serial, Heard, calm, AllIdle, AllReported, asked PROVE told
    BY DEF NotifiedWhenSerial
  <2>1. GroupRests /\ born # {}
    BY DEF Serial, AllReported
  <2>2. Faithful(group, last, born)
    BY <2>1 DEF GroupRests, Unborn
  <2>3. \A a \in Agents : a \in born \/ last[a] # "none" => last[a] \in Terminal
    BY DEF AllReported
  <2>4. Complete(group)
    BY <2>2, <2>3, ReportedComplete
  <2> QED
    BY <2>2, <2>4 DEF Heard, Faithful
<1> QED
  BY <1>1, SerialHolds, HeardHolds, PTL
=============================================================================
