--------------------------- MODULE AdaptiveStore ---------------------------
(***************************************************************************)
(* The adaptive layer store, core/layer0/ops/src/                          *)
(* adaptive_layer_store_kernel.rs: JSON documents written with a temporary *)
(* file and a rename under a lock file per path, a mutation log and a      *)
(* pointer index shared by all paths.  Each invocation is a process of its *)
(* own; one action below is one operation on the file system.              *)
(*                                                                         *)
(* Ages are kept up to MaxAge.  With MaxAge <= Stale no lock is ever found *)
(* stale, and the store implements AtomicStore; with a larger MaxAge locks *)
(* of dead (or slow) processes are taken over.                             *)
(***************************************************************************)
EXTENDS Naturals, Sequences

CONSTANTS
    Procs, Paths, Values, Missing, Unchecked, Requests,     \* as in AtomicStore
    NoLock,
    Timeout,    \* WRITE_LOCK_TIMEOUT_MS
    Stale,      \* WRITE_LOCK_STALE_MS
    MaxAge,     \* bound: the oldest a lock file gets
    Keys,       \* kind|uid|path_ref|entity_id of a pointer row
    Hashes,     \* hash16 of a pointer row
    NoHash,
    Pointers,   \* project_adaptive_pointers: the rows of a path and content
    Crashes,    \* whether processes die in the middle of a command
    DiskFails   \* whether writes may fail

VARIABLES
    file,       \* the document of each path
    lock,       \* the age of its .write.lock file, or NoLock
    pc, req, res, waited,
    logged,     \* the content in the last row of a path in the mutation log
    rows,       \* adaptive_pointers.jsonl
    index,      \* adaptive_pointer_index.json
    mine, todo  \* a process's copy of the index and the rows it has to emit

Abstract == INSTANCE AtomicStore WITH store <- file

Content == Values \cup {Missing}
NoRequest == [op |-> "none"]
NoAnswer == [status |-> "none", value |-> Missing]

ASSUME AdaptiveAssumption ==
    /\ Missing \notin Values /\ Unchecked \notin Content
    /\ Requests \subseteq Abstract!Command
    /\ Timeout \in Nat /\ Stale \in Nat /\ MaxAge \in Nat /\ NoLock \notin Nat
    /\ NoHash \notin Hashes
    /\ Pointers \in [Paths -> [Content -> Seq(Keys \X Hashes)]]
    /\ Crashes \in BOOLEAN /\ DiskFails \in BOOLEAN

files == <<file, logged, rows, index>>
vars == <<file, lock, pc, req, res, waited, logged, rows, index, mine, todo>>

Holding == {"locked", "write", "log", "index", "emit", "release"}
Waiting == {"acquire", "inspect", "steal"}
Locations == {"idle", "read", "answer"} \cup Waiting \cup Holding

Index == [Keys -> Hashes \cup {NoHash}]
EmptyIndex == [k \in Keys |-> NoHash]

TypeOK ==
    /\ file \in [Paths -> Content]
    /\ lock \in [Paths -> (0 .. MaxAge) \cup {NoLock}]
    /\ pc \in [Procs -> Locations]
    /\ req \in [Procs -> Abstract!Command \cup {NoRequest}]
    /\ res \in [Procs -> Abstract!Answer]
    /\ waited \in [Procs -> 0 .. Timeout]
    /\ logged \in [Paths -> Content]
    /\ rows \subseteq Keys \X Hashes
    /\ index \in Index
    /\ mine \in [Procs -> Index]
    /\ todo \in [Procs -> Seq(Keys \X Hashes)]

Init ==
    /\ file = [x \in Paths |-> Missing] /\ logged = file
    /\ lock = [x \in Paths |-> NoLock]
    /\ pc = [p \in Procs |-> "idle"]
    /\ req = [p \in Procs |-> NoRequest]
    /\ res = [p \in Procs |-> NoAnswer]
    /\ waited = [p \in Procs |-> 0]
    /\ rows = {}
    /\ index = EmptyIndex
    /\ mine = [p \in Procs |-> EmptyIndex]
    /\ todo = [p \in Procs |-> <<>>]

-----------------------------------------------------------------------------
Goto(p, l) == pc' = [pc EXCEPT ![p] = l]

At(p, l) == pc[p] = l

Path(p) == req[p].path

Decide(p, status, value) == res' = [res EXCEPT ![p] = [status |-> status, value |-> value]]

(* The `?` of a failed operation: the answer is an error, and a lock that  *)
(* is held stays behind.                                                   *)
Error(p) == Decide(p, "failed", Missing) /\ Goto(p, "answer")

Issue(p, r) ==
    /\ At(p, "idle")
    /\ req' = [req EXCEPT ![p] = r]
    /\ Goto(p, IF r.op = "read" THEN "read" ELSE "acquire")
    /\ UNCHANGED <<files, lock, res, waited, mine, todo>>

(* read-json takes no lock.                                                *)
ReadJson(p) ==
    /\ At(p, "read")
    /\ Decide(p, "unchanged", file[Path(p)])
    /\ Goto(p, "answer")
    /\ UNCHANGED <<files, lock, req, waited, mine, todo>>

(* The end of the process, and of what it had in memory.                   *)
Forget(p) ==
    /\ req' = [req EXCEPT ![p] = NoRequest]
    /\ res' = [res EXCEPT ![p] = NoAnswer]
    /\ waited' = [waited EXCEPT ![p] = 0]
    /\ mine' = [mine EXCEPT ![p] = EmptyIndex]
    /\ todo' = [todo EXCEPT ![p] = <<>>]
    /\ Goto(p, "idle")
    /\ UNCHANGED files

PrintAnswer(p) == At(p, "answer") /\ Forget(p) /\ UNCHANGED lock

-----------------------------------------------------------------------------
(* acquire_write_lock: create_new, and on AlreadyExists a look at the      *)
(* modification time.                                                      *)
CreateLock_Overwrites(p) ==
    /\ At(p, "acquire")
    /\ lock' = [lock EXCEPT ![Path(p)] = 0] /\ Goto(p, "locked")
    /\ UNCHANGED <<files, req, res, waited, mine, todo>>

CreateLock(p) ==
    /\ At(p, "acquire")
    /\ IF lock[Path(p)] = NoLock
       THEN lock' = [lock EXCEPT ![Path(p)] = 0] /\ Goto(p, "locked")
       ELSE UNCHANGED lock /\ Goto(p, "inspect")
    /\ UNCHANGED <<files, req, res, waited, mine, todo>>

IsStale_Never(x) == FALSE

IsStale(x) == lock[x] # NoLock /\ lock[x] > Stale

(* A lock that is not stale, or has vanished, is waited for.               *)
Inspect_NoTimeout(p) ==
    /\ At(p, "inspect")
    /\ UNCHANGED res /\ Goto(p, IF IsStale(Path(p)) THEN "steal" ELSE "acquire")
    /\ UNCHANGED <<files, lock, req, waited, mine, todo>>

Inspect(p) ==
    /\ At(p, "inspect")
    /\ \/ IsStale(Path(p)) /\ Goto(p, "steal") /\ UNCHANGED res
       \/ ~IsStale(Path(p)) /\ waited[p] >= Timeout /\ Error(p)
       \/ ~IsStale(Path(p)) /\ waited[p] < Timeout /\ Goto(p, "acquire") /\ UNCHANGED res
    /\ UNCHANGED <<files, lock, req, waited, mine, todo>>

(* remove_file of the lock judged stale: of whatever lock is there now.    *)
RemoveStale(p) ==
    /\ At(p, "steal")
    /\ lock' = [lock EXCEPT ![Path(p)] = NoLock]
    /\ Goto(p, "acquire")
    /\ UNCHANGED <<files, req, res, waited, mine, todo>>

-----------------------------------------------------------------------------
Conflict(r, cur) ==
    /\ r.expect # Unchecked
    /\ IF r.expect = Missing THEN cur # Missing ELSE cur # r.expect

(* Under the lock: read_json_with_hash and the comparison of set-json, the *)
(* existing document of ensure-json, exists() of delete-path.              *)
MustWrite(r, cur) ==
    CASE r.op = "set"    -> ~Conflict(r, cur)
      [] r.op = "ensure" -> cur = Missing
      [] OTHER           -> cur # Missing

Compare_TrustsCaller(p) ==
    /\ At(p, "locked")
    /\ Goto(p, "write") /\ UNCHANGED res
    /\ UNCHANGED <<files, lock, req, waited, mine, todo>>

Compare(p) ==
    /\ At(p, "locked")
    /\ IF MustWrite(req[p], file[Path(p)])
       THEN Goto(p, "write") /\ UNCHANGED res
       ELSE /\ Decide(p, "unchanged", file[Path(p)])
            /\ Goto(p, IF req[p].op = "delete" THEN "log" ELSE "release")
    /\ UNCHANGED <<files, lock, req, waited, mine, todo>>

(* What a command leaves in the file and writes to the log.                *)
NewContent(p) == IF req[p].op = "delete" THEN Missing ELSE req[p].value

(* The rename of write_json_atomic, or remove_file.                        *)
Write_Unlocks(p) ==
    /\ At(p, "write")
    /\ req[p].op = "delete" => file[Path(p)] # Missing
    /\ file' = [file EXCEPT ![Path(p)] = NewContent(p)]
    /\ lock' = [lock EXCEPT ![Path(p)] = NoLock]
    /\ Decide(p, "changed", NewContent(p))
    /\ Goto(p, "log")
    /\ UNCHANGED <<req, waited, logged, rows, index, mine, todo>>

Write(p) ==
    /\ At(p, "write")
    /\ req[p].op = "delete" => file[Path(p)] # Missing
    /\ file' = [file EXCEPT ![Path(p)] = NewContent(p)]
    /\ Decide(p, "changed", NewContent(p))
    /\ Goto(p, "log")
    /\ UNCHANGED <<lock, req, waited, logged, rows, index, mine, todo>>

WriteFails(p) ==
    /\ At(p, "write")
    /\ DiskFails \/ (req[p].op = "delete" /\ file[Path(p)] = Missing)
    /\ Error(p)
    /\ UNCHANGED <<files, lock, req, waited, mine, todo>>

(* append_mutation_log, whose failure is ignored.                          *)
AppendLog(p) ==
    /\ At(p, "log")
    /\ \/ logged' = [logged EXCEPT ![Path(p)] = NewContent(p)]
       \/ DiskFails /\ UNCHANGED logged
    /\ Goto(p, "index")
    /\ UNCHANGED <<file, lock, req, res, waited, rows, index, mine, todo>>

-----------------------------------------------------------------------------
(* emit_adaptive_pointers: rows whose hash the index does not have are     *)
(* appended one by one, then the whole index is written back.              *)
LoadIndex(p) ==
    /\ At(p, "index")
    /\ LET new == Pointers[Path(p)][NewContent(p)]
       IN  IF new = <<>>
           THEN Goto(p, "release") /\ UNCHANGED <<mine, todo>>
           ELSE /\ Goto(p, "emit")
                /\ mine' = [mine EXCEPT ![p] = index]
                /\ todo' = [todo EXCEPT ![p] = new]
    /\ UNCHANGED <<files, lock, req, res, waited>>

EmitRow_OnlyIndexed(p) ==
    /\ At(p, "emit") /\ todo[p] # <<>>
    /\ LET row == Head(todo[p])
       IN  /\ mine' = [mine EXCEPT ![p][row[1]] = row[2]] /\ UNCHANGED rows
    /\ todo' = [todo EXCEPT ![p] = Tail(@)]
    /\ UNCHANGED <<file, lock, pc, req, res, waited, logged, index>>

EmitRow(p) ==
    /\ At(p, "emit") /\ todo[p] # <<>>
    /\ LET row == Head(todo[p])
       IN  IF mine[p][row[1]] = row[2]
           THEN UNCHANGED <<rows, mine>>
           ELSE /\ rows' = rows \cup {row}
                /\ mine' = [mine EXCEPT ![p][row[1]] = row[2]]
    /\ todo' = [todo EXCEPT ![p] = Tail(@)]
    /\ UNCHANGED <<file, lock, pc, req, res, waited, logged, index>>

(* A failed append or save is turned into zero statistics.                 *)
EmitFails(p) ==
    /\ At(p, "emit") /\ DiskFails
    /\ Goto(p, "release")
    /\ UNCHANGED <<files, lock, req, res, waited, mine, todo>>

SaveIndex(p) ==
    /\ At(p, "emit") /\ todo[p] = <<>>
    /\ index' = mine[p]
    /\ Goto(p, "release")
    /\ UNCHANGED <<file, lock, req, res, waited, logged, rows, mine, todo>>

(* release_write_lock removes the lock file, whoever created it.           *)
Release(p) ==
    /\ At(p, "release")
    /\ lock' = [lock EXCEPT ![Path(p)] = NoLock]
    /\ Forget(p)

Crash(p) == Crashes /\ ~At(p, "idle") /\ Forget(p) /\ UNCHANGED lock

Elapse ==
    /\ lock' = [x \in Paths |-> IF lock[x] \in 0 .. MaxAge - 1 THEN lock[x] + 1 ELSE lock[x]]
    /\ waited' = [p \in Procs |-> IF pc[p] \in Waiting /\ waited[p] < Timeout
                                  THEN waited[p] + 1 ELSE waited[p]]
    /\ UNCHANGED <<files, pc, req, res, mine, todo>>

-----------------------------------------------------------------------------
Step(p) ==
    \/ ReadJson(p) \/ PrintAnswer(p)
    \/ CreateLock(p) \/ Inspect(p) \/ RemoveStale(p)
    \/ Compare(p) \/ Write(p) \/ WriteFails(p) \/ AppendLog(p)
    \/ LoadIndex(p) \/ EmitRow(p) \/ EmitFails(p) \/ SaveIndex(p)
    \/ Release(p)

Next ==
    \/ \E p \in Procs : (\E r \in Requests : Issue(p, r)) \/ Step(p) \/ Crash(p)
    \/ Elapse

Spec == Init /\ [][Next]_vars

(* A process that runs keeps running, callers keep calling, time passes.   *)
FairSpec ==
    /\ Spec
    /\ \A p \in Procs : WF_vars(Step(p)) /\ WF_vars(\E r \in Requests : Issue(p, r))
    /\ WF_vars(Elapse)

-----------------------------------------------------------------------------
(* Properties.                                                             *)

(* Without takeovers every command takes effect at one instant: the time   *)
(* between the comparison of set-json and its rename belongs to nobody     *)
(* else, whatever dies, fails, leaks its lock or gives up waiting.         *)
Atomic == Abstract!Spec

(* While a command holds its lock no other command holds the same path's,  *)
(* and the lock file exists.                                               *)
MutualExclusion ==
    /\ \A p \in Procs : pc[p] \in Holding => lock[Path(p)] # NoLock
    /\ \A p, q \in Procs : p # q /\ pc[p] \in Holding /\ pc[q] \in Holding => Path(p) # Path(q)

(* A row of the mutation log states what the file holds when it is         *)
(* written: changes of one path are logged in the order they are made.     *)
LogFollowsFile ==
    [][\A x \in Paths : logged'[x] # logged[x] => logged'[x] = file[x]]_vars

(* An index entry is only saved for a row that was emitted, although the   *)
(* index is read and written back by commands on different paths at the    *)
(* same time: no pointer is skipped for a row that does not exist.         *)
IndexHasRows ==
    \A k \in Keys : index[k] # NoHash => <<k, index[k]>> \in rows

(* Every command ends, with an error if it must: waiting is bounded.       *)
CommandsEnd == \A p \in Procs : (req[p] # NoRequest) ~> (req[p] = NoRequest)

(* A lock file nobody holds (its process died, or failed to write) does    *)
(* not block its path for ever.                                            *)
LeakedLocksGo ==
    \A x \in Paths :
        LET leaked == lock[x] # NoLock /\ \A p \in Procs : ~(pc[p] \in Holding /\ Path(p) = x)
        IN  leaked ~> ~leaked
=============================================================================
