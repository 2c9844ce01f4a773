---------------------------- MODULE AtomicStore ----------------------------
(***************************************************************************)
(* What the adaptive layer store promises its callers: every command takes *)
(* effect on the JSON document of its path at one instant, or fails        *)
(* without effect.  Documents are compared by canonical_hash, which is     *)
(* taken to be injective, so a hash is the document itself.                *)
(***************************************************************************)
CONSTANTS
    Procs,
    Paths,
    Values,     \* the JSON documents
    Missing,    \* MISSING_HASH_SENTINEL; also: no document
    Unchecked,  \* an empty expected_hash
    Requests    \* the commands issued

Content == Values \cup {Missing}

Command ==
    [op : {"read", "delete"}, path : Paths]
      \cup [op : {"ensure"}, path : Paths, value : Values]
      \cup [op : {"set"}, path : Paths, value : Values, expect : Content \cup {Unchecked}]

NoRequest == [op |-> "none"]

Answer == [status : {"none", "changed", "unchanged", "failed"}, value : Content]
NoAnswer == [status |-> "none", value |-> Missing]

VARIABLES
    store,  \* the document of each path
    req,    \* the command each process is executing
    res     \* what it will answer, once decided

vars == <<store, req, res>>

(* An expected document, where one is given, must be the one found.        *)
Conflict(r, cur) == r.expect \notin {Unchecked, cur}

(* Whether command r, finding `cur`, changes the document.                 *)
Changes(r, cur) ==
    CASE r.op = "set"    -> ~Conflict(r, cur)
      [] r.op = "ensure" -> cur = Missing
      [] r.op = "delete" -> cur # Missing
      [] OTHER           -> FALSE

(* The document it leaves.                                                 *)
Result(r, cur) ==
    IF ~Changes(r, cur) THEN cur ELSE IF r.op = "delete" THEN Missing ELSE r.value

AnswerTo(r, cur) ==
    [status |-> IF Changes(r, cur) THEN "changed" ELSE "unchanged", value |-> Result(r, cur)]

Init ==
    /\ store = [x \in Paths |-> Missing]
    /\ req = [p \in Procs |-> NoRequest]
    /\ res = [p \in Procs |-> NoAnswer]

Issue(p, r) ==
    /\ req[p] = NoRequest
    /\ req' = [req EXCEPT ![p] = r]
    /\ UNCHANGED <<store, res>>

Undecided(p) == req[p] # NoRequest /\ res[p].status = "none"

Apply(p) ==
    /\ Undecided(p)
    /\ LET r == req[p] IN
         /\ store' = [store EXCEPT ![r.path] = Result(r, @)]
         /\ res' = [res EXCEPT ![p] = AnswerTo(r, store[r.path])]
    /\ UNCHANGED req

Fail(p) ==
    /\ Undecided(p)
    /\ res' = [res EXCEPT ![p] = [status |-> "failed", value |-> Missing]]
    /\ UNCHANGED <<store, req>>

(* The process answers, or dies with or without having taken effect.       *)
End(p) ==
    /\ req[p] # NoRequest
    /\ req' = [req EXCEPT ![p] = NoRequest]
    /\ res' = [res EXCEPT ![p] = NoAnswer]
    /\ UNCHANGED store

Next ==
    \E p \in Procs : (\E r \in Requests : Issue(p, r)) \/ Apply(p) \/ Fail(p) \/ End(p)

Spec == Init /\ [][Next]_vars
=============================================================================
