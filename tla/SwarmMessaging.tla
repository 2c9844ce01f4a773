--------------------------- MODULE SwarmMessaging ---------------------------
(***************************************************************************)
(* Inter-session messages of the swarm runtime,                            *)
(* core/layer0/ops/src/swarm_runtime.rs: mailboxes, time to live, the      *)
(* exactly-once index, the dead-letter queue and its retry.                *)
(*                                                                         *)
(* As in SwarmSessions an invocation is Begin (which drains what expired)  *)
(* followed by one command, and times are kept as the time left.  Sessions *)
(* are never removed from the table, so the set of sessions and their      *)
(* lineage are constants here; reachability is changed by the environment  *)
(* (quarantine, resume, restart recovery: see SwarmSessions).              *)
(***************************************************************************)
EXTENDS Naturals, Sequences, SequencesExt, Subsequences

CONSTANTS
    MailboxOrder,   \* the sessions, in the order of the mailbox map
    Parent,         \* parent_id of each session, None at the top
    None,
    Coordinator,    \* the sender that is not a session
    Payloads,
    Deliveries,     \* the delivery guarantees asked for
    Ttls,           \* values of --ttl-ms
    DefaultTtl,     \* DEFAULT_MESSAGE_TTL_MS
    MaxUnread,      \* MAX_MAILBOX_UNREAD
    MaxDead,        \* MAX_DEAD_LETTER_ROWS
    Limits,         \* values of receive's --limit
    MaxIds          \* bound: messages created in one behaviour

Sessions == Range(MailboxOrder)
Guarantee == {"at_most_once", "at_least_once", "exactly_once"}

ASSUME MessagingAssumption ==
    /\ MailboxOrder \in Seq(Sessions) /\ IsInjective(MailboxOrder)
    /\ Parent \in [Sessions -> Sessions \cup {None}] /\ None \notin Sessions
    /\ Coordinator \notin Sessions
    /\ Deliveries \subseteq Guarantee
    /\ Ttls \subseteq Nat \ {0} /\ DefaultTtl \in Nat \ {0}
    /\ MaxUnread \in Nat \ {0} /\ MaxDead \in Nat \ {0} /\ MaxIds \in Nat
    /\ Limits \subseteq Nat \ {0}

VARIABLES
    unread,     \* mailboxes[s].unread
    read,       \* mailboxes[s].read
    dead,       \* dead_letters, oldest first
    dedupe,     \* the keys of exactly_once_dedupe
    reachable,  \* sessions[s].reachable
    nextId,     \* message identifiers are fresh: see NewMessage
    pc

vars == <<unread, read, dead, dedupe, reachable, nextId, pc>>

Senders == Sessions \cup {Coordinator}

(* The dedupe key of an exactly-once message hashes sender, recipient and  *)
(* payload (and the guarantee, which is then the same in all keys).        *)
Key(m) == <<m.from, m.to, m.body>>

Message ==
    [id : 1 .. MaxIds, from : Senders, to : Sessions, body : Payloads,
     delivery : Guarantee, ttl : Nat, left : Nat, acked : BOOLEAN, deferred : BOOLEAN]

TypeOK ==
    /\ unread \in [Sessions -> Seq(Message)]
    /\ read \in [Sessions -> Seq(Message)]
    /\ dead \in Seq(Message)
    /\ dedupe \subseteq Senders \X Sessions \X Payloads
    /\ reachable \in [Sessions -> BOOLEAN]
    /\ nextId \in 1 .. MaxIds + 1
    /\ pc \in {"idle", "command"}

Init ==
    /\ unread = [s \in Sessions |-> <<>>] /\ read = unread
    /\ dead = <<>> /\ dedupe = {}
    /\ reachable \in [Sessions -> BOOLEAN]
    /\ nextId = 1 /\ pc = "idle"

-----------------------------------------------------------------------------
(* append_dead_letter, for several messages: the oldest rows make room.    *)
AppendDead(rows, ms) ==
    LET all == rows \o ms
    IN  IF Len(all) <= MaxDead THEN all ELSE SubSeq(all, Len(all) - MaxDead + 1, Len(all))

(* The positions of the messages whose time is up; a drain takes them   *)
(* out of every mailbox in turn.                                           *)
Expired(q) == {i \in DOMAIN q : q[i].left = 0}

Drained ==
    FlattenSeq([k \in DOMAIN MailboxOrder |->
                  Picked(unread[MailboxOrder[k]], Expired(unread[MailboxOrder[k]]))])

(* The start of run(): drain_expired_messages.                             *)
Begin_Copies ==
    /\ pc = "idle" /\ pc' = "command"
    /\ dead' = AppendDead(dead, Drained)
    /\ UNCHANGED <<unread, read, dedupe, reachable, nextId>>

Begin_NoDrain ==
    /\ pc = "idle" /\ pc' = "command"
    /\ UNCHANGED <<unread, read, dead, dedupe, reachable, nextId>>

Begin ==
    /\ pc = "idle" /\ pc' = "command"
    /\ unread' = [s \in Sessions |-> Picked(unread[s], DOMAIN unread[s] \ Expired(unread[s]))]
    /\ dead' = AppendDead(dead, Drained)
    /\ UNCHANGED <<read, dedupe, reachable, nextId>>

Return == pc = "command" /\ pc' = "idle"

(* A command that is refused, or that only reports.                        *)
Status == Return /\ UNCHANGED <<unread, read, dead, dedupe, reachable, nextId>>

-----------------------------------------------------------------------------
(* is_sibling_or_child_allowed and the checks before it.                   *)
Allowed(from, to) ==
    from # Coordinator => from # to /\ (Parent[from] = Parent[to] \/ Parent[to] = from)

(* next_message_id hashes sender, recipient, payload and the millisecond,  *)
(* and tries again while a mailbox has that identifier.  It is taken to be *)
(* new: two messages alike in all four would share it, if the first one is *)
(* in the dead letters by then.                                            *)
NewMessage(from, to, body, g, ttl) ==
    [id |-> nextId, from |-> from, to |-> to, body |-> body, delivery |-> g,
     ttl |-> ttl, left |-> ttl, acked |-> FALSE, deferred |-> ~reachable[to]]

(* send_session_message after the scope checks, with `rows` as the         *)
(* dead-letter queue it finds.                                             *)
Deliver_NoDedupe(rows, m) ==
    /\ unread' = [unread EXCEPT ![m.to] = Append(@, m)]
    /\ dead' = rows
    /\ dedupe' = dedupe \cup {Key(m)}
    /\ nextId <= MaxIds /\ nextId' = nextId + 1

Deliver_DropsOverflow(rows, m) ==
    IF (m.delivery = "exactly_once" /\ Key(m) \in dedupe) \/ Len(unread[m.to]) >= MaxUnread
    THEN dead' = rows /\ UNCHANGED <<unread, dedupe, nextId>>
    ELSE
      /\ nextId <= MaxIds /\ nextId' = nextId + 1
      /\ unread' = [unread EXCEPT ![m.to] = Append(@, m)]
      /\ dedupe' = IF m.delivery = "exactly_once" THEN dedupe \cup {Key(m)} ELSE dedupe
      /\ dead' = rows

Deliver(rows, m) ==
    IF m.delivery = "exactly_once" /\ Key(m) \in dedupe
    THEN dead' = rows /\ UNCHANGED <<unread, dedupe, nextId>>
    ELSE
      /\ nextId <= MaxIds /\ nextId' = nextId + 1
      /\ IF \/ Len(unread[m.to]) >= MaxUnread
            \/ ~reachable[m.to] /\ m.delivery = "at_most_once"
         THEN dead' = AppendDead(rows, <<m>>) /\ UNCHANGED <<unread, dedupe>>
         ELSE /\ unread' = [unread EXCEPT ![m.to] = Append(@, m)]
              /\ dedupe' = IF m.delivery = "exactly_once" THEN dedupe \cup {Key(m)} ELSE dedupe
              /\ dead' = rows

(* sessions send, and every internal sender: handoffs, networks, roles.    *)
Send(from, to, body, g, ttl) ==
    /\ Return
    /\ Allowed(from, to)
    /\ Deliver(dead, NewMessage(from, to, body, g, ttl))
    /\ UNCHANGED <<read, reachable>>

(* receive_session_messages with --mark-read: the oldest `limit` messages. *)
Receive_Newest(s, limit) ==
    /\ Return /\ unread[s] # <<>>
    /\ read' = [read EXCEPT ![s] = Append(@, Last(unread[s]))]
    /\ unread' = [unread EXCEPT ![s] = Front(@)]
    /\ UNCHANGED <<dead, dedupe, reachable, nextId>>

Receive(s, limit) ==
    /\ Return /\ unread[s] # <<>>
    /\ LET n == IF Len(unread[s]) < limit THEN Len(unread[s]) ELSE limit
       IN  /\ read' = [read EXCEPT ![s] = @ \o SubSeq(unread[s], 1, n)]
           /\ unread' = [unread EXCEPT ![s] = SubSeq(@, n + 1, Len(@))]
    /\ UNCHANGED <<dead, dedupe, reachable, nextId>>

MarkAck(q, id) == [i \in DOMAIN q |-> IF q[i].id = id THEN [q[i] EXCEPT !.acked = TRUE] ELSE q[i]]

(* acknowledge_session_message: wherever the message is, read or not.      *)
Acknowledge(s, id) ==
    /\ Return
    /\ \E i \in DOMAIN (unread[s] \o read[s]) : (unread[s] \o read[s])[i].id = id
    /\ unread' = [unread EXCEPT ![s] = MarkAck(@, id)]
    /\ read' = [read EXCEPT ![s] = MarkAck(@, id)]
    /\ UNCHANGED <<dead, dedupe, reachable, nextId>>

(* sessions_retry_dead_letter: the row leaves the queue, then its content  *)
(* is sent as a new message, whatever becomes of that.                     *)
Retry(i) ==
    /\ Return
    /\ LET m == dead[i]
           ttl == IF m.ttl > DefaultTtl THEN m.ttl ELSE DefaultTtl
       IN  Deliver(RemoveAt(dead, i), NewMessage(m.from, m.to, m.body, m.delivery, ttl))
    /\ UNCHANGED <<read, reachable>>

-----------------------------------------------------------------------------
SetReachable(s) ==
    /\ pc = "idle"
    /\ reachable' = [reachable EXCEPT ![s] = ~@]
    /\ UNCHANGED <<unread, read, dead, dedupe, nextId, pc>>

(* The clock moves between invocations; only unread messages expire.       *)
Elapse ==
    /\ pc = "idle"
    /\ unread' = [s \in Sessions |->
                    [i \in DOMAIN unread[s] |->
                       [unread[s][i] EXCEPT !.left = IF @ = 0 THEN 0 ELSE @ - 1]]]
    /\ UNCHANGED <<read, dead, dedupe, reachable, nextId, pc>>

Commands ==
    \/ Status
    \/ \E from \in Senders, to \in Sessions, body \in Payloads, g \in Deliveries, ttl \in Ttls :
          Send(from, to, body, g, ttl)
    \/ \E s \in Sessions, n \in Limits : Receive(s, n)
    \/ \E s \in Sessions, id \in 1 .. MaxIds : Acknowledge(s, id)
    \/ \E i \in DOMAIN dead : Retry(i)

Next == Begin \/ Commands \/ (\E s \in Sessions : SetReachable(s)) \/ Elapse

Spec == Init /\ [][Next]_vars

(* Commands keep arriving and finish; the clock moves between them.        *)
FairSpec == Spec /\ WF_vars(Begin) /\ WF_vars(Commands) /\ SF_vars(Elapse)

-----------------------------------------------------------------------------
(* Properties.                                                             *)

Messages(q) == {q[i] : i \in DOMAIN q}
InMailboxes == UNION {Messages(unread[s]) \cup Messages(read[s]) : s \in Sessions}

(* Exactly-once: the mailboxes never hold two messages with one key,       *)
(* however sends, overflows, expiries and retries of dead letters are      *)
(* interleaved (the index of send_session_message).                        *)
ExactlyOnceDelivered ==
    \A m, n \in InMailboxes :
        m.delivery = "exactly_once" /\ n.delivery = "exactly_once" /\ Key(m) = Key(n) => m = n

(* A message identifier is in one place: no drain, receive, overflow or    *)
(* retry leaves a second copy behind in a mailbox or the dead letters.     *)
OnePlace ==
    /\ \A s \in Sessions : IsInjective([i \in DOMAIN (read[s] \o unread[s] \o dead) |->
                                          (read[s] \o unread[s] \o dead)[i].id])
    /\ \A s, t \in Sessions : s # t =>
          {m.id : m \in Messages(read[s] \o unread[s])} \cap
          {m.id : m \in Messages(read[t] \o unread[t])} = {}

(* A mailbox is first in, first out: what was read precedes what is        *)
(* unread, both in the order of sending, although receives take several    *)
(* messages, expiry removes from the middle and retries send again.        *)
MailboxFifo ==
    \A s \in Sessions : LET q == read[s] \o unread[s]
                        IN  \A i, j \in DOMAIN q : i < j => q[i].id < q[j].id

(* No receiver gets a message past its time to live: every invocation      *)
(* drains what expired before it serves its command.                       *)
NeverReadExpired == \A s \in Sessions : \A m \in Messages(read[s]) : m.left > 0

(* Every unread message is eventually received or dead-lettered.           *)
UnreadDrains ==
    \A s \in Sessions, id \in 1 .. MaxIds :
        (\E m \in Messages(unread[s]) : m.id = id) ~> ~(\E m \in Messages(unread[s]) : m.id = id)

(* V6-SWARM-035, "replay paths" for dead letters: a message leaves the     *)
(* dead letters by its own retry, or because others fill the queue; and a  *)
(* retry puts it into its mailbox, or back under a new identifier, even    *)
(* where the queue is full.  One loss is left out, a retry of exactly-once *)
(* whose key is in the index: a message that expired unread finds its own  *)
(* key there and is not delivered, although the row is gone.               *)
RetryLosesOnlyDuplicates ==
    [][/\ \A m \in Messages(dead) \ Messages(dead') :
             \/ \E i \in DOMAIN dead : dead[i] = m /\ Retry(i)
             \/ Len(dead') = MaxDead /\ \A i \in DOMAIN dead : ~Retry(i)
       /\ \A i \in DOMAIN dead :
             /\ Retry(i)
             /\ dead[i].delivery # "exactly_once" \/ Key(dead[i]) \notin dedupe
             => \E n \in Messages(unread'[dead[i].to]) \cup Messages(dead') :
                   Key(n) = Key(dead[i]) /\ n.id = nextId]_vars
=============================================================================
