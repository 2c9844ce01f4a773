----------------------- MODULE SwarmMessaging_proofs -----------------------
(***************************************************************************)
(* Proofs about inter-session messages, for any sessions and lineage, any  *)
(* payloads and any limits of the mailboxes and of the dead letters.       *)
(***************************************************************************)
EXTENDS SwarmMessaging, DataLemmas

(* Sequences of messages: their identifiers, in order or at least distinct.*)
IdsIn(q) == {q[i].id : i \in DOMAIN q}

Ordered(q) == \A i, j \in DOMAIN q : i < j => q[i].id < q[j].id

Distinct(q) == \A i, j \in DOMAIN q : q[i].id = q[j].id => i = j

(* All of p was sent before all of q.                                      *)
Before(p, q) == \A i \in DOMAIN p, j \in DOMAIN q : p[i].id < q[j].id

(* m and n are one message, whose time and acknowledgement may differ.     *)
Twin(m, n) == m.id = n.id /\ m.delivery = n.delivery /\ Key(m) = Key(n)

(* Every message of p is one of q's.                                       *)
From(p, q) == \A i \in DOMAIN p : \E j \in DOMAIN q : Twin(p[i], q[j])

(* The identifiers in the mailbox of s, and what it holds as one sequence. *)
BoxIds(s) == IdsIn(read[s]) \cup IdsIn(unread[s])
InBox(s) == Messages(read[s]) \cup Messages(unread[s])

(* The inductive invariant.  A mailbox is in the order of sending.         *)
BoxesOrdered ==
    \A s \in Sessions : Ordered(read[s]) /\ Ordered(unread[s]) /\ Before(read[s], unread[s])

(* Identifiers up to nextId have been given out, each to one message.      *)
IdsUsed ==
    /\ \A s \in Sessions : \A m \in InBox(s) : m.id < nextId
    /\ \A x \in IdsIn(dead) : x < nextId

BoxesApart == \A s, t \in Sessions : s # t => BoxIds(s) \cap BoxIds(t) = {}

DeadApart == Distinct(dead) /\ \A s \in Sessions : BoxIds(s) \cap IdsIn(dead) = {}

(* The index has the key of every exactly-once message in a mailbox, and   *)
(* one key stands for one message.                                         *)
Indexed ==
    \A s \in Sessions : \A m \in InBox(s) : m.delivery = "exactly_once" => Key(m) \in dedupe

OneCopy ==
    \A s, t \in Sessions : \A m \in InBox(s), n \in InBox(t) :
        m.delivery = "exactly_once" /\ n.delivery = "exactly_once" /\ Key(m) = Key(n) => m.id = n.id

(* A command finds no expired message.                                     *)
Drainage ==
    /\ \A s \in Sessions : \A m \in Messages(read[s]) : m.left > 0
    /\ pc = "command" => \A s \in Sessions : \A m \in Messages(unread[s]) : m.left > 0

Inv ==
    /\ TypeOK /\ BoxesOrdered /\ IdsUsed /\ BoxesApart /\ DeadApart
    /\ Indexed /\ OneCopy /\ Drainage

-----------------------------------------------------------------------------
(* Operations on sequences of messages.                                    *)

LEMMA MessageSeq ==
    ASSUME NEW q \in Seq(Message)
    PROVE  /\ Len(q) \in Nat /\ DOMAIN q = 1 .. Len(q)
           /\ \A i \in DOMAIN q : q[i] \in Message /\ q[i].id \in Nat
<1>1. Len(q) \in Nat /\ DOMAIN q = 1 .. Len(q) /\ \A i \in DOMAIN q : q[i] \in Message
  BY LenProperties, ElementOfSeq
<1>2. \A m \in Message : m.id \in Nat
  BY MessagingAssumption DEF Message
<1> QED
  BY <1>1, <1>2

LEMMA ConcatMessages ==
    ASSUME NEW p \in Seq(Message), NEW q \in Seq(Message)
    PROVE  /\ p \o q \in Seq(Message)
           /\ Ordered(p) /\ Ordered(q) /\ Before(p, q) => Ordered(p \o q)
           /\ Distinct(p) /\ Distinct(q) /\ IdsIn(p) \cap IdsIn(q) = {} => Distinct(p \o q)
           /\ Messages(p \o q) = Messages(p) \cup Messages(q)
           /\ IdsIn(p \o q) = IdsIn(p) \cup IdsIn(q)
<1> DEFINE r == p \o q
<1> DEFINE l == Len(p)
<1> DEFINE k == Len(q)
<1>1. /\ l \in Nat /\ DOMAIN p = 1 .. l /\ k \in Nat /\ DOMAIN q = 1 .. k
      /\ \A i \in 1 .. l : p[i].id \in Nat
      /\ \A i \in 1 .. k : q[i].id \in Nat
  BY MessageSeq
<1>2. /\ r \in Seq(Message) /\ Len(r) = l + k
      /\ \A i \in 1 .. l + k : r[i] = IF i <= l THEN p[i] ELSE q[i - l]
  BY ConcatProperties
<1>3. DOMAIN r = 1 .. l + k
  BY <1>2, MessageSeq
<1> HIDE DEF r, l, k
<1>4. /\ \A i \in 1 .. l : i \in 1 .. l + k /\ r[i] = p[i]
      /\ \A i \in 1 .. k : l + i \in 1 .. l + k /\ r[l + i] = q[i]
  BY <1>1, <1>2
<1>5. \A i \in 1 .. l + k : \/ i \in 1 .. l /\ r[i] = p[i]
                            \/ i > l /\ i - l \in 1 .. k /\ r[i] = q[i - l]
  BY <1>1, <1>2
<1>6. ASSUME Ordered(p), Ordered(q), Before(p, q) PROVE Ordered(r)
  <2> SUFFICES ASSUME NEW i \in 1 .. l + k, NEW j \in 1 .. l + k, i < j
               PROVE  r[i].id < r[j].id
    BY <1>3 DEF Ordered
  <2>1. CASE j \in 1 .. l
    <3>1. i \in 1 .. l
      BY <1>1, <2>1
    <3>2. p[i].id < p[j].id
      BY <1>1, <1>6, <2>1, <3>1, Zenon DEF Ordered
    <3> QED
      BY <1>4, <2>1, <3>1, <3>2, Zenon
  <2>2. CASE i > l /\ j > l
    <3>1. i - l < j - l /\ i \notin 1 .. l /\ j \notin 1 .. l
      BY <1>1, <2>2
    <3>2. i - l \in 1 .. k /\ r[i] = q[i - l]
      BY <1>5, <3>1, Zenon
    <3>3. j - l \in 1 .. k /\ r[j] = q[j - l]
      BY <1>5, <3>1, Zenon
    <3>4. i - l \in DOMAIN q /\ j - l \in DOMAIN q
      BY <1>1, <3>2, <3>3, Zenon
    <3>5. q[i - l].id < q[j - l].id
      BY <1>6, <3>1, <3>4, Zenon DEF Ordered
    <3> QED
      BY <3>2, <3>3, <3>5, Zenon
  <2>3. CASE i \in 1 .. l /\ j > l
    <3>1. i \in DOMAIN p /\ j \notin 1 .. l /\ ~(i > l)
      BY <1>1, <2>3
    <3>2. r[i] = p[i]
      BY <1>5, <3>1, Zenon
    <3>3. j - l \in 1 .. k /\ r[j] = q[j - l]
      BY <1>5, <3>1, Zenon
    <3>4. j - l \in DOMAIN q
      BY <1>1, <3>3, Zenon
    <3> QED
      BY <1>6, <3>1, <3>2, <3>3, <3>4, Zenon DEF Before
  <2> QED
    BY <1>1, <2>1, <2>2, <2>3
<1>7. ASSUME Distinct(p), Distinct(q), IdsIn(p) \cap IdsIn(q) = {} PROVE Distinct(r)
  <2> SUFFICES ASSUME NEW i \in 1 .. l + k, NEW j \in 1 .. l + k, r[i].id = r[j].id
               PROVE  i = j
    BY <1>3 DEF Distinct
  <2>1. CASE i \in 1 .. l /\ j \in 1 .. l
    BY <1>1, <1>5, <1>7, <2>1 DEF Distinct
  <2>2. CASE i > l /\ j > l
    <3>1. i - l \in 1 .. k /\ j - l \in 1 .. k /\ q[i - l].id = q[j - l].id
      BY <1>1, <1>5, <2>2
    <3>2. i - l = j - l
      BY <1>1, <1>7, <3>1 DEF Distinct
    <3> QED
      BY <1>1, <3>2
  <2>3. ASSUME NEW x \in 1 .. l, NEW y \in 1 .. k PROVE p[x].id # q[y].id
    BY <1>1, <1>7 DEF IdsIn
  <2> QED
    BY <1>1, <1>5, <2>1, <2>2, <2>3
<1>8. /\ \A i \in DOMAIN r : \/ \E j \in DOMAIN p : r[i] = p[j]
                             \/ \E j \in DOMAIN q : r[i] = q[j]
      /\ \A j \in DOMAIN p : \E i \in DOMAIN r : r[i] = p[j]
      /\ \A j \in DOMAIN q : \E i \in DOMAIN r : r[i] = q[j]
  <2>1. \A j \in DOMAIN p : \E i \in DOMAIN r : r[i] = p[j]
    BY <1>1, <1>3, <1>4
  <2>2. \A j \in DOMAIN q : \E i \in DOMAIN r : r[i] = q[j]
    BY <1>1, <1>3, <1>4
  <2>3. \A i \in DOMAIN r : \/ \E j \in DOMAIN p : r[i] = p[j]
                          \/ \E j \in DOMAIN q : r[i] = q[j]
    BY <1>1, <1>3, <1>5
  <2> QED
    BY <2>1, <2>2, <2>3
<1>9. Messages(r) = Messages(p) \cup Messages(q)
  <2>1. \A m : m \in Messages(r) <=> m \in Messages(p) \/ m \in Messages(q)
    BY <1>8 DEF Messages
  <2> QED
    BY <2>1
<1>10. IdsIn(r) = IdsIn(p) \cup IdsIn(q)
  <2>1. \A x : x \in IdsIn(r) <=> x \in IdsIn(p) \/ x \in IdsIn(q)
    BY <1>8 DEF IdsIn
  <2> QED
    BY <2>1
<1> QED
  BY <1>2, <1>6, <1>7, <1>9, <1>10 DEF r

LEMMA OneMessage ==
    ASSUME NEW m \in Message
    PROVE  /\ <<m>> \in Seq(Message) /\ Ordered(<<m>>) /\ Distinct(<<m>>)
           /\ Messages(<<m>>) = {m} /\ IdsIn(<<m>>) = {m.id}
  BY DEF Ordered, Distinct, Messages, IdsIn

LEMMA AppendMessage ==
    ASSUME NEW q \in Seq(Message), NEW m \in Message
    PROVE  Append(q, m) = q \o <<m>>
  BY AppendIsConcat

(* A part of a sequence.                                                   *)
LEMMA PartOfMessages ==
    ASSUME NEW q \in Seq(Message), NEW a \in 1 .. Len(q) + 1, NEW b \in a - 1 .. Len(q)
    PROVE  /\ SubSeq(q, a, b) \in Seq(Message)
           /\ Ordered(q) => Ordered(SubSeq(q, a, b))
           /\ Distinct(q) => Distinct(SubSeq(q, a, b))
           /\ Messages(SubSeq(q, a, b)) = {q[i] : i \in a .. b}
           /\ Messages(SubSeq(q, a, b)) \subseteq Messages(q)
           /\ IdsIn(SubSeq(q, a, b)) = {q[i].id : i \in a .. b}
           /\ IdsIn(SubSeq(q, a, b)) \subseteq IdsIn(q)
           /\ Len(SubSeq(q, a, b)) = b - a + 1
<1> DEFINE r == SubSeq(q, a, b)
<1> DEFINE l == Len(q)
<1> DEFINE n == b - a + 1
<1>1. l \in Nat /\ DOMAIN q = 1 .. l /\ \A i \in 1 .. l : q[i] \in Message
  BY MessageSeq
<1>2. n \in Nat /\ \A i \in 1 .. n : a + i - 1 \in 1 .. l
  BY <1>1
<1>3. /\ r \in Seq(Message) /\ Len(r) = n
      /\ \A i \in 1 .. n : r[i] = q[a + i - 1]
  BY <1>1, <1>2, SubSeqProperties
<1>4. DOMAIN r = 1 .. n
  BY <1>3, MessageSeq
<1> DEFINE at(i) == a + i - 1
<1>5. \A i \in a .. b : i \in DOMAIN q /\ \E j \in DOMAIN r : r[j] = q[i]
  <2> SUFFICES ASSUME NEW i \in a .. b
               PROVE  i \in DOMAIN q /\ \E j \in DOMAIN r : r[j] = q[i]
    OBVIOUS
  <2>1. i - a + 1 \in 1 .. n /\ at(i - a + 1) = i /\ i \in 1 .. l
    BY <1>1
  <2> HIDE DEF r, n
  <2> QED
    BY <1>1, <1>3, <1>4, <2>1
<1>6. /\ \A i \in DOMAIN r : at(i) \in a .. b /\ r[i] = q[at(i)] /\ at(i) \in DOMAIN q
      /\ \A i, j \in DOMAIN r : (i < j => at(i) < at(j)) /\ (at(i) = at(j) => i = j)
  <2>1. \A i \in 1 .. n : at(i) \in a .. b /\ at(i) \in 1 .. l
    BY <1>1
  <2>2. \A i, j \in 1 .. n : (i < j => at(i) < at(j)) /\ (at(i) = at(j) => i = j)
    BY <1>1
  <2>3. \A i \in 1 .. n : r[i] = q[at(i)]
    BY <1>3
  <2> HIDE DEF r, at, n, l
  <2> QED
    BY <1>1, <1>4, <2>1, <2>2, <2>3
<1> HIDE DEF r, l, n, at
<1>7. Ordered(q) => Ordered(r)
  BY <1>6 DEF Ordered
<1>8. Distinct(q) => Distinct(r)
  BY <1>6 DEF Distinct
<1>9. Messages(r) = {q[i] : i \in a .. b} /\ IdsIn(r) = {q[i].id : i \in a .. b}
  BY <1>5, <1>6 DEF Messages, IdsIn
<1>10. Messages(r) \subseteq Messages(q) /\ IdsIn(r) \subseteq IdsIn(q)
  BY <1>1, <1>5, <1>9 DEF Messages, IdsIn
<1> QED
  BY <1>3, <1>7, <1>8, <1>9, <1>10 DEF r, n

(* The elements at some positions.                                         *)
LEMMA PickedMessages ==
    ASSUME NEW q \in Seq(Message), NEW I
    PROVE  /\ Picked(q, I) \in Seq(Message)
           /\ Ordered(q) => Ordered(Picked(q, I))
           /\ Distinct(q) => Distinct(Picked(q, I))
           /\ Messages(Picked(q, I)) = {q[i] : i \in I \cap DOMAIN q}
           /\ IdsIn(Picked(q, I)) = {q[i].id : i \in I \cap DOMAIN q}
<1> DEFINE r == Picked(q, I)
<1>1. r \in Seq(Message) /\ \E at : Selects(r, at, q, I, Len(q))
  BY PickedSelects
<1> HIDE DEF r
<1>2. PICK at : Selects(r, at, q, I, Len(q))
  BY <1>1
<1>3. /\ DOMAIN q = 1 .. Len(q) /\ DOMAIN r = 1 .. Len(r)
      /\ Len(q) \in Nat /\ Len(r) \in Nat
  BY <1>1, MessageSeq
<1>4. /\ \A k \in DOMAIN r : at[k] \in I /\ at[k] \in DOMAIN q /\ r[k] = q[at[k]]
      /\ \A j, k \in DOMAIN r : j < k => at[j] < at[k]
      /\ \A i \in I \cap DOMAIN q : \E k \in DOMAIN r : at[k] = i
  BY <1>2, <1>3 DEF Selects
<1>5. Ordered(q) => Ordered(r)
  BY <1>3, <1>4 DEF Ordered
<1>6. ASSUME Distinct(q) PROVE Distinct(r)
  <2> SUFFICES ASSUME NEW j \in DOMAIN r, NEW k \in DOMAIN r, r[j].id = r[k].id
               PROVE  j = k
    BY DEF Distinct
  <2>1. at[j] = at[k]
    BY <1>4, <1>6 DEF Distinct
  <2> QED
    BY <1>3, <1>4, <2>1
<1>7. Messages(r) = {q[i] : i \in I \cap DOMAIN q}
  BY <1>4 DEF Messages
<1>8. IdsIn(r) = {q[i].id : i \in I \cap DOMAIN q}
  BY <1>4 DEF IdsIn
<1> QED
  BY <1>1, <1>5, <1>6, <1>7, <1>8 DEF r

LEMMA OrderedDistinct ==
    ASSUME NEW q \in Seq(Message), Ordered(q)
    PROVE  Distinct(q)
<1>1. Len(q) \in Nat /\ DOMAIN q = 1 .. Len(q) /\ \A i \in DOMAIN q : q[i].id \in Nat
  BY MessageSeq
<1> QED
  BY <1>1 DEF Ordered, Distinct

(* Elements with the same identifiers.                                     *)
LEMMA TwinMessages ==
    ASSUME NEW q \in Seq(Message), NEW r, DOMAIN r = DOMAIN q,
           \A i \in DOMAIN q : r[i] \in Message /\ Twin(r[i], q[i]),
           r = [i \in DOMAIN r |-> r[i]]
    PROVE  /\ r \in Seq(Message) /\ Len(r) = Len(q)
           /\ Ordered(q) => Ordered(r)
           /\ IdsIn(r) = IdsIn(q)
           /\ \A m \in Messages(r) : \E n \in Messages(q) : Twin(m, n)
<1>1. Len(q) \in Nat /\ DOMAIN q = 1 .. Len(q)
  BY MessageSeq
<1>2. r \in [1 .. Len(q) -> Message]
  BY <1>1
<1>3. r \in Seq(Message)
  BY <1>1, <1>2, SeqDef
<1>4. Len(r) = Len(q)
  BY <1>1, <1>2, <1>3, LenProperties
<1>5. Ordered(q) => Ordered(r)
  BY DEF Ordered, Twin
<1>6. IdsIn(r) = IdsIn(q)
  BY DEF IdsIn, Twin
<1>7. \A m \in Messages(r) : \E n \in Messages(q) : Twin(m, n)
  BY DEF Messages
<1> QED
  BY <1>3, <1>4, <1>5, <1>6, <1>7

(* Taking one out.                                                         *)
LEMMA RemoveMessage ==
    ASSUME NEW q \in Seq(Message), Distinct(q), NEW x \in DOMAIN q
    PROVE  /\ RemoveAt(q, x) \in Seq(Message) /\ Distinct(RemoveAt(q, x))
           /\ Messages(RemoveAt(q, x)) \subseteq Messages(q)
           /\ IdsIn(RemoveAt(q, x)) \subseteq IdsIn(q)
           /\ \A i \in DOMAIN q : i # x => q[i] \in Messages(RemoveAt(q, x))
<1> DEFINE a == SubSeq(q, 1, x - 1)
<1> DEFINE b == SubSeq(q, x + 1, Len(q))
<1>1. Len(q) \in Nat /\ DOMAIN q = 1 .. Len(q)
  BY MessageSeq
<1>2. /\ 1 \in 1 .. Len(q) + 1 /\ x - 1 \in 1 - 1 .. Len(q)
      /\ x + 1 \in 1 .. Len(q) + 1 /\ Len(q) \in (x + 1) - 1 .. Len(q)
  BY <1>1
<1>3. /\ a \in Seq(Message) /\ Distinct(a)
      /\ Messages(a) = {q[i] : i \in 1 .. x - 1} /\ IdsIn(a) = {q[i].id : i \in 1 .. x - 1}
      /\ Messages(a) \subseteq Messages(q) /\ IdsIn(a) \subseteq IdsIn(q)
  BY <1>2, PartOfMessages
<1>4. /\ b \in Seq(Message) /\ Distinct(b)
      /\ Messages(b) = {q[i] : i \in x + 1 .. Len(q)}
      /\ IdsIn(b) = {q[i].id : i \in x + 1 .. Len(q)}
      /\ Messages(b) \subseteq Messages(q) /\ IdsIn(b) \subseteq IdsIn(q)
  BY <1>2, PartOfMessages
<1>5. RemoveAt(q, x) = a \o b
  BY DEF RemoveAt
<1> HIDE DEF a, b
<1>6. IdsIn(a) \cap IdsIn(b) = {}
  <2> SUFFICES ASSUME NEW y, y \in IdsIn(a), y \in IdsIn(b) PROVE FALSE
    OBVIOUS
  <2>1. PICK i \in 1 .. x - 1 : y = q[i].id
    BY <1>3
  <2>2. PICK j \in x + 1 .. Len(q) : y = q[j].id
    BY <1>4
  <2>3. i \in DOMAIN q /\ j \in DOMAIN q /\ i # j
    BY <1>1
  <2> QED
    BY <2>1, <2>2, <2>3 DEF Distinct
<1>7. \A i \in DOMAIN q : i # x => q[i] \in Messages(a) \cup Messages(b)
  BY <1>1, <1>3, <1>4
<1>8. /\ a \o b \in Seq(Message) /\ Distinct(a \o b)
      /\ Messages(a \o b) = Messages(a) \cup Messages(b)
      /\ IdsIn(a \o b) = IdsIn(a) \cup IdsIn(b)
  BY <1>3, <1>4, <1>6, ConcatMessages
<1> QED
  BY <1>3, <1>4, <1>5, <1>7, <1>8

(* A full queue loses its oldest rows, and only a full one does.           *)
LEMMA AppendDeadMessages ==
    ASSUME NEW rows \in Seq(Message), NEW ms \in Seq(Message),
           Distinct(rows), Distinct(ms), IdsIn(rows) \cap IdsIn(ms) = {}
    PROVE  LET d == AppendDead(rows, ms)
           IN  /\ d \in Seq(Message) /\ Distinct(d)
               /\ IdsIn(d) \subseteq IdsIn(rows) \cup IdsIn(ms)
               /\ Len(d) < MaxDead => Messages(d) = Messages(rows) \cup Messages(ms)
<1> DEFINE all == rows \o ms
<1> DEFINE d == AppendDead(rows, ms)
<1>1. /\ all \in Seq(Message) /\ Distinct(all)
      /\ IdsIn(all) = IdsIn(rows) \cup IdsIn(ms)
      /\ Messages(all) = Messages(rows) \cup Messages(ms)
  BY ConcatMessages
<1>2. d = IF Len(all) <= MaxDead THEN all
          ELSE SubSeq(all, Len(all) - MaxDead + 1, Len(all))
  BY DEF AppendDead
<1> HIDE DEF all, d
<1>3. CASE Len(all) <= MaxDead
  BY <1>1, <1>2, <1>3 DEF d
<1>4. CASE ~(Len(all) <= MaxDead)
  <2> DEFINE l == Len(all)
  <2> DEFINE a == l - MaxDead + 1
  <2>1. l \in Nat /\ MaxDead \in Nat /\ l > MaxDead
    BY <1>1, <1>4, MessageSeq, MessagingAssumption
  <2>2. a \in 1 .. l + 1 /\ l \in a - 1 .. l /\ l - a + 1 = MaxDead
    BY <2>1
  <2>3. d = SubSeq(all, a, l)
    BY <1>2, <1>4
  <2> HIDE DEF a
  <2>4. /\ d \in Seq(Message) /\ Distinct(d) /\ IdsIn(d) \subseteq IdsIn(all)
        /\ Len(d) = l - a + 1
    BY <1>1, <2>2, <2>3, PartOfMessages
  <2> QED
    BY <1>1, <2>1, <2>2, <2>4 DEF d
<1> QED
  BY <1>3, <1>4

LEMMA DeadLength ==
    ASSUME NEW rows \in Seq(Message), NEW ms \in Seq(Message)
    PROVE  /\ Len(AppendDead(rows, ms)) <= MaxDead
           /\ Len(rows) + Len(ms) <= MaxDead => AppendDead(rows, ms) = rows \o ms
<1> DEFINE all == rows \o ms
<1>1. all \in Seq(Message) /\ Len(all) = Len(rows) + Len(ms)
  BY ConcatProperties
<1>2. AppendDead(rows, ms) = IF Len(all) <= MaxDead THEN all
                             ELSE SubSeq(all, Len(all) - MaxDead + 1, Len(all))
  BY DEF AppendDead
<1> HIDE DEF all
<1>3. CASE Len(all) <= MaxDead
  BY <1>1, <1>2, <1>3 DEF all
<1>4. CASE ~(Len(all) <= MaxDead)
  <2> DEFINE l == Len(all)
             a == l - MaxDead + 1
  <2>1. l \in Nat /\ MaxDead \in Nat /\ l > MaxDead
    BY <1>1, <1>4, MessageSeq, MessagingAssumption
  <2>2. a \in 1 .. l + 1 /\ l \in a - 1 .. l /\ l - a + 1 = MaxDead
    BY <2>1
  <2>3. AppendDead(rows, ms) = SubSeq(all, a, l)
    BY <1>2, <1>4
  <2> HIDE DEF a
  <2>4. Len(AppendDead(rows, ms)) = MaxDead
    BY <1>1, <2>2, <2>3, PartOfMessages
  <2> QED
    BY <1>1, <1>4, <2>1, <2>4
<1> QED
  BY <1>3, <1>4

LEMMA RemovedLength ==
    ASSUME NEW q \in Seq(Message), NEW x \in DOMAIN q
    PROVE  Len(RemoveAt(q, x)) = Len(q) - 1
<1> DEFINE a == SubSeq(q, 1, x - 1)
           b == SubSeq(q, x + 1, Len(q))
<1>1. Len(q) \in Nat /\ DOMAIN q = 1 .. Len(q)
  BY MessageSeq
<1>2. /\ 1 \in 1 .. Len(q) + 1 /\ x - 1 \in 1 - 1 .. Len(q)
      /\ x + 1 \in 1 .. Len(q) + 1 /\ Len(q) \in (x + 1) - 1 .. Len(q)
  BY <1>1
<1>3. /\ a \in Seq(Message) /\ Len(a) = (x - 1) - 1 + 1
      /\ b \in Seq(Message) /\ Len(b) = Len(q) - (x + 1) + 1
  BY <1>2, PartOfMessages
<1>4. RemoveAt(q, x) = a \o b
  BY DEF RemoveAt
<1> HIDE DEF a, b
<1>5. Len(a \o b) = Len(a) + Len(b)
  BY <1>3, ConcatProperties
<1> QED
  BY <1>1, <1>3, <1>4, <1>5

-----------------------------------------------------------------------------
(* States.                                                                 *)

LEMMA BoxTypes ==
    ASSUME TypeOK, NEW s \in Sessions
    PROVE  /\ unread[s] \in Seq(Message) /\ read[s] \in Seq(Message)
           /\ \A m \in InBox(s) : m \in Message
           /\ BoxIds(s) = {m.id : m \in InBox(s)}
<1>1. unread[s] \in Seq(Message) /\ read[s] \in Seq(Message)
  BY DEF TypeOK
<1>2. \A m \in InBox(s) : m \in Message
  BY <1>1, MessageSeq DEF InBox, Messages
<1>3. BoxIds(s) = {m.id : m \in InBox(s)}
  BY DEF BoxIds, IdsIn, InBox, Messages
<1> QED
  BY <1>1, <1>2, <1>3

(* What a drain takes out: expired messages, none twice.                   *)
LEMMA DrainedMessages ==
    ASSUME TypeOK, BoxesOrdered, BoxesApart
    PROVE  /\ Drained \in Seq(Message) /\ Distinct(Drained)
           /\ \A x \in IdsIn(Drained) : \E s \in Sessions :
                 \E i \in Expired(unread[s]) : x = unread[s][i].id
<1> DEFINE N == Len(MailboxOrder)
<1> DEFINE box(k) == unread[MailboxOrder[k]]
<1> DEFINE part(k) == Picked(box(k), Expired(box(k)))
<1> DEFINE ss == [k \in DOMAIN MailboxOrder |-> part(k)]
<1>1. /\ N \in Nat /\ DOMAIN MailboxOrder = 1 .. N
      /\ \A k \in 1 .. N : MailboxOrder[k] \in Sessions
      /\ \A j, k \in 1 .. N : MailboxOrder[j] = MailboxOrder[k] => j = k
  BY MessagingAssumption, LenProperties, ElementOfSeq DEF IsInjective
<1>2. ASSUME NEW k \in 1 .. N
      PROVE  /\ part(k) \in Seq(Message) /\ Distinct(part(k))
             /\ IdsIn(part(k)) = {box(k)[i].id : i \in Expired(box(k)) \cap DOMAIN box(k)}
  <2>1. box(k) \in Seq(Message) /\ Distinct(box(k))
    BY <1>1, BoxTypes, OrderedDistinct DEF BoxesOrdered
  <2> HIDE DEF box
  <2> QED
    BY <2>1, PickedMessages
<1>3. \A k \in 1 .. N : ss[k] = part(k)
  BY <1>1
<1>4. ss \in Seq(Seq(Message)) /\ Len(ss) = N
  <2>1. ss \in [1 .. N -> Seq(Message)]
    BY <1>1, <1>2
  <2> HIDE DEF ss, N
  <2>2. ss \in Seq(Seq(Message))
    BY <1>1, <2>1, SeqDef
  <2> QED
    BY <1>1, <2>1, <2>2, LenProperties
<1>5. Drained = FlattenSeq(ss)
  BY DEF Drained
<1> HIDE DEF N, part, ss
<1>6. FlattenSeq(ss) \in Seq(Message) /\ \E b, a : Gathers(FlattenSeq(ss), b, a, ss, N)
  BY <1>4, FlattenGathers
<1>7. PICK b, a : Gathers(Drained, b, a, ss, N)
  BY <1>5, <1>6
<1> DEFINE d == Drained
<1>8. d \in Seq(Message) /\ DOMAIN d = 1 .. Len(d)
  BY <1>5, <1>6, MessageSeq
<1>9. /\ \A k \in DOMAIN d : /\ b[k] \in 1 .. N /\ a[k] \in DOMAIN part(b[k])
                             /\ d[k] = part(b[k])[a[k]]
      /\ \A j, k \in DOMAIN d : b[j] = b[k] /\ a[j] = a[k] => j = k
  BY <1>2, <1>3, <1>7, <1>8, MessageSeq DEF Gathers
<1> HIDE DEF d, box
<1>10. ASSUME NEW k \in DOMAIN d
       PROVE  d[k].id \in IdsIn(part(b[k]))
  BY <1>9 DEF IdsIn
<1>11. ASSUME NEW j \in 1 .. N, NEW k \in 1 .. N, NEW x, x \in IdsIn(part(j)), x \in IdsIn(part(k))
       PROVE  j = k
  <2>1. \A i \in 1 .. N :
          {box(i)[y].id : y \in Expired(box(i)) \cap DOMAIN box(i)} \subseteq IdsIn(box(i))
    BY DEF IdsIn
  <2>2. x \in IdsIn(box(j)) /\ x \in IdsIn(box(k))
    BY <1>2, <1>11, <2>1
  <2>3. x \in BoxIds(MailboxOrder[j]) /\ x \in BoxIds(MailboxOrder[k])
    BY <2>2 DEF BoxIds, box
  <2> QED
    BY <1>1, <2>3 DEF BoxesApart
<1>12. Distinct(d)
  <2> SUFFICES ASSUME NEW j \in DOMAIN d, NEW k \in DOMAIN d, d[j].id = d[k].id
               PROVE  j = k
    BY DEF Distinct
  <2>1. b[j] = b[k]
    BY <1>9, <1>10, <1>11
  <2>2. a[j] = a[k]
    BY <1>2, <1>9, <2>1 DEF Distinct
  <2> QED
    BY <1>9, <2>1, <2>2
<1>13. ASSUME NEW k \in DOMAIN d
       PROVE  \E s \in Sessions : \E i \in Expired(unread[s]) : d[k].id = unread[s][i].id
  <2>1. b[k] \in 1 .. N /\ MailboxOrder[b[k]] \in Sessions
    BY <1>1, <1>9
  <2>2. PICK i \in Expired(box(b[k])) : d[k].id = box(b[k])[i].id
    BY <1>2, <1>10, <2>1
  <2> QED
    BY <2>1, <2>2 DEF box
<1> QED
  BY <1>8, <1>12, <1>13 DEF d, IdsIn

(* A step that puts no new message into a mailbox, and no message into     *)
(* another one, keeps what relates the mailboxes.                          *)
LEMMA NothingNew ==
    ASSUME Inv, TypeOK', dedupe' = dedupe, nextId' = nextId,
           \A s \in Sessions : \A m \in InBox(s)' : \E n \in InBox(s) : Twin(m, n)
    PROVE  /\ BoxesApart' /\ Indexed' /\ OneCopy'
           /\ \A s \in Sessions : \A m \in InBox(s)' : m.id < nextId'
           /\ \A s \in Sessions : BoxIds(s)' \subseteq BoxIds(s)
<1> USE DEF Inv
<1>1. ASSUME NEW s \in Sessions PROVE BoxIds(s)' \subseteq BoxIds(s)
  <2>1. BoxIds(s) = {m.id : m \in InBox(s)}
    BY BoxTypes
  <2>2. BoxIds(s)' = {m.id : m \in InBox(s)'}
    BY DEF BoxIds, IdsIn, InBox, Messages
  <2> QED
    BY <2>1, <2>2 DEF Twin
<1>2. BoxesApart'
  BY <1>1 DEF BoxesApart
<1>3. Indexed'
  BY DEF Indexed, Twin
<1>4. OneCopy'
  <2> SUFFICES ASSUME NEW s \in Sessions, NEW t \in Sessions,
                      NEW m \in InBox(s)', NEW n \in InBox(t)',
                      m.delivery = "exactly_once", n.delivery = "exactly_once", Key(m) = Key(n)
               PROVE  m.id = n.id
    BY DEF OneCopy
  <2>1. PICK a \in InBox(s) : Twin(m, a)
    OBVIOUS
  <2>2. PICK b \in InBox(t) : Twin(n, b)
    OBVIOUS
  <2>3. /\ a.delivery = "exactly_once" /\ b.delivery = "exactly_once" /\ Key(a) = Key(b)
        /\ m.id = a.id /\ n.id = b.id
    BY <2>1, <2>2 DEF Twin
  <2>4. a.id = b.id
    BY <2>3, ZenonT(40) DEF OneCopy
  <2> QED
    BY <2>3, <2>4
<1>5. \A s \in Sessions : \A m \in InBox(s)' : m.id < nextId'
  BY DEF IdsUsed, Twin
<1> QED
  BY <1>1, <1>2, <1>3, <1>4, <1>5

(* ... and, with the dead letters as they are, the whole invariant.        *)
LEMMA NothingMoved ==
    ASSUME Inv, TypeOK', dedupe' = dedupe, nextId' = nextId, dead' = dead,
           \A s \in Sessions : \A m \in InBox(s)' : \E n \in InBox(s) : Twin(m, n),
           BoxesOrdered', Drainage'
    PROVE  Inv'
<1>1. /\ BoxesApart' /\ Indexed' /\ OneCopy'
      /\ \A s \in Sessions : \A m \in InBox(s)' : m.id < nextId'
      /\ \A s \in Sessions : BoxIds(s)' \subseteq BoxIds(s)
  BY NothingNew
<1>2. IdsUsed'
  BY <1>1 DEF Inv, IdsUsed, IdsIn
<1>3. DeadApart'
  BY <1>1 DEF Inv, DeadApart, Distinct, IdsIn
<1> QED
  BY <1>1, <1>2, <1>3 DEF Inv

LEMMA InvInit == Init => Inv
<1> SUFFICES ASSUME Init PROVE Inv
  OBVIOUS
<1>1. <<>> \in Seq(Message) /\ DOMAIN <<>> = {}
  BY EmptySeq
<1>2. TypeOK
  BY <1>1, MessagingAssumption DEF Init, TypeOK
<1>3. \A s \in Sessions : read[s] = <<>> /\ unread[s] = <<>>
  BY DEF Init
<1>4. \A s \in Sessions : InBox(s) = {} /\ BoxIds(s) = {}
  BY <1>1, <1>3 DEF InBox, BoxIds, Messages, IdsIn
<1>5. BoxesOrdered /\ Drainage
  BY <1>1, <1>3 DEF BoxesOrdered, Ordered, Before, Drainage, Messages
<1>6. IdsIn(dead) = {} /\ Distinct(dead)
  BY <1>1 DEF Init, IdsIn, Distinct
<1> QED
  BY <1>2, <1>4, <1>5, <1>6 DEF Inv, IdsUsed, BoxesApart, DeadApart, Indexed, OneCopy

LEMMA BeginKeeps == ASSUME Inv, Begin PROVE Inv'
<1> USE DEF Inv
<1> DEFINE kept(s) == Picked(unread[s], DOMAIN unread[s] \ Expired(unread[s]))
<1>1. /\ UNCHANGED <<read, dedupe, reachable, nextId>> /\ pc' = "command"
      /\ dead' = AppendDead(dead, Drained)
      /\ unread' = [s \in Sessions |-> kept(s)]
  BY DEF Begin
<1>2. ASSUME NEW s \in Sessions
      PROVE  /\ unread'[s] \in Seq(Message) /\ Ordered(unread'[s])
             /\ \A k \in DOMAIN unread'[s] : \E i \in DOMAIN unread[s] \ Expired(unread[s]) :
                   unread'[s][k] = unread[s][i]
  <2> DEFINE J == DOMAIN unread[s] \ Expired(unread[s])
  <2>1. J \cap DOMAIN unread[s] = J
    OBVIOUS
  <2>2. /\ kept(s) \in Seq(Message) /\ Ordered(kept(s))
        /\ Messages(kept(s)) = {unread[s][i] : i \in J \cap DOMAIN unread[s]}
    BY BoxTypes, PickedMessages DEF BoxesOrdered
  <2>3. unread'[s] = kept(s)
    BY <1>1
  <2> HIDE DEF kept, J
  <2>4. \A k \in DOMAIN kept(s) : \E i \in J : kept(s)[k] = unread[s][i]
    BY <2>1, <2>2 DEF Messages
  <2> QED
    BY <2>2, <2>3, <2>4 DEF J
<1>3. /\ Drained \in Seq(Message) /\ Distinct(Drained)
      /\ \A x \in IdsIn(Drained) : \E s \in Sessions :
            \E i \in Expired(unread[s]) : x = unread[s][i].id
  BY DrainedMessages
<1> HIDE DEF kept
<1>4. \A s \in Sessions : \A i \in Expired(unread[s]) : unread[s][i].id \in BoxIds(s)
  BY DEF Expired, BoxIds, IdsIn
<1>5. /\ dead' \in Seq(Message) /\ Distinct(dead')
      /\ IdsIn(dead') \subseteq IdsIn(dead) \cup IdsIn(Drained)
  <2>1. IdsIn(dead) \cap IdsIn(Drained) = {}
    BY <1>3, <1>4 DEF DeadApart
  <2>2. dead \in Seq(Message) /\ Distinct(dead)
    BY DEF TypeOK, DeadApart
  <2> QED
    BY <1>1, <1>3, <2>1, <2>2, AppendDeadMessages
<1>6. TypeOK'
  BY <1>1, <1>2, <1>5 DEF TypeOK
<1>7. \A s \in Sessions : InBox(s)' \subseteq InBox(s)
  <2> SUFFICES ASSUME NEW s \in Sessions PROVE Messages(unread'[s]) \subseteq Messages(unread[s])
    BY <1>1 DEF InBox
  <2> QED
    BY <1>2 DEF Messages
<1>8. /\ BoxesApart' /\ Indexed' /\ OneCopy'
      /\ \A s \in Sessions : \A m \in InBox(s)' : m.id < nextId'
      /\ \A s \in Sessions : BoxIds(s)' \subseteq BoxIds(s)
  BY <1>1, <1>6, <1>7, NothingNew DEF Twin
<1>9. BoxesOrdered'
  <2> SUFFICES ASSUME NEW s \in Sessions
               PROVE  Ordered(read[s]) /\ Ordered(unread'[s]) /\ Before(read[s], unread'[s])
    BY <1>1 DEF BoxesOrdered
  <2>1. \A i \in DOMAIN unread'[s] : \E j \in DOMAIN unread[s] : unread'[s][i].id = unread[s][j].id
    BY <1>2
  <2> QED
    BY <1>2, <2>1 DEF BoxesOrdered, Before
<1>10. ASSUME NEW s \in Sessions PROVE BoxIds(s)' \cap IdsIn(Drained) = {}
  <2> SUFFICES ASSUME NEW x, x \in BoxIds(s)', x \in IdsIn(Drained) PROVE FALSE
    OBVIOUS
  <2>0. PICK t \in Sessions : \E i \in Expired(unread[t]) : x = unread[t][i].id
    BY <1>3
  <2>1. PICK i \in Expired(unread[t]) : x = unread[t][i].id
    BY <2>0
  <2>2. x \in BoxIds(s) /\ x \in BoxIds(t)
    BY <1>4, <1>8, <2>1
  <2>3. s = t
    BY <2>2 DEF BoxesApart
  <2>4. i \in DOMAIN unread[s] /\ x = unread[s][i].id
    BY <2>1, <2>3 DEF Expired
  <2>5. Distinct(unread[s])
    BY BoxTypes, OrderedDistinct DEF BoxesOrdered
  <2>6. CASE x \in IdsIn(unread'[s])
    <3>1. PICK j \in DOMAIN unread[s] \ Expired(unread[s]) : x = unread[s][j].id
      BY <1>2, <2>6 DEF IdsIn
    <3> QED
      BY <2>1, <2>3, <2>4, <2>5, <3>1 DEF Distinct
  <2>7. CASE x \in IdsIn(read[s])
    <3>1. PICK j \in DOMAIN read[s] : x = read[s][j].id
      BY <2>7 DEF IdsIn
    <3>2. read[s][j].id < unread[s][i].id /\ x \in Nat
      BY <2>4, <3>1, BoxTypes, MessageSeq DEF BoxesOrdered, Before
    <3> QED
      BY <2>4, <3>1, <3>2
  <2> QED
    BY <1>1, <2>6, <2>7 DEF BoxIds
<1>11. DeadApart'
  BY <1>5, <1>8, <1>10 DEF DeadApart
<1>12. IdsUsed'
  <2>1. \A x \in IdsIn(Drained) : x < nextId
    BY <1>3, <1>4, BoxTypes DEF IdsUsed
  <2>2. \A x \in IdsIn(dead') : x < nextId'
    BY <1>1, <1>5, <2>1 DEF IdsUsed
  <2> QED
    BY <1>8, <2>2 DEF IdsUsed
<1>13. Drainage'
  <2>1. \A s \in Sessions : \A i \in DOMAIN unread[s] \ Expired(unread[s]) : unread[s][i].left > 0
    <3> SUFFICES ASSUME NEW s \in Sessions, NEW i \in DOMAIN unread[s], unread[s][i].left # 0
                 PROVE  unread[s][i].left > 0
      BY DEF Expired
    <3>1. unread[s][i] \in Message
      BY BoxTypes, MessageSeq
    <3> QED
      BY <3>1 DEF Message
  <2>2. \A s \in Sessions : \A m \in Messages(unread'[s]) : m.left > 0
    BY <1>2, <2>1 DEF Messages
  <2> QED
    BY <1>1, <2>2 DEF Drainage, Messages
<1> QED
  BY <1>6, <1>8, <1>9, <1>11, <1>12, <1>13

(* send_session_message, with any part of the dead letters before it.      *)
LEMMA DeliverKeeps ==
    ASSUME Inv, NEW rows \in Seq(Message), Distinct(rows), IdsIn(rows) \subseteq IdsIn(dead),
           NEW m, nextId <= MaxIds => m \in Message, m.to \in Sessions, m.id = nextId, m.left > 0,
           Deliver(rows, m), pc' = "idle", UNCHANGED <<read, reachable>>
    PROVE  Inv'
<1> USE DEF Inv
<1>0. nextId \in Nat /\ nextId \in 1 .. MaxIds + 1 /\ dead \in Seq(Message) /\ MaxIds \in Nat
  BY MessagingAssumption DEF TypeOK
<1>a. \A x \in IdsIn(rows) : x < nextId
  BY DEF IdsUsed
<1>b. \A s \in Sessions : BoxIds(s) \cap IdsIn(rows) = {}
  BY DEF DeadApart
<1>1. CASE m.delivery = "exactly_once" /\ Key(m) \in dedupe
  <2>1. dead' = rows /\ UNCHANGED <<unread, dedupe, nextId>>
    BY <1>1 DEF Deliver
  <2>2. TypeOK' /\ BoxesOrdered' /\ BoxesApart' /\ Indexed' /\ OneCopy' /\ Drainage'
    BY <2>1 DEF TypeOK, BoxesOrdered, BoxesApart, Indexed, OneCopy, Drainage, BoxIds, InBox
  <2>3. IdsUsed' /\ DeadApart'
    BY <1>a, <1>b, <2>1 DEF IdsUsed, DeadApart, BoxIds, InBox
  <2> QED
    BY <2>2, <2>3
<1>2. CASE ~(m.delivery = "exactly_once" /\ Key(m) \in dedupe)
  <2>1. nextId <= MaxIds /\ nextId' = nextId + 1 /\ m \in Message
    BY <1>2 DEF Deliver
  <2>2. nextId' \in 1 .. MaxIds + 1
    BY <1>0, <2>1
  <2>3. \A s \in Sessions : m.id \notin BoxIds(s)
    BY <1>0, BoxTypes DEF IdsUsed
  <2>4. \A x \in IdsIn(dead) \cup {m.id} : x < nextId'
    <3>1. \A x \in IdsIn(dead) : x \in Nat /\ x < nextId
      BY <1>0, MessageSeq DEF IdsUsed, IdsIn
    <3> QED
      BY <1>0, <2>1, <3>1
  <2>5. CASE dead' = AppendDead(rows, <<m>>) /\ UNCHANGED <<unread, dedupe>>
    <3>1. /\ dead' \in Seq(Message) /\ Distinct(dead')
          /\ IdsIn(dead') \subseteq IdsIn(rows) \cup {m.id}
      <4>1. IdsIn(rows) \cap IdsIn(<<m>>) = {}
        BY <1>0, <1>a, <2>1, OneMessage
      <4> QED
        BY <2>1, <2>5, <4>1, OneMessage, AppendDeadMessages
    <3>2. TypeOK' /\ BoxesOrdered' /\ BoxesApart' /\ Indexed' /\ OneCopy' /\ Drainage'
      BY <2>2, <2>5, <3>1
      DEF TypeOK, BoxesOrdered, BoxesApart, Indexed, OneCopy, Drainage, BoxIds, InBox
    <3>3. \A s \in Sessions : InBox(s)' = InBox(s) /\ BoxIds(s)' = BoxIds(s)
      BY <2>5 DEF InBox, BoxIds
    <3>4. DeadApart'
      BY <1>b, <2>3, <3>1, <3>3 DEF DeadApart
    <3>5. \A s \in Sessions : \A n \in InBox(s) : n.id < nextId'
      BY <1>0, <2>1, BoxTypes, MessagingAssumption DEF IdsUsed, Message
    <3>6. IdsUsed'
      BY <2>4, <3>1, <3>3, <3>5 DEF IdsUsed
    <3> QED
      BY <3>2, <3>4, <3>6
  <2>6. CASE /\ unread' = [unread EXCEPT ![m.to] = Append(@, m)] /\ dead' = rows
             /\ dedupe' = IF m.delivery = "exactly_once" THEN dedupe \cup {Key(m)} ELSE dedupe
    <3> DEFINE t == m.to
    <3>1. /\ unread'[t] = unread[t] \o <<m>>
          /\ \A s \in Sessions : s # t => unread'[s] = unread[s]
      BY <2>1, <2>6, BoxTypes, AppendMessage DEF TypeOK
    <3>2. /\ unread[t] \in Seq(Message) /\ read[t] \in Seq(Message)
          /\ <<m>> \in Seq(Message) /\ Ordered(<<m>>)
          /\ Messages(<<m>>) = {m} /\ IdsIn(<<m>>) = {m.id}
      BY <2>1, BoxTypes, OneMessage
    <3>3. \A s \in Sessions : \A n \in InBox(s) : n.id < m.id /\ n.id \in Nat
      BY <1>0, BoxTypes, MessagingAssumption DEF IdsUsed, Message
    <3>4. Before(unread[t], <<m>>) /\ Before(read[t], <<m>>)
      BY <3>3 DEF Before, InBox, Messages
    <3>5. /\ unread'[t] \in Seq(Message) /\ Ordered(unread'[t])
          /\ Messages(unread'[t]) = Messages(unread[t]) \cup {m}
          /\ IdsIn(unread'[t]) = IdsIn(unread[t]) \cup {m.id}
      <4>1. Ordered(unread[t])
        BY DEF BoxesOrdered
      <4> HIDE DEF t
      <4>2. /\ unread[t] \o <<m>> \in Seq(Message) /\ Ordered(unread[t] \o <<m>>)
            /\ Messages(unread[t] \o <<m>>) = Messages(unread[t]) \cup Messages(<<m>>)
            /\ IdsIn(unread[t] \o <<m>>) = IdsIn(unread[t]) \cup IdsIn(<<m>>)
        BY <3>2, <3>4, <4>1, ConcatMessages
      <4> QED
        BY <3>1, <3>2, <4>2
    <3>6. /\ \A s \in Sessions : InBox(s)' = IF s = t THEN InBox(s) \cup {m} ELSE InBox(s)
          /\ \A s \in Sessions : BoxIds(s)' = IF s = t THEN BoxIds(s) \cup {m.id} ELSE BoxIds(s)
      BY <3>1, <3>5 DEF InBox, BoxIds
    <3>7. TypeOK'
      <4>1. unread' \in [Sessions -> Seq(Message)]
        BY <2>6, <3>1, <3>5 DEF TypeOK
      <4>2. dedupe' \subseteq Senders \X Sessions \X Payloads
        BY <2>1, <2>6 DEF TypeOK, Key, Message
      <4> QED
        BY <2>2, <2>6, <4>1, <4>2 DEF TypeOK
    <3>8. BoxesOrdered'
      <4> SUFFICES ASSUME NEW s \in Sessions
                   PROVE  Ordered(read[s]) /\ Ordered(unread'[s]) /\ Before(read[s], unread'[s])
        BY DEF BoxesOrdered
      <4>1. CASE s # t
        BY <3>1, <4>1 DEF BoxesOrdered
      <4>2. CASE s = t
        <5>1. ASSUME NEW i \in DOMAIN read[t], NEW n \in Messages(unread'[t])
              PROVE  read[t][i].id < n.id
          <6>1. CASE n = m
            BY <3>3, <6>1 DEF InBox, Messages
          <6>2. CASE n \in Messages(unread[t])
            BY <6>2 DEF BoxesOrdered, Before, Messages
          <6> QED
            BY <3>5, <6>1, <6>2
        <5> QED
          BY <3>5, <4>2, <5>1 DEF BoxesOrdered, Before, Messages
      <4> QED
        BY <4>1, <4>2
    <3>9. IdsUsed'
      <4>1. \A s \in Sessions : \A n \in InBox(s)' : n.id < nextId'
        BY <1>0, <2>1, <3>3, <3>6
      <4> QED
        BY <2>4, <2>6, <4>1 DEF IdsUsed
    <3>10. BoxesApart' /\ DeadApart'
      <4>1. BoxesApart'
        BY <2>3, <3>6 DEF BoxesApart
      <4>2. m.id \notin IdsIn(rows)
        BY <1>0, <1>a
      <4> QED
        BY <1>b, <2>6, <3>6, <4>1, <4>2 DEF DeadApart
    <3>11. Indexed'
      BY <2>6, <3>6 DEF Indexed
    <3>12. OneCopy'
      <4>1. m.delivery = "exactly_once" =>
              \A s \in Sessions : \A n \in InBox(s) :
                 n.delivery = "exactly_once" => Key(n) # Key(m)
        BY <1>2 DEF Indexed
      <4> QED
        BY <3>6, <4>1 DEF OneCopy
    <3>13. Drainage'
      BY DEF Drainage
    <3> QED
      BY <3>7, <3>8, <3>9, <3>10, <3>11, <3>12, <3>13
  <2> QED
    BY <1>2, <2>5, <2>6 DEF Deliver
<1> QED
  BY <1>1, <1>2

(* A new message.                                                          *)
LEMMA NewMessageFacts ==
    ASSUME TypeOK, NEW from \in Senders, NEW to \in Sessions, NEW body \in Payloads,
           NEW g \in Guarantee, NEW ttl \in Nat, ttl > 0
    PROVE  LET m == NewMessage(from, to, body, g, ttl)
           IN  /\ nextId <= MaxIds => m \in Message
               /\ m.to = to /\ m.id = nextId /\ m.left > 0
<1>1. reachable[to] \in BOOLEAN
  BY DEF TypeOK
<1>2. nextId <= MaxIds => nextId \in 1 .. MaxIds
  BY MessagingAssumption DEF TypeOK
<1> QED
  BY <1>1, <1>2 DEF NewMessage, Message

LEMMA SendKeeps ==
    ASSUME Inv, NEW from \in Senders, NEW to \in Sessions, NEW body \in Payloads,
           NEW g \in Deliveries, NEW ttl \in Ttls, Send(from, to, body, g, ttl)
    PROVE  Inv'
<1> DEFINE m == NewMessage(from, to, body, g, ttl)
<1>1. g \in Guarantee /\ ttl \in Nat /\ ttl > 0
  BY MessagingAssumption
<1>2. /\ nextId <= MaxIds => m \in Message
      /\ m.to = to /\ m.id = nextId /\ m.left > 0
  BY <1>1, NewMessageFacts DEF Inv
<1>3. Deliver(dead, m) /\ pc' = "idle" /\ UNCHANGED <<read, reachable>>
  BY DEF Send, Return
<1>4. dead \in Seq(Message) /\ Distinct(dead)
  BY DEF Inv, TypeOK, DeadApart
<1> HIDE DEF m
<1> QED
  BY <1>2, <1>3, <1>4, DeliverKeeps

LEMMA RetryKeeps ==
    ASSUME Inv, NEW i \in DOMAIN dead, Retry(i)
    PROVE  Inv'
<1> DEFINE d == dead[i]
<1> DEFINE ttl == IF d.ttl > DefaultTtl THEN d.ttl ELSE DefaultTtl
<1> DEFINE m == NewMessage(d.from, d.to, d.body, d.delivery, ttl)
<1>1. dead \in Seq(Message) /\ Distinct(dead)
  BY DEF Inv, TypeOK, DeadApart
<1>2. d \in Message
  BY <1>1, MessageSeq
<1>3. /\ d.from \in Senders /\ d.to \in Sessions /\ d.body \in Payloads
      /\ d.delivery \in Guarantee /\ d.ttl \in Nat
  BY <1>2 DEF Message
<1>4. ttl \in Nat /\ ttl > 0
  BY <1>3, MessagingAssumption
<1>5. Deliver(RemoveAt(dead, i), m) /\ pc' = "idle" /\ UNCHANGED <<read, reachable>>
  BY DEF Retry, Return
<1> HIDE DEF d, ttl
<1>6. /\ nextId <= MaxIds => m \in Message
      /\ m.to = d.to /\ m.id = nextId /\ m.left > 0
  BY <1>3, <1>4, NewMessageFacts DEF Inv
<1>7. /\ RemoveAt(dead, i) \in Seq(Message) /\ Distinct(RemoveAt(dead, i))
      /\ IdsIn(RemoveAt(dead, i)) \subseteq IdsIn(dead)
  BY <1>1, RemoveMessage
<1> HIDE DEF m
<1> QED
  BY <1>3, <1>5, <1>6, <1>7, DeliverKeeps

LEMMA ReceiveKeeps ==
    ASSUME Inv, NEW s \in Sessions, NEW limit \in Limits, Receive(s, limit)
    PROVE  Inv'
<1> USE DEF Inv
<1> DEFINE q == unread[s]
<1> DEFINE n == IF Len(q) < limit THEN Len(q) ELSE limit
<1> DEFINE a == SubSeq(q, 1, n)
<1> DEFINE b == SubSeq(q, n + 1, Len(q))
<1>1. /\ q \in Seq(Message) /\ read[s] \in Seq(Message) /\ Len(q) \in Nat
      /\ DOMAIN q = 1 .. Len(q) /\ \A i \in DOMAIN q : q[i].id \in Nat
  BY BoxTypes, MessageSeq
<1>2. limit \in Nat
  BY MessagingAssumption
<1>3. n \in 0 .. Len(q)
  BY <1>1, <1>2
<1>4. /\ UNCHANGED <<dead, dedupe, reachable, nextId>> /\ pc = "command" /\ pc' = "idle"
      /\ read' = [read EXCEPT ![s] = @ \o a]
      /\ unread' = [unread EXCEPT ![s] = b]
  BY DEF Receive, Return
<1> HIDE DEF n
<1>5. /\ 1 \in 1 .. Len(q) + 1 /\ n \in 1 - 1 .. Len(q)
      /\ n + 1 \in 1 .. Len(q) + 1 /\ Len(q) \in (n + 1) - 1 .. Len(q)
  BY <1>1, <1>3
<1>6. Ordered(read[s]) /\ Ordered(q) /\ Before(read[s], q)
  BY DEF BoxesOrdered
<1> HIDE DEF q
<1>7. /\ a \in Seq(Message) /\ Ordered(a)
      /\ Messages(a) = {q[i] : i \in 1 .. n} /\ Messages(a) \subseteq Messages(q)
  BY <1>1, <1>5, <1>6, PartOfMessages
<1>8. /\ b \in Seq(Message) /\ Ordered(b)
      /\ Messages(b) = {q[i] : i \in n + 1 .. Len(q)} /\ Messages(b) \subseteq Messages(q)
  BY <1>1, <1>5, <1>6, PartOfMessages
<1> HIDE DEF a, b
<1>9. Before(read[s], a) /\ Before(read[s], b)
  BY <1>6, <1>7, <1>8 DEF Before, Messages
<1>10. Before(a, b)
  <2> SUFFICES ASSUME NEW x \in DOMAIN a, NEW y \in DOMAIN b PROVE a[x].id < b[y].id
    BY DEF Before
  <2>1. PICK i \in 1 .. n : a[x] = q[i]
    BY <1>7 DEF Messages
  <2>2. PICK j \in n + 1 .. Len(q) : b[y] = q[j]
    BY <1>8 DEF Messages
  <2>3. i \in DOMAIN q /\ j \in DOMAIN q /\ i < j
    BY <1>1, <1>3
  <2> QED
    BY <1>6, <2>1, <2>2, <2>3 DEF Ordered
<1>11. /\ read[s] \o a \in Seq(Message) /\ Ordered(read[s] \o a)
       /\ Messages(read[s] \o a) = Messages(read[s]) \cup Messages(a)
  BY <1>1, <1>6, <1>7, <1>9, ConcatMessages
<1>12. Before(read[s] \o a, b)
  <2>1. \A m \in Messages(read[s] \o a) : \A y \in DOMAIN b : m.id < b[y].id
    BY <1>9, <1>10, <1>11 DEF Before, Messages
  <2> QED
    BY <2>1 DEF Before, Messages
<1>13. /\ read'[s] = read[s] \o a /\ unread'[s] = b
       /\ \A t \in Sessions : t # s => read'[t] = read[t] /\ unread'[t] = unread[t]
  BY <1>4 DEF TypeOK
<1>14. TypeOK'
  BY <1>4, <1>8, <1>11 DEF TypeOK
<1>15. BoxesOrdered'
  <2> SUFFICES ASSUME NEW t \in Sessions
               PROVE  Ordered(read'[t]) /\ Ordered(unread'[t]) /\ Before(read'[t], unread'[t])
    BY DEF BoxesOrdered
  <2> QED
    BY <1>8, <1>11, <1>12, <1>13 DEF BoxesOrdered
<1>16. Drainage'
  <2>1. \A m \in Messages(q) : m.left > 0
    BY <1>4 DEF Drainage, q
  <2>2. \A t \in Sessions : \A m \in Messages(read'[t]) : m.left > 0
    BY <1>7, <1>11, <1>13, <2>1 DEF Drainage
  <2> QED
    BY <1>4, <2>2 DEF Drainage
<1>17. \A t \in Sessions : \A m \in InBox(t)' : m \in InBox(t)
  <2> SUFFICES ASSUME NEW t \in Sessions
               PROVE  Messages(read'[t]) \cup Messages(unread'[t]) \subseteq InBox(t)
    BY DEF InBox
  <2> QED
    BY <1>7, <1>8, <1>11, <1>13 DEF InBox, q
<1> HIDE DEF Inv
<1> QED
  BY <1>4, <1>14, <1>15, <1>16, <1>17, NothingMoved DEF Twin

(* A step that only changes the time or the acknowledgement of messages.   *)
LEMMA TwinsKeep ==
    ASSUME Inv, UNCHANGED <<dead, dedupe, reachable, nextId>>, pc' = "idle",
           unread' \in [Sessions -> Seq(Message)], read' \in [Sessions -> Seq(Message)],
           \A s \in Sessions :
              /\ DOMAIN unread'[s] = DOMAIN unread[s] /\ DOMAIN read'[s] = DOMAIN read[s]
              /\ \A i \in DOMAIN unread[s] : Twin(unread'[s][i], unread[s][i])
              /\ \A i \in DOMAIN read[s] :
                    Twin(read'[s][i], read[s][i]) /\ read'[s][i].left = read[s][i].left
    PROVE  Inv'
<1> USE DEF Inv
<1>1. TypeOK'
  BY DEF TypeOK
<1>2. \A s \in Sessions : \A m \in InBox(s)' : \E n \in InBox(s) : Twin(m, n)
  <2> SUFFICES ASSUME NEW s \in Sessions, NEW m \in Messages(read'[s]) \cup Messages(unread'[s])
               PROVE  \E n \in InBox(s) : Twin(m, n)
    BY DEF InBox
  <2>1. CASE m \in Messages(read'[s])
    BY <2>1 DEF InBox, Messages
  <2>2. CASE m \in Messages(unread'[s])
    BY <2>2 DEF InBox, Messages
  <2> QED
    BY <2>1, <2>2
<1>3. BoxesOrdered'
  <2> SUFFICES ASSUME NEW s \in Sessions
               PROVE  Ordered(read'[s]) /\ Ordered(unread'[s]) /\ Before(read'[s], unread'[s])
    BY DEF BoxesOrdered
  <2>1. Ordered(read[s]) /\ Ordered(unread[s]) /\ Before(read[s], unread[s])
    BY DEF BoxesOrdered
  <2>2. /\ \A i \in DOMAIN unread[s] : unread'[s][i].id = unread[s][i].id
        /\ \A i \in DOMAIN read[s] : read'[s][i].id = read[s][i].id
        /\ DOMAIN unread'[s] = DOMAIN unread[s] /\ DOMAIN read'[s] = DOMAIN read[s]
    BY DEF Twin
  <2>3. Ordered(read'[s]) /\ Ordered(unread'[s])
    BY <2>1, <2>2 DEF Ordered
  <2>4. Before(read'[s], unread'[s])
    BY <2>1, <2>2 DEF Before
  <2> QED
    BY <2>3, <2>4
<1>4. Drainage'
  <2>1. ASSUME NEW s \in Sessions, NEW m \in Messages(read'[s]) PROVE m.left > 0
    <3>1. PICK i \in DOMAIN read[s] : m = read'[s][i] /\ m.left = read[s][i].left
      BY DEF Messages
    <3> QED
      BY <3>1 DEF Drainage, Messages
  <2> QED
    BY <2>1 DEF Drainage
<1> HIDE DEF Inv
<1> QED
  BY <1>1, <1>2, <1>3, <1>4, NothingMoved

LEMMA AcknowledgeKeeps ==
    ASSUME Inv, NEW s \in Sessions, NEW id \in 1 .. MaxIds, Acknowledge(s, id)
    PROVE  Inv'
<1>1. ASSUME NEW q \in Seq(Message)
      PROVE  /\ MarkAck(q, id) \in Seq(Message) /\ DOMAIN MarkAck(q, id) = DOMAIN q
             /\ \A i \in DOMAIN q : /\ Twin(MarkAck(q, id)[i], q[i])
                                    /\ MarkAck(q, id)[i].left = q[i].left
  <2> DEFINE r == MarkAck(q, id)
  <2>1. ASSUME NEW m \in Message
        PROVE  LET a == [m EXCEPT !.acked = TRUE]
               IN  a \in Message /\ Twin(a, m) /\ a.left = m.left
    BY DEF Message, Twin, Key
  <2>2. \A i \in DOMAIN q : q[i] \in Message
    BY MessageSeq
  <2>3. /\ DOMAIN r = DOMAIN q /\ r = [i \in DOMAIN r |-> r[i]]
        /\ \A i \in DOMAIN q : r[i] \in Message /\ Twin(r[i], q[i]) /\ r[i].left = q[i].left
    BY <2>1, <2>2 DEF MarkAck, Twin
  <2> HIDE DEF r
  <2>4. r \in Seq(Message)
    BY <2>3, TwinMessages
  <2> QED
    BY <2>3, <2>4 DEF r
<1>2. /\ UNCHANGED <<dead, dedupe, reachable, nextId>> /\ pc' = "idle"
      /\ unread' = [unread EXCEPT ![s] = MarkAck(@, id)]
      /\ read' = [read EXCEPT ![s] = MarkAck(@, id)]
  BY DEF Acknowledge, Return
<1>3. unread \in [Sessions -> Seq(Message)] /\ read \in [Sessions -> Seq(Message)]
  BY DEF Inv, TypeOK
<1>4. unread' \in [Sessions -> Seq(Message)] /\ read' \in [Sessions -> Seq(Message)]
  BY <1>1, <1>2, <1>3
<1>5. \A t \in Sessions : /\ unread'[t] = IF t = s THEN MarkAck(unread[t], id) ELSE unread[t]
                          /\ read'[t] = IF t = s THEN MarkAck(read[t], id) ELSE read[t]
  BY <1>2, <1>3
<1>6. ASSUME NEW t \in Sessions
      PROVE  /\ DOMAIN unread'[t] = DOMAIN unread[t] /\ DOMAIN read'[t] = DOMAIN read[t]
             /\ \A i \in DOMAIN unread[t] : Twin(unread'[t][i], unread[t][i])
             /\ \A i \in DOMAIN read[t] :
                   Twin(read'[t][i], read[t][i]) /\ read'[t][i].left = read[t][i].left
  <2>1. CASE t = s
    BY <1>1, <1>3, <1>5, <2>1
  <2>2. CASE t # s
    BY <1>5, <2>2 DEF Twin
  <2> QED
    BY <2>1, <2>2
<1> QED
  BY <1>2, <1>4, <1>6, TwinsKeep

LEMMA ElapseKeeps == ASSUME Inv, Elapse PROVE Inv'
<1> DEFINE later(m) == [m EXCEPT !.left = IF @ = 0 THEN 0 ELSE @ - 1]
<1>1. /\ UNCHANGED <<read, dead, dedupe, reachable, nextId>> /\ pc' = "idle"
      /\ unread' = [s \in Sessions |-> [i \in DOMAIN unread[s] |-> later(unread[s][i])]]
  BY DEF Elapse
<1>2. unread \in [Sessions -> Seq(Message)] /\ read \in [Sessions -> Seq(Message)]
  BY DEF Inv, TypeOK
<1>3. ASSUME NEW m \in Message PROVE later(m) \in Message /\ Twin(later(m), m)
  BY DEF Message, Twin, Key
<1>4. ASSUME NEW s \in Sessions
      PROVE  /\ unread'[s] \in Seq(Message) /\ DOMAIN unread'[s] = DOMAIN unread[s]
             /\ \A i \in DOMAIN unread[s] : Twin(unread'[s][i], unread[s][i])
  <2> DEFINE q == unread[s]
  <2> DEFINE r == [i \in DOMAIN q |-> later(q[i])]
  <2>1. q \in Seq(Message) /\ \A i \in DOMAIN q : q[i] \in Message
    BY <1>2, MessageSeq
  <2>2. /\ DOMAIN r = DOMAIN q /\ r = [i \in DOMAIN r |-> r[i]]
        /\ \A i \in DOMAIN q : r[i] \in Message /\ Twin(r[i], q[i])
    <3> HIDE DEF later
    <3> QED
      BY <1>3, <2>1
  <2>3. unread'[s] = r
    BY <1>1
  <2> HIDE DEF r, q
  <2>4. r \in Seq(Message)
    BY <2>1, <2>2, TwinMessages
  <2> QED
    BY <2>2, <2>3, <2>4 DEF q
<1>5. unread' \in [Sessions -> Seq(Message)]
  <2> HIDE DEF later
  <2> QED
    BY <1>1, <1>4
<1>6. \A s \in Sessions : \A i \in DOMAIN read[s] : Twin(read[s][i], read[s][i])
  BY DEF Twin
<1> QED
  BY <1>1, <1>2, <1>4, <1>5, <1>6, TwinsKeep

LEMMA InvNext == Inv /\ [Next]_vars => Inv'
<1> SUFFICES ASSUME Inv, [Next]_vars PROVE Inv'
  OBVIOUS
<1>1. ASSUME UNCHANGED <<unread, read, dead, dedupe, nextId>>,
             reachable' \in [Sessions -> BOOLEAN], pc' \in {"idle", pc}
      PROVE  Inv'
  <2>1. TypeOK' /\ BoxesOrdered' /\ BoxesApart' /\ Indexed'
    BY <1>1 DEF Inv, TypeOK, BoxesOrdered, BoxesApart, Indexed, BoxIds, InBox
  <2>2. OneCopy' /\ Drainage' /\ IdsUsed' /\ DeadApart'
    BY <1>1 DEF Inv, OneCopy, Drainage, IdsUsed, DeadApart, BoxIds, InBox
  <2> QED
    BY <2>1, <2>2 DEF Inv
<1>2. CASE Status
  BY <1>1, <1>2 DEF Status, Return, Inv, TypeOK
<1>3. ASSUME NEW s \in Sessions, SetReachable(s) PROVE Inv'
  <2>1. reachable' \in [Sessions -> BOOLEAN]
    BY <1>3 DEF SetReachable, Inv, TypeOK
  <2> QED
    BY <1>1, <1>3, <2>1 DEF SetReachable
<1>4. CASE UNCHANGED vars
  BY <1>1, <1>4 DEF vars, Inv, TypeOK
<1> QED
  BY <1>2, <1>3, <1>4, BeginKeeps, SendKeeps, RetryKeeps, ReceiveKeeps, AcknowledgeKeeps, ElapseKeeps
  DEF Next, Commands

-----------------------------------------------------------------------------
(* The theorems.                                                           *)

LEMMA InvAlways == Spec => []Inv
  BY InvInit, InvNext, PTL DEF Spec

(* No receiver ever has a message that had expired when it was read.       *)
THEOREM ReadsAreFresh == Spec => []NeverReadExpired
<1>1. Inv => NeverReadExpired
  BY DEF Inv, Drainage, NeverReadExpired
<1> QED
  BY <1>1, InvAlways, PTL

(* Every mailbox is first in, first out.                                   *)
THEOREM MailboxesAreFifo == Spec => []MailboxFifo
<1>1. ASSUME Inv, NEW s \in Sessions PROVE Ordered(read[s] \o unread[s])
  BY <1>1, BoxTypes, ConcatMessages DEF Inv, BoxesOrdered
<1>2. Inv => MailboxFifo
  BY <1>1 DEF MailboxFifo, Ordered
<1> QED
  BY <1>2, InvAlways, PTL

(* No identifier is in two places.                                         *)
THEOREM IdsInOnePlace == Spec => []OnePlace
<1>1. ASSUME Inv PROVE OnePlace
  <2>1. ASSUME NEW s \in Sessions
        PROVE  /\ read[s] \o unread[s] \in Seq(Message)
               /\ Distinct(read[s] \o unread[s])
               /\ IdsIn(read[s] \o unread[s]) = BoxIds(s)
    <3>1. /\ read[s] \in Seq(Message) /\ unread[s] \in Seq(Message)
          /\ Ordered(read[s]) /\ Ordered(unread[s]) /\ Before(read[s], unread[s])
      BY <1>1, BoxTypes DEF Inv, BoxesOrdered
    <3>2. /\ read[s] \o unread[s] \in Seq(Message) /\ Ordered(read[s] \o unread[s])
          /\ IdsIn(read[s] \o unread[s]) = IdsIn(read[s]) \cup IdsIn(unread[s])
      BY <3>1, ConcatMessages
    <3> QED
      BY <3>2, OrderedDistinct DEF BoxIds
  <2>2. ASSUME NEW s \in Sessions
        PROVE  IsInjective([i \in DOMAIN (read[s] \o unread[s] \o dead) |->
                              (read[s] \o unread[s] \o dead)[i].id])
    <3> DEFINE q == read[s] \o unread[s]
    <3> DEFINE all == q \o dead
    <3>1. dead \in Seq(Message) /\ Distinct(dead) /\ BoxIds(s) \cap IdsIn(dead) = {}
      BY <1>1 DEF Inv, TypeOK, DeadApart
    <3>2. Distinct(all)
      <4>1. q \in Seq(Message) /\ Distinct(q) /\ IdsIn(q) \cap IdsIn(dead) = {}
        BY <2>1, <3>1
      <4> HIDE DEF q
      <4> QED
        BY <3>1, <4>1, ConcatMessages
    <3> HIDE DEF all
    <3>3. IsInjective([i \in DOMAIN all |-> all[i].id])
      BY <3>2 DEF Distinct, IsInjective
    <3> QED
      BY <3>3 DEF all
  <2>3. ASSUME NEW s \in Sessions, NEW t \in Sessions, s # t
        PROVE  {m.id : m \in Messages(read[s] \o unread[s])} \cap
               {m.id : m \in Messages(read[t] \o unread[t])} = {}
    <3>1. \A q : {m.id : m \in Messages(q)} = IdsIn(q)
      BY DEF Messages, IdsIn
    <3>2. BoxIds(s) \cap BoxIds(t) = {}
      BY <1>1, <2>3 DEF Inv, BoxesApart
    <3> QED
      BY <2>1, <3>1, <3>2
  <2> QED
    BY <2>2, <2>3 DEF OnePlace
<1> QED
  BY <1>1, InvAlways, PTL

(* The mailboxes never hold two exactly-once messages with one key.        *)
THEOREM ExactlyOnce == Spec => []ExactlyOnceDelivered
<1>1. ASSUME Inv PROVE ExactlyOnceDelivered
  <2> SUFFICES ASSUME NEW m \in InMailboxes, NEW n \in InMailboxes,
                      m.delivery = "exactly_once", n.delivery = "exactly_once", Key(m) = Key(n)
               PROVE  m = n
    BY DEF ExactlyOnceDelivered
  <2>1. PICK s \in Sessions : m \in InBox(s)
    BY DEF InMailboxes, InBox
  <2>2. PICK t \in Sessions : n \in InBox(t)
    BY DEF InMailboxes, InBox
  <2>3. m.id = n.id
    BY <1>1, <2>1, <2>2 DEF Inv, OneCopy
  <2>4. s = t
    BY <1>1, <2>1, <2>2, <2>3, BoxTypes DEF Inv, BoxesApart
  <2> DEFINE q == read[s] \o unread[s]
  <2>5. q \in Seq(Message) /\ Ordered(q) /\ Messages(q) = InBox(s)
    BY <1>1, BoxTypes, ConcatMessages DEF Inv, BoxesOrdered, InBox
  <2> HIDE DEF q
  <2>6. Distinct(q) /\ m \in Messages(q) /\ n \in Messages(q)
    BY <2>1, <2>2, <2>4, <2>5, OrderedDistinct
  <2> QED
    BY <2>3, <2>6 DEF Distinct, Messages
<1> QED
  BY <1>1, InvAlways, PTL

-----------------------------------------------------------------------------
(* Retries.  The dead letters never outgrow their limit, so a row that is  *)
(* taken out makes the room that its own return needs.                     *)
DeadFits == Len(dead) <= MaxDead

(* What a delivery leaves of the rows it found, and where its message is.  *)
LEMMA DeliverKeepsRows ==
    ASSUME Inv, NEW rows \in Seq(Message), Distinct(rows), IdsIn(rows) \subseteq IdsIn(dead),
           Len(rows) <= MaxDead,
           NEW n, n.to \in Sessions, n.id = nextId, nextId <= MaxIds => n \in Message,
           Deliver(rows, n)
    PROVE  /\ Len(dead') <= MaxDead
           /\ Len(rows) < MaxDead \/ Len(dead') < MaxDead => Messages(rows) \subseteq Messages(dead')
           /\ /\ Len(rows) < MaxDead
              /\ n.delivery # "exactly_once" \/ Key(n) \notin dedupe
              => n \in Messages(unread'[n.to]) \cup Messages(dead')
<1>1. CASE n.delivery = "exactly_once" /\ Key(n) \in dedupe
  <2>1. dead' = rows
    BY <1>1 DEF Deliver
  <2> QED
    BY <1>1, <2>1
<1>2. CASE ~(n.delivery = "exactly_once" /\ Key(n) \in dedupe)
  <2>1. n \in Message
    BY <1>2 DEF Deliver
  <2>2. CASE dead' = AppendDead(rows, <<n>>)
    <3>1. IdsIn(rows) \cap IdsIn(<<n>>) = {}
      BY <2>1, OneMessage, MessagingAssumption DEF Inv, TypeOK, IdsUsed
    <3>2. <<n>> \in Seq(Message) /\ Distinct(<<n>>) /\ Messages(<<n>>) = {n} /\ Len(<<n>>) = 1
      BY <2>1, OneMessage
    <3>3. Len(dead') < MaxDead => Messages(dead') = Messages(rows) \cup {n}
      BY <2>2, <3>1, <3>2, AppendDeadMessages
    <3>4. Len(rows) < MaxDead => Messages(dead') = Messages(rows) \cup {n}
      <4>1. Len(rows) < MaxDead => Len(rows) + Len(<<n>>) <= MaxDead
        BY <3>2, MessageSeq, MessagingAssumption
      <4>2. Len(rows) < MaxDead => dead' = rows \o <<n>>
        BY <2>2, <3>2, <4>1, DeadLength
      <4>3. Messages(rows \o <<n>>) = Messages(rows) \cup {n}
        BY <3>2, ConcatMessages
      <4> QED
        BY <4>2, <4>3
    <3>5. Len(dead') <= MaxDead
      BY <2>2, <3>2, DeadLength
    <3> QED
      BY <3>3, <3>4, <3>5
  <2>3. CASE dead' = rows /\ unread' = [unread EXCEPT ![n.to] = Append(@, n)]
    <3>1. unread[n.to] \in Seq(Message) /\ unread'[n.to] = unread[n.to] \o <<n>>
      BY <2>1, <2>3, BoxTypes, AppendMessage DEF Inv, TypeOK
    <3> DEFINE q == unread[n.to]
    <3>2. q \in Seq(Message) /\ unread'[n.to] = q \o <<n>>
      BY <3>1
    <3>3. <<n>> \in Seq(Message) /\ Messages(<<n>>) = {n}
      BY <2>1, OneMessage
    <3> HIDE DEF q
    <3>4. Messages(q \o <<n>>) = Messages(q) \cup Messages(<<n>>)
      BY <3>2, <3>3, ConcatMessages
    <3>5. n \in Messages(unread'[n.to])
      BY <3>2, <3>3, <3>4
    <3> QED
      BY <2>3, <3>5
  <2> QED
    BY <1>2, <2>2, <2>3 DEF Deliver
<1> QED
  BY <1>1, <1>2

LEMMA SendKeepsDead ==
    ASSUME Inv, DeadFits, NEW from \in Senders, NEW to \in Sessions, NEW body \in Payloads,
           NEW g \in Deliveries, NEW ttl \in Ttls, Send(from, to, body, g, ttl)
    PROVE  DeadFits' /\ (Len(dead') < MaxDead => Messages(dead) \subseteq Messages(dead'))
<1> DEFINE n == NewMessage(from, to, body, g, ttl)
<1>1. g \in Guarantee /\ ttl \in Nat /\ ttl > 0
  BY MessagingAssumption
<1>2. /\ nextId <= MaxIds => n \in Message
      /\ n.to = to /\ n.id = nextId
  BY <1>1, NewMessageFacts DEF Inv
<1>3. Deliver(dead, n)
  BY DEF Send
<1>4. dead \in Seq(Message) /\ Distinct(dead) /\ Len(dead) <= MaxDead
  BY DEF Inv, TypeOK, DeadApart, DeadFits
<1> HIDE DEF n
<1> QED
  BY <1>2, <1>3, <1>4, DeliverKeepsRows DEF DeadFits

LEMMA RetryKeepsDead ==
    ASSUME Inv, DeadFits, NEW i \in DOMAIN dead, Retry(i)
    PROVE  /\ DeadFits' /\ \A m \in Messages(dead) : m = dead[i] \/ m \in Messages(dead')
           /\ dead[i].delivery # "exactly_once" \/ Key(dead[i]) \notin dedupe =>
                 \E n \in Messages(unread'[dead[i].to]) \cup Messages(dead') :
                    Key(n) = Key(dead[i]) /\ n.id = nextId
<1> DEFINE d == dead[i]
           ttl == IF d.ttl > DefaultTtl THEN d.ttl ELSE DefaultTtl
           n == NewMessage(d.from, d.to, d.body, d.delivery, ttl)
           rows == RemoveAt(dead, i)
<1>0. dead \in Seq(Message) /\ Distinct(dead) /\ Len(dead) <= MaxDead
  BY DEF Inv, TypeOK, DeadApart, DeadFits
<1>1. d \in Message
  BY <1>0, MessageSeq
<1>2. /\ d.from \in Senders /\ d.to \in Sessions /\ d.body \in Payloads
      /\ d.delivery \in Guarantee /\ d.ttl \in Nat
  BY <1>1 DEF Message
<1>3. ttl \in Nat /\ ttl > 0
  BY <1>2, MessagingAssumption
<1>4. Deliver(rows, n) /\ n.delivery = d.delivery /\ Key(n) = Key(d)
  BY DEF Retry, NewMessage, Key
<1>5. \A m \in Messages(dead) : m = d \/ \E j \in DOMAIN dead : j # i /\ m = dead[j]
  BY DEF Messages
<1>6. Len(rows) <= MaxDead /\ Len(rows) < MaxDead
  <2>1. Len(rows) = Len(dead) - 1 /\ Len(dead) \in Nat
    BY <1>0, RemovedLength, MessageSeq
  <2> HIDE DEF rows
  <2> QED
    BY <1>0, <2>1, MessagingAssumption
<1> HIDE DEF d, ttl
<1>7. /\ nextId <= MaxIds => n \in Message
      /\ n.to = d.to /\ n.id = nextId
  BY <1>2, <1>3, NewMessageFacts DEF Inv
<1>8. /\ rows \in Seq(Message) /\ Distinct(rows) /\ IdsIn(rows) \subseteq IdsIn(dead)
      /\ \A j \in DOMAIN dead : j # i => dead[j] \in Messages(rows)
  BY <1>0, RemoveMessage
<1> HIDE DEF n, rows
<1>9. /\ Len(dead') <= MaxDead /\ Messages(rows) \subseteq Messages(dead')
      /\ n.delivery # "exactly_once" \/ Key(n) \notin dedupe =>
           n \in Messages(unread'[n.to]) \cup Messages(dead')
  BY <1>2, <1>4, <1>6, <1>7, <1>8, DeliverKeepsRows
<1>10. \A m \in Messages(dead) : m = d \/ m \in Messages(dead')
  BY <1>5, <1>8, <1>9
<1>11. d.delivery # "exactly_once" \/ Key(d) \notin dedupe =>
          \E k \in Messages(unread'[d.to]) \cup Messages(dead') : Key(k) = Key(d) /\ k.id = nextId
  BY <1>4, <1>7, <1>9
<1> QED
  BY <1>9, <1>10, <1>11 DEF d, DeadFits

LEMMA BeginKeepsDead ==
    ASSUME Inv, Begin
    PROVE  DeadFits' /\ (Len(dead') < MaxDead => Messages(dead) \subseteq Messages(dead'))
<1>0. dead \in Seq(Message) /\ Distinct(dead)
  BY DEF Inv, TypeOK, DeadApart
<1>1. Drained \in Seq(Message) /\ Distinct(Drained) /\ dead' = AppendDead(dead, Drained)
  BY DrainedMessages DEF Inv, Begin
<1>2. IdsIn(dead) \cap IdsIn(Drained) = {}
  <2>1. \A x \in IdsIn(Drained) : \E s \in Sessions :
           \E i \in Expired(unread[s]) : x = unread[s][i].id
    BY DrainedMessages DEF Inv
  <2>2. \A s \in Sessions : \A i \in Expired(unread[s]) : unread[s][i].id \in BoxIds(s)
    BY DEF Expired, BoxIds, IdsIn
  <2> QED
    BY <2>1, <2>2 DEF Inv, DeadApart
<1>3. Len(dead') < MaxDead => Messages(dead') = Messages(dead) \cup Messages(Drained)
  BY <1>0, <1>1, <1>2, AppendDeadMessages
<1>4. Len(dead') <= MaxDead
  BY <1>0, <1>1, DeadLength
<1> QED
  BY <1>3, <1>4 DEF DeadFits

(* Every step is one that leaves the dead letters alone, one that may only *)
(* evict, or a retry.                                                      *)
LEMMA DeadSteps ==
    ASSUME Inv, DeadFits, [Next]_vars
    PROVE  /\ DeadFits'
           /\ \/ Len(dead') < MaxDead => Messages(dead) \subseteq Messages(dead')
              \/ \E i \in DOMAIN dead : Retry(i)
<1>1. CASE UNCHANGED dead
  BY <1>1 DEF DeadFits
<1>2. ASSUME NEW i \in DOMAIN dead, Retry(i) PROVE DeadFits'
  BY <1>2, RetryKeepsDead
<1> QED
  BY <1>1, <1>2, BeginKeepsDead, SendKeepsDead
  DEF Next, Commands, Status, Receive, Acknowledge, SetReachable, Elapse, vars

LEMMA DeadFitsAlways == Spec => []DeadFits
<1>1. Init => DeadFits
  BY MessagingAssumption DEF Init, DeadFits
<1>2. Inv /\ DeadFits /\ [Next]_vars => DeadFits'
  BY DeadSteps
<1> QED
  BY <1>1, <1>2, InvAlways, PTL DEF Spec

(* A message leaves the dead letters by its own retry, or because a full   *)
(* queue makes room in a step that is no retry; and a retry that the index *)
(* does not refuse has its message in the mailbox or in the dead letters   *)
(* again, whatever the size of either.                                     *)
THEOREM RetryKeepsMessages == Spec => RetryLosesOnlyDuplicates
<1> DEFINE Kept ==
      /\ \A m \in Messages(dead) \ Messages(dead') :
            \/ \E i \in DOMAIN dead : dead[i] = m /\ Retry(i)
            \/ Len(dead') = MaxDead /\ \A i \in DOMAIN dead : ~Retry(i)
      /\ \A i \in DOMAIN dead :
            /\ Retry(i)
            /\ dead[i].delivery # "exactly_once" \/ Key(dead[i]) \notin dedupe
            => \E n \in Messages(unread'[dead[i].to]) \cup Messages(dead') :
                  Key(n) = Key(dead[i]) /\ n.id = nextId
<1>1. ASSUME Inv, Inv', DeadFits, [Next]_vars PROVE Kept
  <2>1. ASSUME NEW i \in DOMAIN dead, Retry(i),
               dead[i].delivery # "exactly_once" \/ Key(dead[i]) \notin dedupe
        PROVE  \E n \in Messages(unread'[dead[i].to]) \cup Messages(dead') :
                  Key(n) = Key(dead[i]) /\ n.id = nextId
    BY <1>1, <2>1, RetryKeepsDead
  <2>2. ASSUME NEW m \in Messages(dead), m \notin Messages(dead')
        PROVE  \/ \E i \in DOMAIN dead : dead[i] = m /\ Retry(i)
               \/ Len(dead') = MaxDead /\ \A i \in DOMAIN dead : ~Retry(i)
    <3>1. CASE \E i \in DOMAIN dead : Retry(i)
      BY <1>1, <2>2, <3>1, RetryKeepsDead
    <3>2. CASE \A i \in DOMAIN dead : ~Retry(i)
      <4>1. ~(Len(dead') < MaxDead) /\ Len(dead') <= MaxDead
        BY <1>1, <2>2, <3>2, DeadSteps DEF DeadFits
      <4>2. Len(dead') \in Nat /\ MaxDead \in Nat
        BY <1>1, MessageSeq, MessagingAssumption DEF Inv, TypeOK
      <4>3. Len(dead') = MaxDead
        BY <4>1, <4>2
      <4> QED
        BY <3>2, <4>3
    <3> QED
      BY <3>1, <3>2
  <2> QED
    BY <2>1, <2>2
<1>2. Inv /\ Inv' /\ DeadFits /\ [Next]_vars => [Kept]_vars
  BY <1>1
<1>3. RetryLosesOnlyDuplicates <=> [][Kept]_vars
  BY DEF RetryLosesOnlyDuplicates
<1> QED
  BY <1>2, <1>3, InvAlways, DeadFitsAlways, PTL DEF Spec
=============================================================================
