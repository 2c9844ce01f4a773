----------------------- MODULE AttentionQueue_proofs -----------------------
(***************************************************************************)
(* Proofs about the attention queue, for any keys, kinds of event and      *)
(* scores, any consumers and any policy.                                   *)
(***************************************************************************)
EXTENDS AttentionQueue, DataLemmas

(* What the file satisfies, as predicates of any sequence of rows.         *)
Sorted(q) == \A i, j \in DOMAIN q : i < j => q[i].score >= q[j].score

Drops(q) == {i \in DOMAIN q : Droppable(q[i].kind)}

Spaced(q) ==
    \A i, j \in DOMAIN q :
        q[i].key = q[j].key /\ q[i].id < q[j].id /\ q[i].left > 0
          => q[j].left - q[i].left > DedupeWindow

Sound(q, n) ==
    /\ Sorted(q) /\ Cardinality(Drops(q)) <= MaxQueueDepth /\ Spaced(q)
    /\ \A i \in DOMAIN q : q[i].id < n

(* A consumer's tokens name events it was given.                           *)
Told == \A c \in Consumers : \A t \in batch[c] : t[2] \in delivered[c]

Inv == TypeOK /\ Sound(queue, nextId) /\ Told

(* r consists of rows of q in their order, at most scored lower; `at'      *)
(* tells where each was.                                                   *)
SameEvent(a, b) ==
    a.id = b.id /\ a.key = b.key /\ a.kind = b.kind /\ a.left = b.left /\ a.score <= b.score

Thinned(r, at, q) ==
    /\ \A k \in DOMAIN r : at[k] \in DOMAIN q /\ SameEvent(r[k], q[at[k]])
    /\ \A j, k \in DOMAIN r : j < k => at[j] < at[k]
    /\ \A j, k \in DOMAIN r : q[at[j]].score >= q[at[k]].score => r[j].score >= r[k].score

-----------------------------------------------------------------------------
(* Sequences of rows.                                                      *)

LEMMA RowSeq ==
    ASSUME NEW q \in Seq(Row)
    PROVE  /\ Len(q) \in Nat /\ DOMAIN q = 1 .. Len(q)
           /\ \A i \in DOMAIN q : q[i] \in Row
  BY LenProperties, ElementOfSeq

LEMMA MaxScoreType == MaxScore \in Nat
  BY DEF MaxScore

LEMMA RowFacts ==
    ASSUME NEW r \in Row
    PROVE  /\ r.id \in Nat /\ r.id \in 1 .. MaxEvents /\ r.key \in Keys /\ r.kind \in Kinds
           /\ r.score \in Nat /\ r.score <= MaxScore /\ r.left \in Nat /\ r.left <= Ttl
<1>1. /\ r.id \in 1 .. MaxEvents /\ r.key \in Keys /\ r.kind \in Kinds
      /\ r.score \in 0 .. MaxScore /\ r.left \in 0 .. Ttl
  BY DEF Row
<1>2. MaxEvents \in Nat /\ Ttl \in Nat /\ MaxScore \in Nat
  BY AttentionAssumption, MaxScoreType
<1> DEFINE a == r.id
           b == r.score
           c == r.left
<1>3. a \in 1 .. MaxEvents /\ b \in 0 .. MaxScore /\ c \in 0 .. Ttl
  BY <1>1
<1> HIDE DEF a, b, c
<1>4. a \in Nat /\ b \in Nat /\ b <= MaxScore /\ c \in Nat /\ c <= Ttl
  BY <1>2, <1>3
<1> QED
  BY <1>1, <1>4 DEF a, b, c

LEMMA ScoreType == ASSUME NEW k \in Kinds PROVE Score[k] \in 0 .. MaxScore /\ Score[k] \in Nat
<1>1. Score \in [Kinds -> 0 .. MaxScore]
  BY AttentionAssumption
<1>2. Score[k] \in 0 .. MaxScore
  BY <1>1
<1>3. \A v \in 0 .. MaxScore : v \in Nat
  BY MaxScoreType
<1> QED
  BY <1>2, <1>3

(* y is x with the score v.                                                *)
Scored(y, x, v) == y \in Row /\ SameEvent(y, x) /\ y.score = v

LEMMA RowWithScore ==
    ASSUME NEW x \in Row, NEW v \in 0 .. MaxScore, v <= x.score
    PROVE  Scored([x EXCEPT !.score = v], x, v)
<1> DEFINE y == [x EXCEPT !.score = v]
<1>1. y \in Row
  BY DEF Row
<1>2. /\ y.id = x.id /\ y.key = x.key /\ y.kind = x.kind /\ y.left = x.left
      /\ y.score = v
  BY DEF Row
<1> HIDE DEF y
<1>3. Scored(y, x, v)
  BY <1>1, <1>2 DEF Scored, SameEvent
<1> QED
  BY <1>3 DEF y

LEMMA DropsFinite ==
    ASSUME NEW q \in Seq(Row)
    PROVE  IsFiniteSet(Drops(q)) /\ Cardinality(Drops(q)) \in Nat /\ Cardinality(Drops(q)) <= Len(q)
<1>1. Len(q) \in Nat /\ DOMAIN q = 1 .. Len(q)
  BY RowSeq
<1>2. IsFiniteSet(1 .. Len(q)) /\ Cardinality(1 .. Len(q)) = Len(q)
  BY <1>1, Positions
<1>3. Drops(q) \in SUBSET (1 .. Len(q))
  BY <1>1 DEF Drops
<1> QED
  BY <1>2, <1>3, FS_Subset, FS_CardinalityType

(* Four fifths of a score.                                                 *)
LEMMA FourFifths ==
    ASSUME NEW a \in Nat, NEW b \in Nat
    PROVE  /\ (4 * a) \div 5 \in Nat /\ (4 * a) \div 5 <= a
           /\ a >= b => (4 * a) \div 5 >= (4 * b) \div 5
<1> DEFINE x == (4 * a) \div 5
           y == (4 * b) \div 5
<1>1. /\ x \in Int /\ 5 * x <= 4 * a /\ 4 * a < 5 * x + 5
      /\ y \in Int /\ 5 * y <= 4 * b /\ 4 * b < 5 * y + 5
  OBVIOUS
<1> HIDE DEF x, y
<1>2. x \in Nat /\ x <= a /\ (a >= b => x >= y)
  BY <1>1
<1> QED
  BY <1>2 DEF x, y

(* Taking rows away, or lowering all scores, keeps the file sound.         *)
LEMMA ThinnedSound ==
    ASSUME NEW q \in Seq(Row), NEW r \in Seq(Row), NEW at, Thinned(r, at, q), NEW n, Sound(q, n)
    PROVE  Sound(r, n) /\ Len(r) <= Len(q)
<1>1. /\ Len(q) \in Nat /\ DOMAIN q = 1 .. Len(q) /\ \A i \in DOMAIN q : q[i] \in Row
      /\ Len(r) \in Nat /\ DOMAIN r = 1 .. Len(r) /\ \A i \in DOMAIN r : r[i] \in Row
  BY RowSeq
<1>2. \A j, k \in DOMAIN r : at[j] = at[k] => j = k
  BY <1>1 DEF Thinned
<1>3. Sorted(r)
  BY <1>1 DEF Sound, Sorted, Thinned
<1>4. Cardinality(Drops(r)) <= MaxQueueDepth
  <2>1. \A k \in Drops(r) : at[k] \in Drops(q)
    BY DEF Drops, Thinned, SameEvent
  <2>2. \A j, k \in Drops(r) : at[j] = at[k] => j = k
    BY <1>2 DEF Drops
  <2>3. Cardinality(Drops(r)) <= Cardinality(Drops(q))
    BY <2>1, <2>2, DropsFinite, OneToOne
  <2> QED
    BY <2>3, DropsFinite, AttentionAssumption DEF Sound
<1>5. Spaced(r)
  <2> SUFFICES ASSUME NEW i \in DOMAIN r, NEW j \in DOMAIN r,
                      r[i].key = r[j].key, r[i].id < r[j].id, r[i].left > 0
               PROVE  r[j].left - r[i].left > DedupeWindow
    BY DEF Spaced
  <2>1. /\ at[i] \in DOMAIN q /\ at[j] \in DOMAIN q
        /\ SameEvent(r[i], q[at[i]]) /\ SameEvent(r[j], q[at[j]])
    BY DEF Thinned
  <2>2. /\ q[at[i]].key = q[at[j]].key /\ q[at[i]].id < q[at[j]].id /\ q[at[i]].left > 0
        /\ q[at[i]].left = r[i].left /\ q[at[j]].left = r[j].left
    BY <2>1 DEF SameEvent
  <2>3. q[at[j]].left - q[at[i]].left > DedupeWindow
    BY <2>1, <2>2, Zenon DEF Sound, Spaced
  <2> QED
    BY <2>2, <2>3
<1>6. \A i \in DOMAIN r : r[i].id < n
  BY DEF Thinned, SameEvent, Sound
<1>7. Len(r) <= Len(q)
  <2> DEFINE S == DOMAIN r
             T == DOMAIN q
  <2>1. IsFiniteSet(T) /\ Cardinality(T) = Len(q) /\ Cardinality(S) = Len(r)
    BY <1>1, Positions
  <2>2. \A k \in S : at[k] \in T
    BY DEF Thinned
  <2>3. \A j, k \in S : at[j] = at[k] => j = k
    BY <1>2
  <2> HIDE DEF S, T
  <2>4. Cardinality(S) <= Cardinality(T)
    BY <2>1, <2>2, <2>3, OneToOne
  <2> QED
    BY <2>1, <2>4
<1> QED
  BY <1>3, <1>4, <1>5, <1>6, <1>7 DEF Sound

(* Rescoring, and rows from the n-th on.                                   *)
LEMMA RescoredThinned ==
    ASSUME NEW p \in Seq(Row), NEW q \in Seq(Row), NEW at, Thinned(p, at, q)
    PROVE  /\ Rescored(p) \in Seq(Row) /\ Len(Rescored(p)) = Len(p)
           /\ DOMAIN Rescored(p) = DOMAIN p
           /\ \A k \in DOMAIN p : Rescored(p)[k].id = p[k].id
           /\ Thinned(Rescored(p), at, q)
<1> DEFINE r == Rescored(p)
<1>1. /\ Len(p) \in Nat /\ DOMAIN p = 1 .. Len(p) /\ \A i \in DOMAIN p : p[i] \in Row
      /\ \A i \in DOMAIN q : q[i] \in Row
  BY RowSeq
<1>2. ASSUME NEW x \in Row
      PROVE  Scored([x EXCEPT !.score = (4 * @) \div 5], x, (4 * x.score) \div 5)
  <2>1. x.score \in Nat /\ x.score <= MaxScore
    BY RowFacts
  <2> DEFINE v == (4 * x.score) \div 5
  <2>2. v \in Nat /\ v <= x.score
    BY <2>1, FourFifths
  <2>3. [x EXCEPT !.score = (4 * @) \div 5] = [x EXCEPT !.score = v]
    OBVIOUS
  <2> HIDE DEF v
  <2>4. v \in 0 .. MaxScore
    BY <2>1, <2>2, MaxScoreType
  <2>5. Scored([x EXCEPT !.score = v], x, v)
    BY <2>2, <2>4, RowWithScore
  <2> QED
    BY <2>3, <2>5 DEF v
<1>3. /\ DOMAIN r = DOMAIN p
      /\ \A k \in DOMAIN p : r[k] \in Row /\ SameEvent(r[k], p[k]) /\ r[k].score = (4 * p[k].score) \div 5
  <2>1. /\ DOMAIN r = DOMAIN p
        /\ \A k \in DOMAIN p : r[k] = [p[k] EXCEPT !.score = (4 * @) \div 5]
    BY DEF Rescored
  <2>2. \A k \in DOMAIN p : Scored(r[k], p[k], (4 * p[k].score) \div 5)
    BY <1>1, <1>2, <2>1
  <2> QED
    BY <2>1, <2>2 DEF Scored
<1>4. r \in Seq(Row) /\ Len(r) = Len(p)
  <2>1. r \in [1 .. Len(p) -> Row]
    BY <1>1, <1>3 DEF Rescored
  <2> HIDE DEF r
  <2>2. r \in Seq(Row)
    BY <1>1, <2>1, SeqDef
  <2> QED
    BY <1>1, <2>1, <2>2, LenProperties
<1> HIDE DEF r
<1>5. \A k \in DOMAIN p : at[k] \in DOMAIN q /\ SameEvent(p[k], q[at[k]])
  BY DEF Thinned
<1>6. \A k \in DOMAIN p : SameEvent(r[k], q[at[k]])
  <2> SUFFICES ASSUME NEW k \in DOMAIN p PROVE SameEvent(r[k], q[at[k]])
    OBVIOUS
  <2>1. r[k].score \in Nat /\ p[k].score \in Nat /\ q[at[k]].score \in Nat
    BY <1>1, <1>3, <1>5, RowFacts
  <2> QED
    BY <1>3, <1>5, <2>1 DEF SameEvent
<1>7. ASSUME NEW j \in DOMAIN p, NEW k \in DOMAIN p, q[at[j]].score >= q[at[k]].score
      PROVE  r[j].score >= r[k].score
  <2>1. p[j].score \in Nat /\ p[k].score \in Nat
    BY <1>1, RowFacts
  <2>2. p[j].score >= p[k].score
    BY <1>7 DEF Thinned
  <2>3. (4 * p[j].score) \div 5 >= (4 * p[k].score) \div 5
    BY <2>1, <2>2, FourFifths
  <2> QED
    BY <1>3, <2>3
<1>8. Thinned(r, at, q)
  BY <1>3, <1>5, <1>6, <1>7 DEF Thinned
<1> QED
  BY <1>3, <1>4, <1>8 DEF SameEvent, r

LEMMA SuffixThinned ==
    ASSUME NEW p \in Seq(Row), NEW q \in Seq(Row), NEW at, Thinned(p, at, q), NEW n \in 0 .. Len(p)
    PROVE  LET r == SubSeq(p, n + 1, Len(p))
           IN  /\ r \in Seq(Row) /\ Len(r) = Len(p) - n
               /\ \A k \in 1 .. Len(p) - n : r[k] = p[n + k]
               /\ \E to : Thinned(r, to, q)
<1> DEFINE r == SubSeq(p, n + 1, Len(p))
<1> DEFINE l == Len(p)
<1>1. l \in Nat /\ DOMAIN p = 1 .. l /\ \A i \in 1 .. l : p[i] \in Row
  BY RowSeq
<1>2. /\ r \in Seq(Row) /\ Len(r) = l - n
      /\ \A k \in 1 .. l - n : r[k] = p[n + k]
  <2>1. n + 1 \in Int /\ l \in Int /\ \A i \in n + 1 .. l : p[i] \in Row
    BY <1>1
  <2>2. /\ r \in Seq(Row) /\ Len(r) = IF n + 1 <= l THEN l - (n + 1) + 1 ELSE 0
        /\ \A i \in 1 .. l - (n + 1) + 1 : r[i] = p[(n + 1) + i - 1]
    BY <2>1, SubSeqProperties
  <2> HIDE DEF r
  <2>3. l - (n + 1) + 1 = l - n
    BY <1>1
  <2>4. \A i \in 1 .. l - n : (n + 1) + i - 1 = n + i
    BY <1>1
  <2>5. Len(r) = l - n
    <3>0. l \in Nat /\ n \in 0 .. l /\ Len(r) = IF n + 1 <= l THEN l - (n + 1) + 1 ELSE 0
      BY <1>1, <2>2
    <3> HIDE DEF l
    <3>1. CASE n + 1 <= l
      BY <3>0, <2>3, <3>1
    <3>2. CASE ~(n + 1 <= l)
      <4>1. n = l
        BY <3>0, <3>2
      <4> QED
        BY <3>0, <3>2, <4>1
    <3> QED
      BY <3>1, <3>2
  <2> QED
    BY <2>2, <2>3, <2>4, <2>5
<1> HIDE DEF r
<1>3. DOMAIN r = 1 .. l - n
  BY <1>2, RowSeq
<1> HIDE DEF l
<1> DEFINE to == [k \in 1 .. l - n |-> at[n + k]]
<1>4. \A k \in 1 .. l - n : n + k \in DOMAIN p /\ to[k] = at[n + k] /\ r[k] = p[n + k]
  BY <1>1, <1>2
<1>5. \A j, k \in 1 .. l - n : j < k => n + j < n + k
  BY <1>1
<1> HIDE DEF to
<1>6. Thinned(r, to, q)
  <2> DEFINE D == 1 .. l - n
  <2>1. /\ DOMAIN r = D
        /\ \A k \in D : n + k \in DOMAIN p /\ to[k] = at[n + k] /\ r[k] = p[n + k]
        /\ \A j, k \in D : j < k => n + j < n + k
    BY <1>3, <1>4, <1>5
  <2> HIDE DEF D
  <2>2. \A k \in D : to[k] \in DOMAIN q /\ SameEvent(r[k], q[to[k]])
    BY <2>1 DEF Thinned
  <2>3. \A j, k \in D : j < k => to[j] < to[k]
    BY <2>1 DEF Thinned
  <2>4. \A j, k \in D : q[to[j]].score >= q[to[k]].score => r[j].score >= r[k].score
    BY <2>1 DEF Thinned
  <2> QED
    BY <2>1, <2>2, <2>3, <2>4 DEF Thinned
<1> QED
  BY <1>2, <1>6 DEF r, l

LEMMA SelfThinned ==
    ASSUME NEW q \in Seq(Row)
    PROVE  Thinned(q, [k \in DOMAIN q |-> k], q)
<1> DEFINE at == [k \in DOMAIN q |-> k]
<1>1. \A k \in DOMAIN q : at[k] = k
  OBVIOUS
<1>2. \A k \in DOMAIN q : q[k].score \in Nat
  BY RowSeq, RowFacts
<1> HIDE DEF at
<1>3. \A k \in DOMAIN q : at[k] \in DOMAIN q /\ SameEvent(q[k], q[at[k]])
  BY <1>1, <1>2 DEF SameEvent
<1>4. Thinned(q, at, q)
  BY <1>1, <1>3 DEF Thinned
<1> QED
  BY <1>4 DEF at

(* Rows picked out of q.                                                   *)
LEMMA PickedThinned ==
    ASSUME NEW q \in Seq(Row), NEW I
    PROVE  Picked(q, I) \in Seq(Row) /\ \E at : Thinned(Picked(q, I), at, q)
<1> DEFINE p == Picked(q, I)
<1>1. p \in Seq(Row) /\ \E at : Selects(p, at, q, I, Len(q))
  BY PickedSelects
<1> HIDE DEF p
<1>2. PICK at : Selects(p, at, q, I, Len(q))
  BY <1>1
<1>3. DOMAIN p = 1 .. Len(p) /\ DOMAIN q = 1 .. Len(q) /\ \A k \in DOMAIN q : q[k].score \in Nat
  BY <1>1, RowSeq, RowFacts
<1>4. \A k \in DOMAIN p : at[k] \in DOMAIN q /\ p[k] = q[at[k]]
  BY <1>2, <1>3 DEF Selects
<1>5. \A j, k \in DOMAIN p : j < k => at[j] < at[k]
  BY <1>2, <1>3 DEF Selects
<1>6. \A k \in DOMAIN p : SameEvent(p[k], q[at[k]])
  BY <1>3, <1>4 DEF SameEvent
<1>7. Thinned(p, at, q)
  BY <1>4, <1>5, <1>6 DEF Thinned
<1> QED
  BY <1>1, <1>7 DEF p

-----------------------------------------------------------------------------
(* What the commands read and write.                                       *)

LEMMA PrunedFacts ==
    ASSUME TypeOK, Sound(queue, nextId)
    PROVE  /\ Pruned \in Seq(Row) /\ Len(Pruned) <= Len(queue) /\ Len(Pruned) \in Nat
           /\ Rescored(Pruned) \in Seq(Row) /\ Len(Rescored(Pruned)) = Len(Pruned)
           /\ Sound(Rescored(Pruned), nextId)
           /\ \E at : Thinned(Rescored(Pruned), at, queue)
           /\ DOMAIN Rescored(Pruned) = DOMAIN Pruned
           /\ \A k \in DOMAIN Pruned : SameEvent(Rescored(Pruned)[k], Pruned[k])
<1>1. queue \in Seq(Row)
  BY DEF TypeOK
<1>2. Pruned \in Seq(Row) /\ \E at : Thinned(Pruned, at, queue)
  BY <1>1, PickedThinned DEF Pruned
<1>3. PICK at : Thinned(Pruned, at, queue)
  BY <1>2
<1>4. /\ Rescored(Pruned) \in Seq(Row) /\ Len(Rescored(Pruned)) = Len(Pruned)
      /\ Thinned(Rescored(Pruned), at, queue) /\ DOMAIN Rescored(Pruned) = DOMAIN Pruned
  BY <1>1, <1>2, <1>3, RescoredThinned
<1>5. Sound(Rescored(Pruned), nextId)
  BY <1>1, <1>4, ThinnedSound
<1>6. Len(Pruned) <= Len(queue)
  BY <1>1, <1>2, <1>3, ThinnedSound
<1>7. Thinned(Rescored(Pruned), [k \in DOMAIN Pruned |-> k], Pruned)
  BY <1>2, SelfThinned, RescoredThinned
<1>8. \A k \in DOMAIN Pruned : SameEvent(Rescored(Pruned)[k], Pruned[k])
  BY <1>4, <1>7 DEF Thinned
<1> QED
  BY <1>2, <1>4, <1>5, <1>6, <1>8, RowSeq

LEMMA ActiveFacts ==
    ASSUME TypeOK, Sound(queue, nextId)
    PROVE  /\ ActiveQueue \in Seq(Row) /\ Sound(ActiveQueue, nextId)
           /\ Len(ActiveQueue) = Len(Pruned) /\ Len(ActiveQueue) \in Nat
           /\ Len(ActiveQueue) <= Len(queue) /\ Len(queue) \in Nat
<1>1. queue \in Seq(Row) /\ Len(queue) \in Nat
  BY RowSeq DEF TypeOK
<1> QED
  BY <1>1, PrunedFacts DEF ActiveQueue

LEMMA FromTo ==
    ASSUME TypeOK, Sound(queue, nextId), NEW c \in Consumers
    PROVE  /\ From(c) \in Nat /\ offset[c] \in Nat
           /\ From(c) = IF offset[c] <= Len(ActiveQueue) THEN offset[c] ELSE Len(ActiveQueue)
           /\ From(c) <= Len(ActiveQueue)
           /\ \A limit \in Limits : /\ To(c, limit) \in Nat
                                    /\ To(c, limit) <= Len(ActiveQueue)
<1>1. offset[c] \in Nat /\ Len(ActiveQueue) \in Nat
  BY ActiveFacts DEF TypeOK
<1>2. From(c) = IF offset[c] <= Len(ActiveQueue) THEN offset[c] ELSE Len(ActiveQueue)
  BY <1>1, MinOfTwo DEF From, Least
<1>3. From(c) \in Nat /\ From(c) <= Len(ActiveQueue)
  BY <1>1, <1>2
<1>4. ASSUME NEW limit \in Limits
      PROVE  To(c, limit) \in Nat /\ To(c, limit) <= Len(ActiveQueue)
  <2>1. From(c) + limit \in Nat
    BY <1>3, AttentionAssumption
  <2>2. To(c, limit) = IF Len(ActiveQueue) <= From(c) + limit
                       THEN Len(ActiveQueue) ELSE From(c) + limit
    BY <1>1, <2>1, MinOfTwo DEF To, Least
  <2> QED
    BY <1>1, <2>1, <2>2
<1> QED
  BY <1>1, <1>2, <1>3, <1>4

(* `s' is `q' with the row r put in at position m, before the rows with a  *)
(* lower score; `at' tells where each of the others was.                   *)
Placed(s, m, at, q, r) ==
    /\ m \in DOMAIN s /\ s[m] = r
    /\ \A k \in DOMAIN s : k # m => at[k] \in DOMAIN q /\ s[k] = q[at[k]]
    /\ \A j, k \in DOMAIN s : j # m /\ k # m /\ at[j] = at[k] => j = k
    /\ \A k \in DOMAIN s : k < m => s[k].score >= r.score

LEMMA InsertPlaces ==
    ASSUME NEW q \in Seq(Row), NEW r \in Row, Sorted(q)
    PROVE  /\ Insert(q, r) \in Seq(Row) /\ Len(Insert(q, r)) <= Len(q) + 1
           /\ Sorted(Insert(q, r))
           /\ \E m, at : Placed(Insert(q, r), m, at, q, r)
<1> DEFINE B == {i \in DOMAIN q : q[i].score >= r.score}
           C == DOMAIN q \ B
           a == Picked(q, B)
           b == Picked(q, C)
           s == Insert(q, r)
<1>1. s = (a \o <<r>>) \o b
  BY DEF Insert
<1>2. /\ DOMAIN q = 1 .. Len(q) /\ \A i \in DOMAIN q : q[i] \in Row /\ q[i].score \in Nat
      /\ r.score \in Nat
  BY RowSeq, RowFacts
<1>3. /\ \A i \in B : i \in DOMAIN q /\ q[i].score >= r.score
      /\ \A i \in C : i \in DOMAIN q /\ q[i].score < r.score /\ i \notin B
  BY <1>2
<1>4. a \in Seq(Row) /\ \E at : Selects(a, at, q, B, Len(q))
  BY PickedSelects
<1>5. b \in Seq(Row) /\ \E at : Selects(b, at, q, C, Len(q))
  BY PickedSelects
<1> HIDE DEF a, b, B, C, s
<1>6. PICK f : Selects(a, f, q, B, Len(q))
  BY <1>4
<1>7. PICK g : Selects(b, g, q, C, Len(q))
  BY <1>5
<1> DEFINE la == Len(a)
           lb == Len(b)
<1>8. la \in Nat /\ lb \in Nat
  BY <1>4, <1>5, LenProperties
<1>9. /\ s \in Seq(Row) /\ Len(s) = la + 1 + lb
      /\ \A k \in 1 .. la : s[k] = a[k]
      /\ s[la + 1] = r
      /\ \A k \in 1 .. lb : s[la + 1 + k] = b[k]
  <2>1. <<r>> \in Seq(Row) /\ Len(<<r>>) = 1 /\ <<r>>[1] = r
    OBVIOUS
  <2> DEFINE u == a \o <<r>>
  <2>2. u \in Seq(Row) /\ Len(u) = la + 1 /\ \A k \in 1 .. la : u[k] = a[k]
    BY <1>4, <2>1, ConcatProperties
  <2>3. u[la + 1] = r
    BY <1>4, <2>1
  <2> HIDE DEF u
  <2>4. s = u \o b
    BY <1>1 DEF u
  <2>5. s \in Seq(Row) /\ Len(s) = la + 1 + lb
    <3>1. u \o b \in Seq(Row) /\ Len(u \o b) = Len(u) + Len(b)
      BY <1>5, <2>2, ConcatProperties
    <3> QED
      BY <2>2, <2>4, <3>1
  <2>6. /\ \A k \in 1 .. la + 1 : s[k] = u[k]
        /\ \A k \in 1 .. lb : s[la + 1 + k] = b[k]
    <3>1. \A k \in 1 .. la + 1 + lb : s[k] = IF k <= la + 1 THEN u[k] ELSE b[k - (la + 1)]
      BY <1>5, <2>2, <2>4, ConcatProperties
    <3>2. \A k \in 1 .. lb : /\ la + 1 + k \in 1 .. la + 1 + lb
                             /\ ~(la + 1 + k <= la + 1) /\ la + 1 + k - (la + 1) = k
      BY <1>8
    <3>3. \A k \in 1 .. la + 1 : k \in 1 .. la + 1 + lb /\ k <= la + 1
      BY <1>8
    <3> QED
      BY <3>1, <3>2, <3>3
  <2> QED
    BY <1>8, <2>2, <2>3, <2>5, <2>6
<1>10. /\ \A k \in 1 .. la : f[k] \in B /\ a[k] = q[f[k]]
       /\ \A j, k \in 1 .. la : j < k => f[j] < f[k]
  BY <1>6 DEF Selects
<1>11. /\ \A k \in 1 .. lb : g[k] \in C /\ b[k] = q[g[k]]
       /\ \A j, k \in 1 .. lb : j < k => g[j] < g[k]
  BY <1>7 DEF Selects
<1> HIDE DEF la, lb
<1> DEFINE at == [k \in 1 .. la + 1 + lb |-> IF k <= la THEN f[k] ELSE g[k - la - 1]]
           m == la + 1
<1>12. DOMAIN s = 1 .. la + 1 + lb
  BY <1>9, RowSeq
<1>13. ASSUME NEW k \in DOMAIN s
       PROVE  \/ /\ k < m /\ k \in 1 .. la /\ s[k] = q[f[k]] /\ at[k] = f[k]
              \/ /\ k = m /\ s[k] = r
              \/ /\ k > m /\ k - la - 1 \in 1 .. lb /\ s[k] = q[g[k - la - 1]]
                 /\ at[k] = g[k - la - 1]
  <2>1. CASE k <= la
    BY <1>8, <1>9, <1>10, <1>12, <2>1
  <2>2. CASE k = la + 1
    BY <1>9, <2>2
  <2>3. CASE k > la + 1
    <3>1. k - la - 1 \in 1 .. lb /\ la + 1 + (k - la - 1) = k /\ ~(k <= la) /\ k \in 1 .. la + 1 + lb
      BY <1>8, <1>12, <2>3
    <3>2. s[k] = b[k - la - 1]
      BY <1>9, <3>1
    <3> QED
      BY <1>11, <2>3, <3>1, <3>2
  <2> QED
    BY <1>8, <1>12, <2>1, <2>2, <2>3
<1> HIDE DEF at
<1>14. \A k \in DOMAIN s : k < m => at[k] \in B /\ s[k] = q[at[k]]
  BY <1>8, <1>10, <1>12, <1>13
<1>15. \A k \in DOMAIN s : k > m => at[k] \in C /\ s[k] = q[at[k]]
  BY <1>8, <1>11, <1>12, <1>13
<1>16. ASSUME NEW j \in DOMAIN s, NEW k \in DOMAIN s, j < k, j # m, k # m
       PROVE  /\ at[j] # at[k] /\ s[j].score >= s[k].score
  <2>0. j \in Nat /\ k \in Nat /\ m \in Nat
    BY <1>8, <1>12
  <2>1. CASE k < m
    <3>1. j < m
      BY <1>16, <2>0, <2>1
    <3>2. f[j] < f[k] /\ at[j] = f[j] /\ at[k] = f[k]
      BY <1>10, <1>13, <1>16, <2>0, <2>1, <3>1
    <3>3. at[j] \in DOMAIN q /\ at[k] \in DOMAIN q /\ s[j] = q[at[j]] /\ s[k] = q[at[k]]
      BY <1>3, <1>14, <2>1, <3>1
    <3> QED
      BY <1>2, <3>2, <3>3 DEF Sorted
  <2>2. CASE j > m
    <3>1. k > m
      BY <1>16, <2>0, <2>2
    <3>2. /\ j - la - 1 \in 1 .. lb /\ k - la - 1 \in 1 .. lb
          /\ at[j] = g[j - la - 1] /\ at[k] = g[k - la - 1]
      BY <1>13, <2>0, <2>2, <3>1
    <3>3. j - la - 1 < k - la - 1
      BY <1>8, <1>16, <2>0
    <3>4. at[j] < at[k]
      BY <1>11, <3>2, <3>3
    <3>5. at[j] \in DOMAIN q /\ at[k] \in DOMAIN q /\ s[j] = q[at[j]] /\ s[k] = q[at[k]]
      BY <1>3, <1>15, <2>2, <3>1
    <3> QED
      BY <1>2, <3>4, <3>5 DEF Sorted
  <2>3. CASE j < m /\ k > m
    <3>1. at[j] \in B /\ s[j] = q[at[j]] /\ at[k] \in C /\ s[k] = q[at[k]]
      BY <1>14, <1>15, <2>3
    <3>2. at[j] \in DOMAIN q /\ at[k] \in DOMAIN q /\ at[j] # at[k]
          /\ q[at[j]].score >= r.score /\ q[at[k]].score < r.score
      BY <1>3, <3>1
    <3>3. q[at[j]].score \in Nat /\ q[at[k]].score \in Nat
      BY <1>2, <3>2
    <3> QED
      BY <1>2, <3>1, <3>2, <3>3
  <2> QED
    BY <1>16, <2>0, <2>1, <2>2, <2>3
<1>17. \A k \in DOMAIN s : k \in Nat /\ m \in Nat
  BY <1>8, <1>12
<1>18. m \in DOMAIN s /\ s[m] = r
  BY <1>8, <1>9, <1>12
<1> HIDE DEF m
<1>19. \A k \in DOMAIN s : k < m => s[k].score >= r.score
  BY <1>3, <1>14
<1>20. \A k \in DOMAIN s : k > m => r.score >= s[k].score
  <2> SUFFICES ASSUME NEW k \in DOMAIN s, k > m PROVE r.score >= s[k].score
    OBVIOUS
  <2>1. at[k] \in DOMAIN q /\ q[at[k]].score < r.score /\ s[k] = q[at[k]]
    BY <1>3, <1>15
  <2>2. q[at[k]].score \in Nat
    BY <1>2, <2>1
  <2> QED
    BY <1>2, <2>1, <2>2
<1>21. Sorted(s)
  <2> SUFFICES ASSUME NEW j \in DOMAIN s, NEW k \in DOMAIN s, j < k
               PROVE  s[j].score >= s[k].score
    BY DEF Sorted
  <2> QED
    BY <1>16, <1>17, <1>18, <1>19, <1>20
<1>22. \A k \in DOMAIN s : k # m => at[k] \in DOMAIN q /\ s[k] = q[at[k]]
  BY <1>3, <1>14, <1>15, <1>17
<1>23. \A j, k \in DOMAIN s : j # m /\ k # m /\ at[j] = at[k] => j = k
  BY <1>16, <1>17
<1>24. Placed(s, m, at, q, r)
  BY <1>18, <1>19, <1>22, <1>23 DEF Placed
<1>25. Len(s) <= Len(q) + 1
  <2> DEFINE S == DOMAIN s \ {m}
             T == DOMAIN q
  <2>1. Len(q) \in Nat /\ Len(s) \in Nat /\ DOMAIN s = 1 .. Len(s)
    BY <1>9, RowSeq
  <2>2. IsFiniteSet(T) /\ Cardinality(T) = Len(q)
    BY <1>2, <2>1, Positions
  <2>3. IsFiniteSet(DOMAIN s) /\ Cardinality(DOMAIN s) = Len(s)
    BY <2>1, Positions
  <2>4. Cardinality(S) = Len(s) - 1
    BY <1>18, <2>3, FS_RemoveElement
  <2>5. \A k \in S : at[k] \in T
    BY <1>22
  <2>6. \A j, k \in S : at[j] = at[k] => j = k
    BY <1>23
  <2> HIDE DEF S, T
  <2>7. Cardinality(S) <= Cardinality(T)
    BY <2>2, <2>5, <2>6, OneToOne
  <2> QED
    BY <2>1, <2>2, <2>4, <2>7
<1> QED
  BY <1>9, <1>21, <1>24, <1>25 DEF s

(* An event that is neither a duplicate nor refused keeps the file sound.  *)
LEMMA InsertSound ==
    ASSUME NEW q \in Seq(Row), NEW n \in Nat, Sound(q, n), NEW r \in Row, r.id = n, r.left = Ttl,
           \A i \in DOMAIN q : q[i].key = r.key => Ttl - q[i].left > DedupeWindow,
           Len(q) < MaxQueueDepth \/ ~Droppable(r.kind)
    PROVE  Insert(q, r) \in Seq(Row) /\ Sound(Insert(q, r), n + 1)
<1> DEFINE s == Insert(q, r)
<1>1. s \in Seq(Row) /\ Len(s) <= Len(q) + 1 /\ Sorted(s) /\ \E m, at : Placed(s, m, at, q, r)
  BY InsertPlaces DEF Sound
<1> HIDE DEF s
<1>2. PICK m, at : Placed(s, m, at, q, r)
  BY <1>1
<1>3. /\ Len(q) \in Nat /\ Len(s) \in Nat /\ MaxQueueDepth \in Nat
      /\ \A i \in DOMAIN q : q[i].id \in Nat
  BY <1>1, RowSeq, RowFacts, AttentionAssumption
<1>4. \A k \in DOMAIN s : k # m => s[k].id < n
  BY <1>2 DEF Placed, Sound
<1>5. \A k \in DOMAIN s : s[k].id < n + 1
  <2> SUFFICES ASSUME NEW k \in DOMAIN s PROVE s[k].id < n + 1
    OBVIOUS
  <2>1. s[k].id \in Nat
    BY <1>1, RowSeq, RowFacts
  <2>2. s[k].id = n \/ s[k].id < n
    BY <1>2, <1>4 DEF Placed
  <2> QED
    BY <2>1, <2>2
<1>6. Spaced(s)
  <2> SUFFICES ASSUME NEW i \in DOMAIN s, NEW j \in DOMAIN s,
                      s[i].key = s[j].key, s[i].id < s[j].id, s[i].left > 0
               PROVE  s[j].left - s[i].left > DedupeWindow
    BY DEF Spaced
  <2>0. s[i].id \in Nat /\ s[j].id \in Nat
    BY <1>1, RowSeq, RowFacts
  <2>1. i # m
    <3> SUFFICES ASSUME i = m PROVE FALSE
      OBVIOUS
    <3>1. s[i].id = n
      BY <1>2 DEF Placed
    <3>2. s[j].id < n + 1
      BY <1>5
    <3> QED
      BY <2>0, <3>1, <3>2
  <2>2. at[i] \in DOMAIN q /\ s[i] = q[at[i]]
    BY <1>2, <2>1 DEF Placed
  <2>3. CASE j = m
    <3>1. s[j].left = Ttl /\ s[j].key = r.key
      BY <1>2, <2>3 DEF Placed
    <3> QED
      BY <2>2, <3>1
  <2>4. CASE j # m
    <3>1. at[j] \in DOMAIN q /\ s[j] = q[at[j]]
      BY <1>2, <2>4 DEF Placed
    <3> QED
      BY <2>2, <3>1 DEF Sound, Spaced
  <2> QED
    BY <2>3, <2>4
<1>7. Cardinality(Drops(s)) <= MaxQueueDepth
  <2>0. /\ IsFiniteSet(Drops(s)) /\ Cardinality(Drops(s)) \in Nat /\ Cardinality(Drops(s)) <= Len(s)
        /\ IsFiniteSet(Drops(q)) /\ Cardinality(Drops(q)) \in Nat
    BY <1>1, DropsFinite
  <2>1. CASE Len(q) < MaxQueueDepth
    BY <1>1, <1>3, <2>0, <2>1
  <2>2. CASE ~Droppable(r.kind)
    <3>1. \A k \in Drops(s) : k \in DOMAIN s /\ k # m
      BY <1>2, <2>2 DEF Drops, Placed
    <3>2. \A k \in Drops(s) : at[k] \in Drops(q)
      BY <1>2, <3>1 DEF Drops, Placed
    <3>3. \A j, k \in Drops(s) : at[j] = at[k] => j = k
      BY <1>2, <3>1 DEF Placed
    <3>4. Cardinality(Drops(s)) <= Cardinality(Drops(q))
      BY <2>0, <3>2, <3>3, OneToOne
    <3>5. Cardinality(Drops(q)) <= MaxQueueDepth
      BY DEF Sound
    <3> QED
      BY <1>3, <2>0, <3>4, <3>5
  <2> QED
    BY <2>1, <2>2
<1> QED
  BY <1>1, <1>5, <1>6, <1>7 DEF Sound, s

-----------------------------------------------------------------------------
(* The invariant.                                                          *)

LEMMA InitInv == Init => Inv
<1> SUFFICES ASSUME Init PROVE Inv
  OBVIOUS
<1>1. queue = <<>> /\ DOMAIN queue = {} /\ queue \in Seq(Row)
  BY DEF Init
<1>2. TypeOK
  BY <1>1, AttentionAssumption DEF Init, TypeOK
<1>3. Drops(queue) = {}
  BY <1>1 DEF Drops
<1>4. Cardinality(Drops(queue)) <= MaxQueueDepth
  BY <1>3, FS_EmptySet, AttentionAssumption
<1>5. Sound(queue, nextId)
  BY <1>1, <1>4 DEF Sound, Sorted, Spaced
<1>6. Told
  BY DEF Init, Told
<1> QED
  BY <1>2, <1>5, <1>6 DEF Inv

LEMMA EnqueueInv ==
    ASSUME Inv, NEW key \in Keys, NEW kind \in Kinds, Enqueue(key, kind)
    PROVE  Inv'
<1> DEFINE q == Rescored(Pruned)
           r == [id |-> nextId, key |-> key, kind |-> kind, score |-> Score[kind], left |-> Ttl]
<1>1. TypeOK /\ Sound(queue, nextId) /\ nextId \in 1 .. MaxEvents /\ nextId \in Nat
  BY AttentionAssumption DEF Inv, TypeOK, Enqueue
<1>2. /\ q \in Seq(Row) /\ Sound(q, nextId) /\ Len(q) = Len(Pruned) /\ Len(Pruned) \in Nat
      /\ DOMAIN q = DOMAIN Pruned
      /\ \A k \in DOMAIN Pruned : SameEvent(q[k], Pruned[k])
  BY <1>1, PrunedFacts
<1>3. r \in Row /\ r.id = nextId /\ r.left = Ttl /\ r.key = key /\ r.kind = kind
  <2>1. Score[kind] \in 0 .. MaxScore /\ Ttl \in 0 .. Ttl
    BY ScoreType, AttentionAssumption
  <2> QED
    BY <1>1, <2>1 DEF Row
<1>4. queue' = Insert(q, r) /\ nextId' = nextId + 1
  BY DEF Enqueue
<1> HIDE DEF q, r
<1>5. \A i \in DOMAIN q : q[i].key = r.key => Ttl - q[i].left > DedupeWindow
  <2> SUFFICES ASSUME NEW i \in DOMAIN q, q[i].key = r.key PROVE Ttl - q[i].left > DedupeWindow
    OBVIOUS
  <2>1. Pruned[i].key = key /\ Pruned[i].left = q[i].left /\ i \in DOMAIN Pruned
    BY <1>2, <1>3 DEF SameEvent
  <2>2. ~(Ttl - q[i].left <= DedupeWindow)
    BY <2>1 DEF Enqueue, DedupeHit
  <2>3. q[i].left \in Nat /\ Ttl \in Nat /\ DedupeWindow \in Nat
    BY <1>2, RowSeq, RowFacts, AttentionAssumption
  <2> QED
    BY <2>2, <2>3
<1>6. Len(q) < MaxQueueDepth \/ ~Droppable(r.kind)
  BY <1>2, <1>3, AttentionAssumption DEF Enqueue, Backpressure
<1>7. queue' \in Seq(Row) /\ Sound(queue', nextId')
  BY <1>1, <1>2, <1>3, <1>4, <1>5, <1>6, InsertSound
<1>8. nextId' \in 1 .. MaxEvents + 1
  BY <1>1, <1>4, AttentionAssumption
<1>9. TypeOK'
  BY <1>1, <1>7, <1>8 DEF TypeOK, Enqueue
<1>10. Told'
  BY DEF Inv, Told, Enqueue
<1>11. Sound(queue, nextId)'
  BY <1>7 DEF Sound, Sorted, Spaced, Drops
<1> QED
  BY <1>9, <1>10, <1>11 DEF Inv

LEMMA ElapseInv == ASSUME Inv, Elapse PROVE Inv'
<1> DEFINE r == queue'
<1>1. queue \in Seq(Row) /\ Sound(queue, nextId) /\ nextId' = nextId
  BY DEF Inv, TypeOK, Elapse
<1>2. /\ Len(queue) \in Nat /\ DOMAIN queue = 1 .. Len(queue)
      /\ \A i \in DOMAIN queue : queue[i] \in Row
  BY <1>1, RowSeq
<1>3. ASSUME NEW x \in Row
      PROVE  LET y == [x EXCEPT !.left = IF @ = 0 THEN 0 ELSE @ - 1]
             IN  /\ y \in Row /\ y.id = x.id /\ y.key = x.key /\ y.kind = x.kind
                 /\ y.score = x.score /\ y.left = IF x.left = 0 THEN 0 ELSE x.left - 1
  <2> DEFINE v == IF x.left = 0 THEN 0 ELSE x.left - 1
             y == [x EXCEPT !.left = IF @ = 0 THEN 0 ELSE @ - 1]
  <2>1. v \in 0 .. Ttl
    BY RowFacts, AttentionAssumption
  <2>2. y = [x EXCEPT !.left = v]
    OBVIOUS
  <2>3. y.left = v
    BY DEF Row
  <2> HIDE DEF v
  <2>4. [x EXCEPT !.left = v] \in Row
    BY <2>1 DEF Row
  <2> QED
    BY <2>2, <2>3, <2>4 DEF v, Row
<1>4. /\ DOMAIN r = DOMAIN queue
      /\ \A k \in DOMAIN queue :
           /\ r[k] \in Row /\ r[k].id = queue[k].id /\ r[k].key = queue[k].key
           /\ r[k].kind = queue[k].kind /\ r[k].score = queue[k].score
           /\ r[k].left = IF queue[k].left = 0 THEN 0 ELSE queue[k].left - 1
  BY <1>2, <1>3 DEF Elapse
<1>5. r \in Seq(Row)
  <2>1. r \in [1 .. Len(queue) -> Row]
    BY <1>2, <1>4 DEF Elapse
  <2> QED
    BY <1>2, <2>1, SeqDef
<1>6. \A k \in DOMAIN queue : queue[k].left \in Nat
  BY <1>2, RowFacts
<1> HIDE DEF r
<1>7. Sorted(r)
  BY <1>1, <1>4 DEF Sound, Sorted
<1>8. Drops(r) = Drops(queue)
  BY <1>4 DEF Drops
<1>9. Spaced(r)
  <2> SUFFICES ASSUME NEW i \in DOMAIN r, NEW j \in DOMAIN r,
                      r[i].key = r[j].key, r[i].id < r[j].id, r[i].left > 0
               PROVE  r[j].left - r[i].left > DedupeWindow
    BY DEF Spaced
  <2>1. i \in DOMAIN queue /\ j \in DOMAIN queue
    BY <1>4
  <2>2. queue[i].key = queue[j].key /\ queue[i].id < queue[j].id
    BY <1>4, <2>1
  <2>3. /\ queue[i].left \in Nat /\ queue[j].left \in Nat /\ DedupeWindow \in Nat
        /\ r[i].left = IF queue[i].left = 0 THEN 0 ELSE queue[i].left - 1
        /\ r[j].left = IF queue[j].left = 0 THEN 0 ELSE queue[j].left - 1
    BY <1>4, <1>6, <2>1, AttentionAssumption
  <2>4. queue[i].left > 0
    BY <2>3
  <2>5. queue[j].left - queue[i].left > DedupeWindow
    BY <1>1, <2>1, <2>2, <2>4 DEF Sound, Spaced
  <2> QED
    BY <2>3, <2>4, <2>5
<1>10. \A k \in DOMAIN r : r[k].id < nextId
  BY <1>1, <1>4 DEF Sound
<1>11. Sound(r, nextId)
  BY <1>1, <1>7, <1>8, <1>9, <1>10 DEF Sound
<1>12. Sound(queue, nextId)'
  BY <1>1, <1>11 DEF Sound, Sorted, Spaced, Drops, r
<1>13. TypeOK' /\ Told'
  BY <1>5 DEF Inv, TypeOK, Told, Elapse, r
<1> QED
  BY <1>12, <1>13 DEF Inv

(* A command that only loads the active queue.                             *)
LEMMA LoadedSound ==
    ASSUME Inv, queue' = ActiveQueue, nextId' = nextId
    PROVE  queue' \in Seq(Row) /\ Sound(queue, nextId)'
<1>1. queue' \in Seq(Row) /\ Sound(queue', nextId)
  BY ActiveFacts DEF Inv
<1> QED
  BY <1>1 DEF Sound, Sorted, Spaced, Drops

LEMMA GiveFacts ==
    ASSUME Inv, NEW c \in Consumers, NEW limit \in Limits, Give(c, limit)
    PROVE  /\ batch' \in [Consumers -> SUBSET (Nat \X (1 .. MaxEvents))]
           /\ delivered' \in [Consumers -> SUBSET (1 .. MaxEvents)]
           /\ \A i \in From(c) + 1 .. To(c, limit) : ActiveQueue[i].id \in delivered'[c]
           /\ Told'
<1> DEFINE span == From(c) + 1 .. To(c, limit)
           tokens == {<<i, ActiveQueue[i].id>> : i \in span}
           ids == {ActiveQueue[i].id : i \in span}
<1>1. TypeOK /\ Sound(queue, nextId)
  BY DEF Inv
<1>2. /\ ActiveQueue \in Seq(Row) /\ Len(ActiveQueue) \in Nat
      /\ From(c) \in Nat /\ To(c, limit) \in Nat /\ To(c, limit) <= Len(ActiveQueue)
  BY <1>1, ActiveFacts, FromTo
<1>3. \A i \in span : i \in Nat /\ i \in 1 .. Len(ActiveQueue)
  BY <1>2
<1>4. \A i \in span : i \in Nat /\ ActiveQueue[i].id \in 1 .. MaxEvents
  BY <1>2, <1>3, RowSeq, RowFacts
<1> HIDE DEF span
<1>5. tokens \in SUBSET (Nat \X (1 .. MaxEvents)) /\ ids \in SUBSET (1 .. MaxEvents)
  BY <1>4
<1>6. \A t \in tokens : t[2] \in ids
  OBVIOUS
<1>7. \A i \in span : ActiveQueue[i].id \in ids
  OBVIOUS
<1>8. batch' = [batch EXCEPT ![c] = @ \cup tokens] /\ delivered' = [delivered EXCEPT ![c] = @ \cup ids]
  BY DEF Give, span
<1> HIDE DEF tokens, ids
<1>9. /\ batch \in [Consumers -> SUBSET (Nat \X (1 .. MaxEvents))]
      /\ delivered \in [Consumers -> SUBSET (1 .. MaxEvents)]
  BY <1>1 DEF TypeOK
<1>10. /\ batch'[c] = batch[c] \cup tokens /\ delivered'[c] = delivered[c] \cup ids
       /\ \A d \in Consumers : d # c => batch'[d] = batch[d] /\ delivered'[d] = delivered[d]
  BY <1>8, <1>9
<1>11. \A d \in Consumers : \A t \in batch'[d] : t[2] \in delivered'[d]
  BY <1>6, <1>10 DEF Inv, Told
<1>12. batch' \in [Consumers -> SUBSET (Nat \X (1 .. MaxEvents))]
  BY <1>5, <1>8, <1>9
<1>13. delivered' \in [Consumers -> SUBSET (1 .. MaxEvents)]
  BY <1>5, <1>8, <1>9
<1> QED
  BY <1>7, <1>10, <1>11, <1>12, <1>13 DEF Told, span

LEMMA NextBatchInv ==
    ASSUME Inv, NEW c \in Consumers, NEW limit \in Limits, NextBatch(c, limit)
    PROVE  Inv'
<1>1. Give(c, limit) /\ queue' = ActiveQueue /\ UNCHANGED <<offset, known, nextId>>
  BY DEF NextBatch
<1>2. queue' \in Seq(Row) /\ Sound(queue, nextId)'
  BY <1>1, LoadedSound
<1>3. TypeOK'
  BY <1>1, <1>2, GiveFacts DEF Inv, TypeOK
<1> QED
  BY <1>1, <1>2, <1>3, GiveFacts DEF Inv

LEMMA DrainInv ==
    ASSUME Inv, NEW c \in Consumers, NEW limit \in Limits, Drain(c, limit)
    PROVE  Inv'
<1>1. /\ Give(c, limit) /\ queue' = ActiveQueue /\ nextId' = nextId
      /\ offset' = [offset EXCEPT ![c] = To(c, limit)] /\ known' = known \cup {c}
  BY DEF Drain
<1>2. queue' \in Seq(Row) /\ Sound(queue, nextId)'
  BY <1>1, LoadedSound
<1>3. To(c, limit) \in Nat
  BY FromTo DEF Inv
<1>4. TypeOK'
  BY <1>1, <1>2, <1>3, GiveFacts DEF Inv, TypeOK
<1> QED
  BY <1>1, <1>2, <1>4, GiveFacts DEF Inv

LEMMA AckInv ==
    ASSUME Inv, NEW c \in Consumers, NEW i, NEW id, Ack(c, i, id)
    PROVE  Inv'
<1>1. /\ queue' = ActiveQueue /\ offset' = [offset EXCEPT ![c] = i] /\ known' = known \cup {c}
      /\ batch' = batch /\ delivered' = delivered /\ nextId' = nextId /\ i \in DOMAIN ActiveQueue
  BY DEF Ack
<1>2. queue' \in Seq(Row) /\ Sound(queue, nextId)'
  BY <1>1, LoadedSound
<1>3. i \in Nat
  BY <1>1, ActiveFacts, RowSeq DEF Inv
<1>4. TypeOK'
  BY <1>1, <1>2, <1>3 DEF Inv, TypeOK
<1>5. Told'
  BY <1>1 DEF Inv, Told
<1> QED
  BY <1>2, <1>4, <1>5 DEF Inv

LEMMA StatusInv == ASSUME Inv, Status PROVE Inv'
<1>1. queue' = ActiveQueue /\ UNCHANGED <<offset, known, batch, delivered, nextId>>
  BY DEF Status
<1>2. queue' \in Seq(Row) /\ Sound(queue, nextId)'
  BY <1>1, LoadedSound
<1> QED
  BY <1>1, <1>2 DEF Inv, TypeOK, Told

(* compact removes no more rows than any known consumer is past.           *)
LEMMA CompactFacts ==
    ASSUME Inv, NEW retain \in Retains, NEW minAcked \in MinAckeds,
           CompactCount(retain, minAcked) > 0
    PROVE  LET n == CompactCount(retain, minAcked)
           IN  /\ n \in Nat /\ n <= Len(Pruned)
               /\ \A c \in known : c \in Consumers /\ n <= From(c) /\ From(c) \in Nat
               /\ Kept(n) \in Seq(Row) /\ Sound(Kept(n), nextId)
               /\ Len(Kept(n)) = Len(Pruned) - n
               /\ \A k \in 1 .. Len(Pruned) - n : Kept(n)[k].id = Pruned[n + k].id
<1> DEFINE n == CompactCount(retain, minAcked)
           T == {From(c) : c \in known}
           l == Len(Pruned)
<1>1. TypeOK /\ Sound(queue, nextId)
  BY DEF Inv
<1>2. \A c \in known : c \in Consumers /\ From(c) \in Nat /\ From(c) <= l
  BY <1>1, FromTo, ActiveFacts DEF TypeOK
<1>3. l \in Nat
  BY <1>1, PrunedFacts
<1>4. retain \in Nat /\ minAcked \in Nat
  BY AttentionAssumption
<1> HIDE DEF l
<1>5. known # {} /\ MinOffset = Min(T)
  BY <1>4 DEF MinOffset, CompactCount
<1>6. T \subseteq Nat /\ T # {} /\ \A c \in known : From(c) \in T
  BY <1>2, <1>5
<1>7. \A y \in T : \E c \in known : y = From(c)
  OBVIOUS
<1> HIDE DEF T
<1>8. Min(T) \in T /\ \A y \in T : Min(T) <= y
  BY <1>6, MinOfNaturals
<1>9. MinOffset \in Nat /\ MinOffset <= l /\ \A c \in known : MinOffset <= From(c)
  BY <1>2, <1>5, <1>6, <1>7, <1>8
<1>10. n = MinOffset - retain /\ MinOffset > retain
  BY <1>4, <1>9 DEF CompactCount
<1>11. n \in Nat /\ n <= MinOffset
  BY <1>4, <1>9, <1>10
<1> HIDE DEF n
<1>12. n \in 0 .. l
  BY <1>3, <1>9, <1>11
<1>13. \A c \in known : c \in Consumers /\ n <= From(c) /\ From(c) \in Nat
  BY <1>2, <1>9, <1>11
<1> DEFINE p == Rescored(Pruned)
<1>14. /\ p \in Seq(Row) /\ Len(p) = l /\ DOMAIN p = DOMAIN Pruned /\ DOMAIN p = 1 .. Len(p)
       /\ Sound(p, nextId) /\ \A k \in DOMAIN Pruned : SameEvent(p[k], Pruned[k])
  BY <1>1, PrunedFacts, RowSeq DEF l
<1>15. Kept(n) = SubSeq(p, n + 1, Len(p))
  BY <1>14 DEF Kept, l
<1> HIDE DEF p
<1>16. Thinned(p, [k \in DOMAIN p |-> k], p)
  BY <1>14, SelfThinned
<1>17. LET r == SubSeq(p, n + 1, Len(p))
       IN  /\ r \in Seq(Row) /\ Len(r) = Len(p) - n
           /\ \A k \in 1 .. Len(p) - n : r[k] = p[n + k]
           /\ \E to : Thinned(r, to, p)
  BY <1>12, <1>14, <1>16, SuffixThinned
<1>18. /\ Kept(n) \in Seq(Row) /\ Len(Kept(n)) = l - n
       /\ \A k \in 1 .. l - n : Kept(n)[k] = p[n + k]
       /\ \E to : Thinned(Kept(n), to, p)
  BY <1>14, <1>15, <1>17
<1>19. PICK to : Thinned(Kept(n), to, p)
  BY <1>18
<1>20. Sound(Kept(n), nextId)
  BY <1>14, <1>18, <1>19, ThinnedSound
<1>21. \A k \in 1 .. l - n : n + k \in 1 .. l
  BY <1>3, <1>11
<1>22. \A k \in 1 .. l - n : Kept(n)[k].id = Pruned[n + k].id
  BY <1>14, <1>18, <1>21 DEF SameEvent
<1>23. n <= l
  BY <1>3, <1>12
<1> QED
  BY <1>11, <1>13, <1>18, <1>20, <1>22, <1>23 DEF n, l

LEMMA CompactedSound ==
    ASSUME Inv, NEW retain \in Retains, NEW minAcked \in MinAckeds,
           CompactCount(retain, minAcked) > 0, queue' = Kept(CompactCount(retain, minAcked)),
           nextId' = nextId
    PROVE  queue' \in Seq(Row) /\ Sound(queue, nextId)'
<1>1. queue' \in Seq(Row) /\ Sound(queue', nextId)
  BY CompactFacts
<1> QED
  BY <1>1 DEF Sound, Sorted, Spaced, Drops

LEMMA CompactInv ==
    ASSUME Inv, NEW retain \in Retains, NEW minAcked \in MinAckeds, Compact(retain, minAcked)
    PROVE  Inv'
<1> DEFINE n == CompactCount(retain, minAcked)
<1>1. /\ n > 0 /\ queue' = Kept(n) /\ UNCHANGED <<known, batch, delivered, nextId>>
      /\ offset' = [c \in Consumers |-> IF c \in known THEN Rebased(c, n) ELSE offset[c]]
  BY DEF Compact
<1>2. queue' \in Seq(Row) /\ Sound(queue, nextId)'
  BY <1>1, CompactedSound
<1>3. n \in Nat /\ \A c \in known : n <= From(c) /\ From(c) \in Nat
  BY <1>1, CompactFacts
<1> HIDE DEF n
<1>4. offset' \in [Consumers -> Nat]
  <2>1. \A c \in known : Rebased(c, n) \in Nat
    BY <1>3 DEF Rebased
  <2> QED
    BY <1>1, <2>1 DEF Inv, TypeOK
<1> QED
  BY <1>1, <1>2, <1>4 DEF Inv, TypeOK, Told

LEMMA CompactCrashInv ==
    ASSUME Inv, NEW retain \in Retains, NEW minAcked \in MinAckeds, CompactCrash(retain, minAcked)
    PROVE  Inv'
<1> DEFINE n == CompactCount(retain, minAcked)
<1>1. n > 0 /\ queue' = Kept(n) /\ UNCHANGED <<offset, known, batch, delivered, nextId>>
  BY DEF CompactCrash
<1>2. queue' \in Seq(Row) /\ Sound(queue, nextId)'
  BY <1>1, CompactedSound
<1> QED
  BY <1>1, <1>2 DEF Inv, TypeOK, Told

LEMMA NextInv == Inv /\ [Next]_vars => Inv'
<1> SUFFICES ASSUME Inv, [Next]_vars PROVE Inv'
  OBVIOUS
<1>1. CASE \E key \in Keys, kind \in Kinds : Enqueue(key, kind)
  BY <1>1, EnqueueInv
<1>2. CASE \E c \in Consumers, limit \in Limits : NextBatch(c, limit) \/ Drain(c, limit)
  BY <1>2, NextBatchInv, DrainInv
<1>3. CASE \E c \in Consumers : \E t \in batch[c] : Ack(c, t[1], t[2])
  BY <1>3, AckInv
<1>4. CASE \E retain \in Retains, minAcked \in MinAckeds :
             Compact(retain, minAcked) \/ CompactCrash(retain, minAcked)
  BY <1>4, CompactInv, CompactCrashInv
<1>5. CASE Status
  BY <1>5, StatusInv
<1>6. CASE Elapse
  BY <1>6, ElapseInv
<1>7. CASE UNCHANGED vars
  BY <1>7 DEF vars, Inv, TypeOK, Sound, Sorted, Drops, Spaced, Told
<1> QED
  BY <1>1, <1>2, <1>3, <1>4, <1>5, <1>6, <1>7 DEF Next

LEMMA InvHolds == Spec => []Inv
  BY InitInv, NextInv, PTL DEF Spec

-----------------------------------------------------------------------------
(* The theorems.                                                           *)

(* The variables of the model keep their types: ids, scores and times left *)
(* stay in range whatever is queued, served, acknowledged or compacted.    *)
THEOREM Typed == Spec => []TypeOK
<1>1. Inv => TypeOK
  BY DEF Inv
<1> QED
  BY <1>1, InvHolds, PTL

(* The queue file is in descending score after every command, with any     *)
(* scores and any number of rescorings (the sort and the 0.8 of            *)
(* prioritize_attention_json).                                             *)
THEOREM QueueStaysSorted == Spec => []QueueSorted
<1>1. Inv => QueueSorted
  BY DEF Inv, Sound, Sorted, QueueSorted
<1> QED
  BY <1>1, InvHolds, PTL

(* The queue never holds more than max_queue_depth events that             *)
(* backpressure may refuse, whatever the policy.                           *)
THEOREM CapHolds == Spec => []DroppableWithinCap
<1>1. Inv => DroppableWithinCap
  BY DEF Inv, Sound, Drops, DroppableWithinCap
<1> QED
  BY <1>1, InvHolds, PTL

(* Unexpired rows with one attention key are more than a dedupe window     *)
(* apart, for every window and time to live.                               *)
THEOREM NoDuplicates == Spec => []DedupeHolds
<1>1. Inv => DedupeHolds
  BY DEF Inv, Sound, Spaced, DedupeHolds
<1> QED
  BY <1>1, InvHolds, PTL

(* Which steps move a cursor.                                              *)
Moves == (\E c \in Consumers, limit \in Limits : Drain(c, limit))
           \/ (\E c \in Consumers : \E t \in batch[c] : Ack(c, t[1], t[2]))
           \/ (\E retain \in Retains, minAcked \in MinAckeds : Compact(retain, minAcked))

LEMMA OnlyMoves == ASSUME [Next]_vars PROVE Moves \/ offset' = offset
  BY DEF Next, vars, Moves, Enqueue, NextBatch, CompactCrash, Status, Elapse

(* Cursors after a completed compaction.                                   *)
LEMMA CompactMoves ==
    ASSUME Inv, NEW retain \in Retains, NEW minAcked \in MinAckeds, Compact(retain, minAcked)
    PROVE  LET n == CompactCount(retain, minAcked)
           IN  /\ n \in Nat /\ n > 0 /\ n <= Len(Pruned)
               /\ queue' = Kept(n) /\ Len(queue') = Len(Pruned) - n
               /\ \A c \in known : /\ c \in Consumers /\ From(c) \in Nat /\ n <= From(c)
                                   /\ offset'[c] = From(c) - n
               /\ \A c \in Consumers \ known : offset'[c] = offset[c]
<1> DEFINE n == CompactCount(retain, minAcked)
<1>1. /\ n > 0 /\ queue' = Kept(n)
      /\ offset' = [c \in Consumers |-> IF c \in known THEN From(c) - n ELSE offset[c]]
  BY DEF Compact, Rebased
<1>2. /\ n \in Nat /\ n <= Len(Pruned)
      /\ \A c \in known : c \in Consumers /\ n <= From(c) /\ From(c) \in Nat
      /\ Len(Kept(n)) = Len(Pruned) - n
  BY <1>1, CompactFacts
<1> HIDE DEF n
<1>3. /\ \A c \in known : offset'[c] = From(c) - n
      /\ \A c \in Consumers \ known : offset'[c] = offset[c]
  BY <1>1, <1>2
<1> QED
  BY <1>1, <1>2, <1>3 DEF n

(* A cursor that moves forward rests on a row its consumer was given: an   *)
(* ack's token is checked against the row at its index (ack), and drain    *)
(* moves over what it returns.                                             *)
THEOREM AcksNameDelivered == Spec => AckNamesDelivered
<1> DEFINE Lands == \A c \in Consumers : offset'[c] > offset[c] =>
                      offset'[c] \in DOMAIN queue' /\ queue'[offset'[c]].id \in delivered'[c]
<1>1. ASSUME Inv, [Next]_vars PROVE [Lands]_vars
  <2> SUFFICES ASSUME NEW c \in Consumers, offset'[c] > offset[c]
               PROVE  offset'[c] \in DOMAIN queue' /\ queue'[offset'[c]].id \in delivered'[c]
    OBVIOUS
  <2>0. /\ offset[c] \in Nat /\ offset \in [Consumers -> Nat]
        /\ From(c) \in Nat /\ From(c) <= offset[c]
        /\ ActiveQueue \in Seq(Row) /\ DOMAIN ActiveQueue = 1 .. Len(ActiveQueue)
        /\ Len(ActiveQueue) \in Nat
    BY <1>1, FromTo, ActiveFacts, RowSeq DEF Inv, TypeOK
  <2>1. ASSUME NEW d \in Consumers, NEW limit \in Limits, Drain(d, limit)
        PROVE  offset'[c] \in DOMAIN queue' /\ queue'[offset'[c]].id \in delivered'[c]
    <3>1. d = c /\ offset'[c] = To(c, limit) /\ queue' = ActiveQueue /\ Give(c, limit)
          /\ From(c) < To(c, limit)
      BY <2>0, <2>1 DEF Drain
    <3>2. To(c, limit) \in Nat /\ To(c, limit) <= Len(ActiveQueue)
      BY <1>1, FromTo DEF Inv
    <3>3. To(c, limit) \in From(c) + 1 .. To(c, limit) /\ To(c, limit) \in DOMAIN ActiveQueue
      BY <2>0, <3>1, <3>2
    <3>4. \A i \in From(c) + 1 .. To(c, limit) : ActiveQueue[i].id \in delivered'[c]
      BY <1>1, <3>1, GiveFacts
    <3> QED
      BY <3>1, <3>3, <3>4
  <2>2. ASSUME NEW d \in Consumers, NEW t \in batch[d], Ack(d, t[1], t[2])
        PROVE  offset'[c] \in DOMAIN queue' /\ queue'[offset'[c]].id \in delivered'[c]
    <3>1. /\ d = c /\ offset'[c] = t[1] /\ queue' = ActiveQueue /\ t[1] \in DOMAIN ActiveQueue
          /\ ActiveQueue[t[1]].id = t[2] /\ delivered' = delivered
      BY <2>0, <2>2 DEF Ack
    <3>2. t[2] \in delivered[c]
      BY <1>1, <2>2, <3>1 DEF Inv, Told
    <3> QED
      BY <3>1, <3>2
  <2>3. ASSUME NEW retain \in Retains, NEW minAcked \in MinAckeds, Compact(retain, minAcked)
        PROVE  FALSE
    <3> DEFINE n == CompactCount(retain, minAcked)
    <3>1. n \in Nat /\ (offset'[c] = From(c) - n \/ offset'[c] = offset[c])
      BY <1>1, <2>3, CompactMoves
    <3> HIDE DEF n
    <3> QED
      BY <2>0, <3>1
  <2>4. CASE offset' = offset
    BY <2>0, <2>4
  <2> QED
    BY <1>1, <2>1, <2>2, <2>3, <2>4, OnlyMoves DEF Moves
<1> QED
  BY <1>1, InvHolds, PTL DEF Spec, AckNamesDelivered

(* Only a shorter queue lowers a cursor: drain and ack never go back over  *)
(* rows that are there, and a compaction removes at least one row.         *)
THEOREM CursorsNeverRewind == Spec => CursorNeverRewinds
<1> DEFINE Stays == \A c \in Consumers : offset'[c] < offset[c] =>
                      Len(queue') < Len(queue) \/ offset[c] > Len(queue)
<1>1. ASSUME Inv, [Next]_vars PROVE [Stays]_vars
  <2> SUFFICES ASSUME NEW c \in Consumers, offset'[c] < offset[c]
               PROVE  Len(queue') < Len(queue) \/ offset[c] > Len(queue)
    OBVIOUS
  <2>0. /\ offset[c] \in Nat /\ offset \in [Consumers -> Nat] /\ From(c) \in Nat
        /\ From(c) = IF offset[c] <= Len(ActiveQueue) THEN offset[c] ELSE Len(ActiveQueue)
        /\ Len(ActiveQueue) \in Nat /\ Len(queue) \in Nat /\ Len(ActiveQueue) <= Len(queue)
        /\ DOMAIN ActiveQueue = 1 .. Len(ActiveQueue) /\ Len(ActiveQueue) = Len(Pruned)
    BY <1>1, FromTo, ActiveFacts, RowSeq DEF Inv, TypeOK
  <2>1. ASSUME NEW d \in Consumers, NEW limit \in Limits, Drain(d, limit)
        PROVE  FALSE
    <3>1. d = c /\ offset'[c] = To(c, limit) /\ From(c) < To(c, limit)
      BY <2>0, <2>1 DEF Drain
    <3>2. To(c, limit) \in Nat /\ To(c, limit) <= Len(ActiveQueue)
      BY <1>1, FromTo DEF Inv
    <3> QED
      BY <2>0, <3>1, <3>2
  <2>2. ASSUME NEW d \in Consumers, NEW t \in batch[d], Ack(d, t[1], t[2])
        PROVE  Len(queue') < Len(queue) \/ offset[c] > Len(queue)
    <3>1. /\ d = c /\ offset'[c] = t[1] /\ queue' = ActiveQueue /\ t[1] \in DOMAIN ActiveQueue
          /\ t[1] >= From(c)
      BY <2>0, <2>2 DEF Ack
    <3>2. t[1] \in Nat /\ t[1] < offset[c] /\ t[1] <= Len(ActiveQueue)
      BY <2>0, <3>1
    <3> DEFINE i == t[1]
    <3>3. i \in Nat /\ i < offset[c] /\ i >= From(c)
      BY <3>1, <3>2
    <3> HIDE DEF i
    <3>4. offset[c] > Len(ActiveQueue)
      BY <2>0, <3>3
    <3> QED
      BY <2>0, <3>1, <3>4
  <2>3. ASSUME NEW retain \in Retains, NEW minAcked \in MinAckeds, Compact(retain, minAcked)
        PROVE  Len(queue') < Len(queue)
    <3> DEFINE n == CompactCount(retain, minAcked)
    <3>1. n \in Nat /\ n > 0 /\ n <= Len(Pruned) /\ Len(queue') = Len(Pruned) - n
      BY <1>1, <2>3, CompactMoves
    <3> HIDE DEF n
    <3> QED
      BY <2>0, <3>1
  <2>4. CASE offset' = offset
    BY <2>0, <2>4
  <2> QED
    BY <1>1, <2>1, <2>2, <2>3, <2>4, OnlyMoves DEF Moves
<1> QED
  BY <1>1, InvHolds, PTL DEF Spec, CursorNeverRewinds

(* What compact writes to the queue file ends with what each registered    *)
(* consumer had in front of it.                                            *)
LEMMA KeptUnread ==
    ASSUME Inv, NEW retain \in Retains, NEW minAcked \in MinAckeds, NEW c \in known,
           CompactCount(retain, minAcked) > 0, queue' = Kept(CompactCount(retain, minAcked))
    PROVE  LET n == CompactCount(retain, minAcked)
           IN  /\ n \in Nat /\ From(c) \in Nat /\ n <= From(c)
               /\ IdsFrom(queue', From(c) - n) = IdsFrom(Pruned, From(c))
<1> DEFINE n == CompactCount(retain, minAcked)
           l == Len(Pruned)
           f == From(c)
           q == queue'
           p == Pruned
<1>1. /\ n \in Nat /\ n > 0 /\ n <= l /\ q = Kept(n) /\ Len(q) = l - n
      /\ c \in Consumers /\ f \in Nat /\ n <= f
  BY CompactFacts
<1>2. \A k \in 1 .. l - n : Kept(n)[k].id = p[n + k].id
  BY CompactFacts
<1>3. f <= l /\ l \in Nat
  BY <1>1, FromTo, ActiveFacts DEF Inv
<1> HIDE DEF n, l, f, q, p
<1>4. Len(q) - (f - n) = l - f
  BY <1>1, <1>3
<1>5. ASSUME NEW i \in 1 .. l - f PROVE q[(f - n) + i].id = p[f + i].id
  <2>1. (f - n) + i \in 1 .. l - n /\ n + ((f - n) + i) = f + i
    BY <1>1, <1>3
  <2> QED
    BY <1>1, <1>2, <2>1
<1>6. IdsFrom(q, f - n) = [i \in 1 .. l - f |-> q[(f - n) + i].id]
  BY <1>4 DEF IdsFrom
<1>7. IdsFrom(p, f) = [i \in 1 .. l - f |-> p[f + i].id]
  BY DEF IdsFrom, l, p
<1>8. IdsFrom(q, f - n) = IdsFrom(p, f)
  BY <1>5, <1>6, <1>7
<1> QED
  BY <1>1, <1>8 DEF n, q, p, f

(* A completed compaction leaves every registered consumer in front of the *)
(* same unexpired events, in the same order (compact's rebase of the       *)
(* offsets), for every --retain and --min-acked; one that dies between its *)
(* two writes leaves these events in the queue file, at its end.           *)
THEOREM CompactionKeepsUnread == Spec => CompactKeepsUnread
<1> DEFINE Keeps == \A retain \in Retains, minAcked \in MinAckeds, c \in known :
              /\ Compact(retain, minAcked) =>
                    IdsFrom(queue', offset'[c]) = IdsFrom(Pruned, From(c))
              /\ CompactCrash(retain, minAcked) =>
                    \E k \in 0 .. From(c) : IdsFrom(queue', k) = IdsFrom(Pruned, From(c))
<1>1. ASSUME Inv, [Next]_vars PROVE [Keeps]_vars
  <2> SUFFICES ASSUME NEW retain \in Retains, NEW minAcked \in MinAckeds, NEW c \in known
               PROVE  /\ Compact(retain, minAcked) =>
                            IdsFrom(queue', offset'[c]) = IdsFrom(Pruned, From(c))
                      /\ CompactCrash(retain, minAcked) =>
                            \E k \in 0 .. From(c) : IdsFrom(queue', k) = IdsFrom(Pruned, From(c))
    OBVIOUS
  <2> DEFINE n == CompactCount(retain, minAcked)
  <2>1. ASSUME Compact(retain, minAcked)
        PROVE  IdsFrom(queue', offset'[c]) = IdsFrom(Pruned, From(c))
    <3>1. n > 0 /\ queue' = Kept(n) /\ offset'[c] = From(c) - n
      BY <1>1, <2>1, CompactMoves
    <3> QED
      BY <1>1, <3>1, KeptUnread
  <2>2. ASSUME CompactCrash(retain, minAcked)
        PROVE  \E k \in 0 .. From(c) : IdsFrom(queue', k) = IdsFrom(Pruned, From(c))
    <3>1. n > 0 /\ queue' = Kept(n)
      BY <2>2 DEF CompactCrash
    <3>2. /\ n \in Nat /\ From(c) \in Nat /\ n <= From(c)
          /\ IdsFrom(queue', From(c) - n) = IdsFrom(Pruned, From(c))
      BY <1>1, <3>1, KeptUnread
    <3> HIDE DEF n
    <3>3. From(c) - n \in 0 .. From(c)
      BY <3>2
    <3> QED
      BY <3>2, <3>3
  <2> QED
    BY <2>1, <2>2
<1> QED
  BY <1>1, InvHolds, PTL DEF Spec, CompactKeepsUnread

(* Rows that are scored again end below the floor of a critical event.     *)
LEMMA RescoredLow ==
    ASSUME NEW p \in Seq(Row), NEW k \in DOMAIN Rescored(p)
    PROVE  Rescored(p)[k].score < 850
<1>1. k \in DOMAIN p /\ Rescored(p)[k] = [p[k] EXCEPT !.score = (4 * @) \div 5] /\ p[k] \in Row
  BY RowSeq DEF Rescored
<1>2. Rescored(p)[k].score = (4 * p[k].score) \div 5
  BY <1>1 DEF Row
<1>3. p[k].score \in Nat /\ p[k].score <= MaxScore
  BY <1>1, RowFacts
<1> DEFINE v == p[k].score
<1>4. v \in Nat /\ v <= MaxScore /\ Rescored(p)[k].score = (4 * v) \div 5
  BY <1>2, <1>3
<1> HIDE DEF v
<1> QED
  BY <1>4 DEF MaxScore

(* A critical event is queued in front of every info event of the backlog, *)
(* however high those were scored: its score is at least the core_floor    *)
(* 0.85, and the rescoring of the backlog leaves no row above 0.8.         *)
THEOREM CriticalGoesFirst == Spec => FreshCriticalFirst
<1> DEFINE First ==
             \A i, j \in DOMAIN queue' :
                /\ queue'[i].id = nextId /\ Severity[queue'[i].kind] = "critical"
                /\ Severity[queue'[j].kind] = "info"
                => i < j
<1>1. ASSUME Inv, [Next]_vars, Inv' PROVE [First]_vars
  <2> SUFFICES ASSUME NEW i \in DOMAIN queue', NEW j \in DOMAIN queue', queue'[i].id = nextId,
                      Severity[queue'[i].kind] = "critical", Severity[queue'[j].kind] = "info"
               PROVE  i < j
    OBVIOUS
  <2>0. /\ \A k \in DOMAIN queue' : queue'[k].id < nextId'
        /\ queue' \in Seq(Row) /\ DOMAIN queue' = 1 .. Len(queue') /\ nextId \in Nat
    BY <1>1, RowSeq, AttentionAssumption DEF Inv, Sound, TypeOK
  <2>1. PICK key \in Keys, kind \in Kinds : Enqueue(key, kind)
    <3>1. nextId' # nextId
      BY <2>0
    <3> QED
      BY <1>1, <3>1 DEF Next, vars, NextBatch, Drain, Ack, Compact, CompactCrash, Status, Elapse
  <2> DEFINE q == Rescored(Pruned)
             r == [id |-> nextId, key |-> key, kind |-> kind, score |-> Score[kind], left |-> Ttl]
             s == queue'
  <2>2. s = Insert(q, r)
    BY <2>1 DEF Enqueue
  <2>3. Pruned \in Seq(Row) /\ q \in Seq(Row) /\ Sound(q, nextId)
    BY <1>1, PrunedFacts DEF Inv
  <2>4. r \in Row /\ r.kind = kind /\ r.score = Score[kind]
    <3>1. Score[kind] \in 0 .. MaxScore /\ Ttl \in 0 .. Ttl
      BY ScoreType, AttentionAssumption
    <3>2. nextId \in 1 .. MaxEvents + 1 /\ nextId <= MaxEvents /\ MaxEvents \in Nat
      BY <1>1, <2>1, AttentionAssumption DEF Inv, TypeOK, Enqueue
    <3>3. nextId \in 1 .. MaxEvents
      BY <3>2
    <3> QED
      BY <3>1, <3>3 DEF Row
  <2>5. \A k \in DOMAIN q : q[k].score < 850 /\ q[k].score \in Nat /\ q[k].id < nextId
    BY <2>3, RescoredLow, RowSeq, RowFacts DEF Sound
  <2> HIDE DEF q, r, s
  <2>6. \E m, at : Placed(s, m, at, q, r)
    BY <2>2, <2>3, <2>4, InsertPlaces DEF Sound
  <2>7. PICK m, at : Placed(s, m, at, q, r)
    BY <2>6
  <2>8. i \in DOMAIN s /\ j \in DOMAIN s /\ s[i].id = nextId
        /\ Severity[s[i].kind] = "critical" /\ Severity[s[j].kind] = "info"
    BY DEF s
  <2>9. i = m
    BY <2>0, <2>5, <2>7, <2>8 DEF Placed
  <2>10. s[i] = r /\ Severity[kind] = "critical"
    BY <2>4, <2>7, <2>8, <2>9 DEF Placed
  <2>11. r.score >= 850 /\ r.score \in Nat
    BY <2>4, <2>10, ScoreType, AttentionAssumption
  <2>12. j # m
    BY <2>8, <2>9
  <2>13. ~(j < m)
    <3> SUFFICES ASSUME j < m PROVE FALSE
      OBVIOUS
    <3>1. s[j].score >= r.score /\ at[j] \in DOMAIN q /\ s[j] = q[at[j]]
      BY <2>7, <2>8, <2>12 DEF Placed
    <3>2. q[at[j]].score < 850 /\ q[at[j]].score \in Nat
      BY <2>5, <3>1
    <3> QED
      BY <2>11, <3>1, <3>2
  <2> QED
    BY <2>0, <2>8, <2>9, <2>12, <2>13
<1> QED
  BY <1>1, InvHolds, PTL DEF Spec, FreshCriticalFirst
=============================================================================
