----------------------------- MODULE DataLemmas -----------------------------
(***************************************************************************)
(* Induction for sets, in place of predicates, which the provers cannot    *)
(* instantiate, and what it gives: facts about sums over a finite set      *)
(* (SumFunctionOnSet) and about the elements picked from a sequence        *)
(* (Picked).                                                               *)
(***************************************************************************)
EXTENDS SequencesExt, Subsequences, FiniteSetTheorems, SequenceTheorems,
        WellFoundedInduction, TLAPS

(* Every non-empty set of naturals has a least element.                    *)
LEMMA LeastNatural ==
    ASSUME NEW T, T \subseteq Nat, T # {}
    PROVE  \E x \in T : \A y \in T : x <= y
<1> DEFINE less == {ss \in Nat \X Nat : ss[1] < ss[2]}
<1>1. IsWellFoundedOn(less, Nat)
  BY NatLessThanWellFounded DEF OpToRel
<1> HIDE DEF less
<1>2. PICK x \in T : \A y \in T : ~(<<y, x>> \in less)
  BY <1>1, WFMin, Zenon
<1>3. \A y \in T : y < x => <<y, x>> \in less
  BY DEF less
<1>4. \A y \in T : ~(y < x)
  BY <1>2, <1>3
<1>5. \A y \in T : x \in Int /\ y \in Int
  OBVIOUS
<1>6. \A y \in T : x <= y
  BY <1>4, <1>5
<1> QED
  BY <1>6

(* Induction over the naturals, for a set.                                 *)
LEMMA NatSetInduction ==
    ASSUME NEW P, 0 \in P, \A n \in Nat : n \in P => n + 1 \in P
    PROVE  Nat \subseteq P
<1> DEFINE T == Nat \ P
<1> SUFFICES ASSUME T # {} PROVE FALSE
  OBVIOUS
<1>1. PICK x \in T : \A y \in T : x <= y
  <2>1. T \subseteq Nat
    OBVIOUS
  <2> HIDE DEF T
  <2> QED
    BY <2>1, LeastNatural
<1>2. x - 1 \in Nat /\ x - 1 \in P
  BY <1>1
<1> QED
  BY <1>1, <1>2

(* Induction over the subsets of a finite set, for a set of sets: what     *)
(* holds of s whenever it holds of s less any one element holds of all.    *)
LEMMA FiniteSetInduction ==
    ASSUME NEW S, IsFiniteSet(S), NEW P,
           \A s \in SUBSET S : (\A x \in s : s \ {x} \in P) => s \in P
    PROVE  SUBSET S \subseteq P
<1> DEFINE T == {s \in SUBSET S : s \notin P}
<1> DEFINE less == StrictSubsetOrdering(S)
<1> SUFFICES ASSUME T # {} PROVE FALSE
  OBVIOUS
<1>1. IsWellFoundedOn(less, SUBSET S)
  <2>1. IsWellFoundedOn(less, FiniteSubsetsOf(S))
    BY FS_StrictSubsetOrderingWellFounded
  <2>2. FiniteSubsetsOf(S) = SUBSET S
    BY FS_FiniteSubsetsOfFinite
  <2> QED
    BY <2>1, <2>2, Zenon
<1>2. T \subseteq SUBSET S
  OBVIOUS
<1>3. PICK s \in T : \A y \in T : ~(<<y, s>> \in less)
  <2> HIDE DEF T, less
  <2> QED
    BY <1>1, <1>2, WFMin
<1>4. PICK x \in s : s \ {x} \notin P
  BY <1>3
<1>5. s \ {x} \in SUBSET S /\ s \ {x} \subseteq s /\ s \ {x} # s
  BY <1>2, <1>4
<1>6. <<s \ {x}, s>> \in less
  BY <1>5 DEF StrictSubsetOrdering
<1> QED
  BY <1>3, <1>4, <1>5, <1>6

-----------------------------------------------------------------------------
(* Numbers and cardinalities.                                              *)

(* The larger and the smaller of two numbers.                              *)
LEMMA MaxOfTwo ==
    ASSUME NEW a \in Int, NEW b \in Int
    PROVE  Max({a, b}) = IF a >= b THEN a ELSE b
<1>1. \E x \in {a, b} : \A y \in {a, b} : x >= y
  OBVIOUS
<1>2. /\ Max({a, b}) \in {a, b}
      /\ \A y \in {a, b} : Max({a, b}) >= y
  BY <1>1, Zenon DEF Max
<1> QED
  BY <1>2

LEMMA MinOfTwo ==
    ASSUME NEW a \in Int, NEW b \in Int
    PROVE  Min({a, b}) = IF a <= b THEN a ELSE b
<1>1. \E x \in {a, b} : \A y \in {a, b} : x <= y
  OBVIOUS
<1>2. /\ Min({a, b}) \in {a, b}
      /\ \A y \in {a, b} : Min({a, b}) <= y
  BY <1>1, Zenon DEF Min
<1> QED
  BY <1>2

(* A non-empty set of naturals has a minimum.                              *)
LEMMA MinOfNaturals ==
    ASSUME NEW T, T \subseteq Nat, T # {}
    PROVE  Min(T) \in T /\ \A y \in T : Min(T) <= y
  BY LeastNatural, Zenon DEF Min

(* A set that can be mapped one to one into a finite one is not larger.    *)
LEMMA OneToOne ==
    ASSUME NEW S, NEW T, IsFiniteSet(T), NEW f, \A x \in S : f[x] \in T,
           \A x, y \in S : f[x] = f[y] => x = y
    PROVE  IsFiniteSet(S) /\ Cardinality(S) <= Cardinality(T)
<1> DEFINE g == [x \in S |-> f[x]]
<1>1. g \in Injection(S, T)
  BY DEF Injection, IsInjective
<1> HIDE DEF g
<1> QED
  BY <1>1, FS_Injection

(* The positions of a sequence are as many as it is long.                  *)
LEMMA Positions ==
    ASSUME NEW n \in Nat
    PROVE  IsFiniteSet(1 .. n) /\ Cardinality(1 .. n) = n
  BY FS_Interval

-----------------------------------------------------------------------------
(* Sums.                                                                   *)

Pick(s) == CHOOSE x \in s : TRUE

SumTerm(f, g, s) == IF s = {} THEN 0 ELSE f[Pick(s)] + g[s \ {Pick(s)}]

(* The function over the subsets of S that a sum is read off.              *)
SumTable(f, S) == CHOOSE g : g = [s \in SUBSET S |-> SumTerm(f, g, s)]

LEMMA SumIsTable ==
    ASSUME NEW f, NEW S
    PROVE  SumFunctionOnSet(f, S) = SumTable(f, S)[S]
  BY DEF SumFunctionOnSet, FoldFunctionOnSet, MapThenFoldSet, SumTable, SumTerm, Pick

LEMMA PickIn == ASSUME NEW s, s # {} PROVE Pick(s) \in s
  BY DEF Pick

(* The recursion of a sum has a solution.                                  *)
LEMMA SumTableExists ==
    ASSUME NEW f, NEW S, IsFiniteSet(S)
    PROVE  \E g : g = [s \in SUBSET S |-> SumTerm(f, g, s)]
<1> DEFINE Small(n) == {s \in SUBSET S : Cardinality(s) <= n}
<1> DEFINE P == {n \in Nat : \E g : g = [s \in Small(n) |-> SumTerm(f, g, s)]}
<1>1. \A s \in SUBSET S : IsFiniteSet(s) /\ Cardinality(s) \in Nat
  BY FS_Subset, FS_CardinalityType
<1>2. 0 \in P
  <2>1. \A s \in Small(0) : s = {}
    BY <1>1, FS_EmptySet
  <2> DEFINE g == [s \in Small(0) |-> 0]
  <2>2. g = [s \in Small(0) |-> SumTerm(f, g, s)]
    BY <2>1 DEF SumTerm
  <2> HIDE DEF g
  <2> QED
    BY <2>2
<1>3. ASSUME NEW n \in Nat, n \in P PROVE n + 1 \in P
  <2>1. PICK g : g = [s \in Small(n) |-> SumTerm(f, g, s)]
    BY <1>3
  <2> DEFINE h == [s \in Small(n + 1) |-> SumTerm(f, g, s)]
  <2>2. ASSUME NEW s \in Small(n + 1), s # {} PROVE s \ {Pick(s)} \in Small(n)
    <3>1. Pick(s) \in s
      BY <2>2, PickIn
    <3>2. Cardinality(s \ {Pick(s)}) = Cardinality(s) - 1
      BY <1>1, <3>1, FS_RemoveElement
    <3> QED
      BY <1>1, <3>2
  <2>3. \A s \in Small(n) : s \in Small(n + 1) /\ h[s] = g[s]
    <3>1. \A s \in Small(n) : s \in Small(n + 1)
      BY <1>1
    <3>2. \A s \in Small(n) : g[s] = SumTerm(f, g, s)
      BY <2>1, Zenon
    <3> QED
      BY <3>1, <3>2
  <2>4. \A s \in Small(n + 1) : SumTerm(f, g, s) = SumTerm(f, h, s)
    BY <2>2, <2>3 DEF SumTerm
  <2>5. h = [s \in Small(n + 1) |-> SumTerm(f, h, s)]
    BY <2>4
  <2> HIDE DEF h
  <2> QED
    BY <2>5
<1>4. Nat \subseteq P
  <2> HIDE DEF P
  <2> QED
    BY <1>2, <1>3, NatSetInduction
<1>5. Cardinality(S) \in P
  BY <1>1, <1>4
<1>6. Small(Cardinality(S)) = SUBSET S
  BY <1>1, FS_Subset, FS_CardinalityType
<1> QED
  BY <1>5, <1>6

(* ... so a table of sums satisfies the recursion.                         *)
LEMMA SumTableDef ==
    ASSUME NEW f, NEW S, IsFiniteSet(S)
    PROVE  \A s \in SUBSET S : SumTable(f, S)[s] = SumTerm(f, SumTable(f, S), s)
<1>1. SumTable(f, S) = [s \in SUBSET S |-> SumTerm(f, SumTable(f, S), s)]
  BY SumTableExists, Zenon DEF SumTable
<1> QED
  BY <1>1, Zenon

(* Tables over a set and over a part of it agree, and so do tables of two  *)
(* functions where the functions do.                                       *)
LEMMA SumTableAgrees ==
    ASSUME NEW f, NEW g, NEW S, IsFiniteSet(S), NEW T \in SUBSET S,
           \A x \in T : f[x] = g[x]
    PROVE  SumTable(f, S)[T] = SumTable(g, T)[T]
<1> DEFINE P == {s \in SUBSET T : SumTable(f, S)[s] = SumTable(g, T)[s]}
<1>1. IsFiniteSet(T)
  BY FS_Subset
<1>2. \A s \in SUBSET T : /\ SumTable(f, S)[s] = SumTerm(f, SumTable(f, S), s)
                          /\ SumTable(g, T)[s] = SumTerm(g, SumTable(g, T), s)
  <2>1. \A s \in SUBSET S : SumTable(f, S)[s] = SumTerm(f, SumTable(f, S), s)
    BY SumTableDef
  <2>2. \A s \in SUBSET T : SumTable(g, T)[s] = SumTerm(g, SumTable(g, T), s)
    BY <1>1, SumTableDef
  <2> QED
    BY <2>1, <2>2
<1>3. ASSUME NEW s \in SUBSET T, \A x \in s : s \ {x} \in P
      PROVE  s \in P
  <2>1. CASE s = {}
    BY <1>2, <2>1 DEF SumTerm
  <2>2. CASE s # {}
    BY <1>2, <1>3, <2>2, PickIn DEF SumTerm
  <2> QED
    BY <2>1, <2>2
<1>4. SUBSET T \subseteq P
  <2> HIDE DEF P
  <2> QED
    BY <1>1, <1>3, FiniteSetInduction
<1> QED
  BY <1>4

(* A sum over nothing.                                                     *)
LEMMA SumEmpty ==
    ASSUME NEW f
    PROVE  SumFunctionOnSet(f, {}) = 0
  BY SumIsTable, SumTableDef, FS_EmptySet DEF SumTerm

(* Sums of functions that agree are equal.                                 *)
LEMMA SumAgrees ==
    ASSUME NEW f, NEW g, NEW S, IsFiniteSet(S), \A x \in S : f[x] = g[x]
    PROVE  SumFunctionOnSet(f, S) = SumFunctionOnSet(g, S)
  BY SumIsTable, SumTableAgrees

LEMMA SumPick ==
    ASSUME NEW f, NEW S, IsFiniteSet(S), S # {}
    PROVE  SumFunctionOnSet(f, S) = f[Pick(S)] + SumFunctionOnSet(f, S \ {Pick(S)})
<1>1. S \ {Pick(S)} \in SUBSET S
  BY PickIn
<1>2. SumTable(f, S)[S \ {Pick(S)}] = SumFunctionOnSet(f, S \ {Pick(S)})
  BY <1>1, SumTableAgrees, SumIsTable
<1>3. SumTable(f, S)[S] = SumTerm(f, SumTable(f, S), S)
  BY SumTableDef
<1> QED
  BY <1>2, <1>3, SumIsTable DEF SumTerm

(* A sum of naturals is a natural, and any element can be taken out.       *)
LEMMA SumNat ==
    ASSUME NEW f, NEW S, IsFiniteSet(S), \A x \in S : f[x] \in Nat
    PROVE  SumFunctionOnSet(f, S) \in Nat
<1> DEFINE P == {s \in SUBSET S : SumFunctionOnSet(f, s) \in Nat}
<1>1. ASSUME NEW s \in SUBSET S, \A x \in s : s \ {x} \in P
      PROVE  s \in P
  <2>0. IsFiniteSet(s)
    BY FS_Subset
  <2>1. CASE s = {}
    BY <2>1, SumEmpty
  <2>2. CASE s # {}
    <3>1. Pick(s) \in s /\ SumFunctionOnSet(f, s \ {Pick(s)}) \in Nat
      BY <1>1, <2>2, PickIn
    <3> QED
      BY <2>0, <2>2, <3>1, SumPick
  <2> QED
    BY <2>1, <2>2
<1>2. SUBSET S \subseteq P
  <2> HIDE DEF P
  <2> QED
    BY <1>1, FiniteSetInduction
<1> QED
  BY <1>2

LEMMA SumRemove ==
    ASSUME NEW f, NEW S, IsFiniteSet(S), \A x \in S : f[x] \in Nat, NEW e \in S
    PROVE  SumFunctionOnSet(f, S) = f[e] + SumFunctionOnSet(f, S \ {e})
<1> DEFINE Total(s) == SumFunctionOnSet(f, s)
<1> DEFINE P == {s \in SUBSET S : \A x \in s : Total(s) = f[x] + Total(s \ {x})}
<1>1. \A s \in SUBSET S : IsFiniteSet(s) /\ Total(s) \in Nat
  BY FS_Subset, SumNat
<1>2. \A s \in SUBSET S : s # {} => Total(s) = f[Pick(s)] + Total(s \ {Pick(s)})
  BY <1>1, SumPick
<1> HIDE DEF Total
<1>3. ASSUME NEW s \in SUBSET S, \A x \in s : s \ {x} \in P
      PROVE  s \in P
  <2> SUFFICES ASSUME NEW x \in s PROVE Total(s) = f[x] + Total(s \ {x})
    OBVIOUS
  <2> DEFINE y == Pick(s)
  <2>1. y \in s /\ Total(s) = f[y] + Total(s \ {y})
    BY <1>2, PickIn
  <2> HIDE DEF y
  <2>2. CASE x = y
    BY <2>1, <2>2
  <2>3. CASE x # y
    <3>1. x \in s \ {y} /\ y \in s \ {x} /\ (s \ {y}) \ {x} = (s \ {x}) \ {y}
      BY <2>1, <2>3
    <3>2. Total(s \ {y}) = f[x] + Total((s \ {y}) \ {x})
      BY <1>3, <2>1, <3>1
    <3>3. Total(s \ {x}) = f[y] + Total((s \ {x}) \ {y})
      BY <1>3, <3>1
    <3>4. f[x] \in Nat /\ f[y] \in Nat /\ Total((s \ {x}) \ {y}) \in Nat
      BY <1>1, <2>1
    <3> QED
      BY <2>1, <3>1, <3>2, <3>3, <3>4
  <2> QED
    BY <2>2, <2>3
<1>4. SUBSET S \subseteq P
  <2> HIDE DEF P
  <2> QED
    BY <1>3, FiniteSetInduction
<1> QED
  BY <1>4 DEF Total

(* A sum of zeros.                                                         *)
LEMMA SumZero ==
    ASSUME NEW f, NEW S, IsFiniteSet(S), \A x \in S : f[x] = 0
    PROVE  SumFunctionOnSet(f, S) = 0
<1> DEFINE P == {s \in SUBSET S : SumFunctionOnSet(f, s) = 0}
<1>1. ASSUME NEW s \in SUBSET S, \A x \in s : s \ {x} \in P
      PROVE  s \in P
  <2>1. CASE s = {}
    BY <2>1, SumEmpty
  <2>2. CASE s # {}
    <3>1. IsFiniteSet(s) /\ Pick(s) \in s
      BY <2>2, PickIn, FS_Subset
    <3>2. f[Pick(s)] = 0 /\ SumFunctionOnSet(f, s \ {Pick(s)}) = 0
      BY <1>1, <3>1
    <3>3. SumFunctionOnSet(f, s) = f[Pick(s)] + SumFunctionOnSet(f, s \ {Pick(s)})
      BY <2>2, <3>1, SumPick
    <3> QED
      BY <3>2, <3>3
  <2> QED
    BY <2>1, <2>2
<1>2. SUBSET S \subseteq P
  <2> HIDE DEF P
  <2> QED
    BY <1>1, FiniteSetInduction
<1> QED
  BY <1>2

(* Changing one summand.                                                   *)
LEMMA SumChange ==
    ASSUME NEW f, NEW g, NEW S, IsFiniteSet(S), NEW e \in S,
           \A x \in S : f[x] \in Nat /\ g[x] \in Nat,
           \A x \in S \ {e} : f[x] = g[x]
    PROVE  /\ SumFunctionOnSet(f, S) + g[e] = SumFunctionOnSet(g, S) + f[e]
           /\ SumFunctionOnSet(f, S) \in Nat /\ SumFunctionOnSet(g, S) \in Nat
           /\ f[e] <= SumFunctionOnSet(f, S)
<1> DEFINE rest == SumFunctionOnSet(f, S \ {e})
<1>1. IsFiniteSet(S \ {e}) /\ rest \in Nat
  BY FS_RemoveElement, SumNat
<1>2. SumFunctionOnSet(f, S) = f[e] + rest /\ SumFunctionOnSet(g, S) = g[e] + rest
  BY <1>1, SumRemove, SumAgrees
<1> HIDE DEF rest
<1> QED
  BY <1>1, <1>2

(* Smaller summands, smaller sum.                                          *)
LEMMA SumMonotone ==
    ASSUME NEW f, NEW g, NEW S, IsFiniteSet(S),
           \A x \in S : f[x] \in Nat /\ g[x] \in Nat /\ f[x] <= g[x]
    PROVE  SumFunctionOnSet(f, S) <= SumFunctionOnSet(g, S)
<1> DEFINE P == {s \in SUBSET S : SumFunctionOnSet(f, s) <= SumFunctionOnSet(g, s)}
<1>1. ASSUME NEW s \in SUBSET S, \A x \in s : s \ {x} \in P
      PROVE  s \in P
  <2>1. CASE s = {}
    BY <2>1, SumEmpty
  <2>2. CASE s # {}
    <3>1. PICK x \in s : TRUE
      BY <2>2
    <3> DEFINE a == SumFunctionOnSet(f, s \ {x})
    <3> DEFINE b == SumFunctionOnSet(g, s \ {x})
    <3>2. IsFiniteSet(s) /\ IsFiniteSet(s \ {x})
      BY FS_Subset
    <3>3. a \in Nat /\ b \in Nat /\ a <= b
      BY <1>1, <3>1, <3>2, SumNat
    <3>4. SumFunctionOnSet(f, s) = f[x] + a /\ SumFunctionOnSet(g, s) = g[x] + b
      BY <3>1, <3>2, SumRemove
    <3> HIDE DEF a, b
    <3> QED
      BY <3>3, <3>4
  <2> QED
    BY <2>1, <2>2
<1>2. SUBSET S \subseteq P
  <2> HIDE DEF P
  <2> QED
    BY <1>1, FiniteSetInduction
<1> QED
  BY <1>2

-----------------------------------------------------------------------------
(* Sequences.                                                              *)

(* f is what a loop computes that starts with base and whose k-th round    *)
(* applies step[k].                                                        *)
Iterates(f, base, step, N) == f[0] = base /\ \A k \in 1 .. N : f[k] = step[k][f[k - 1]]

(* Every such loop has a result.                                           *)
LEMMA PrimitiveRecursion ==
    ASSUME NEW N \in Nat, NEW X, NEW base \in X, NEW step \in [1 .. N -> [X -> X]]
    PROVE  \E f \in [0 .. N -> X] : Iterates(f, base, step, N)
<1> DEFINE Good(n, f) == f[0] = base /\ \A k \in 1 .. n : f[k] = step[k][f[k - 1]]
<1> DEFINE P == {n \in Nat : n <= N => \E f \in [0 .. n -> X] : Good(n, f)}
<1>1. 0 \in P
  <2> DEFINE f == [k \in 0 .. 0 |-> base]
  <2>1. f \in [0 .. 0 -> X] /\ Good(0, f)
    OBVIOUS
  <2> HIDE DEF f
  <2> QED
    BY <2>1
<1>2. ASSUME NEW n \in Nat, n \in P PROVE n + 1 \in P
  <2> SUFFICES ASSUME n + 1 <= N PROVE \E f \in [0 .. n + 1 -> X] : Good(n + 1, f)
    OBVIOUS
  <2>1. PICK f \in [0 .. n -> X] : Good(n, f)
    BY <1>2
  <2> DEFINE h == [k \in 0 .. n + 1 |-> IF k <= n THEN f[k] ELSE step[n + 1][f[n]]]
  <2>2. step[n + 1][f[n]] \in X
    BY <2>1
  <2>3. h \in [0 .. n + 1 -> X]
    BY <2>1, <2>2
  <2>4. \A k \in 0 .. n : h[k] = f[k]
    OBVIOUS
  <2>5. h[n + 1] = step[n + 1][f[n]]
    OBVIOUS
  <2> HIDE DEF h
  <2>6. Good(n + 1, h)
    <3>1. h[0] = base
      BY <2>1, <2>4
    <3>2. ASSUME NEW k \in 1 .. n + 1 PROVE h[k] = step[k][h[k - 1]]
      <4>1. CASE k = n + 1
        BY <2>4, <2>5, <4>1
      <4>2. CASE k # n + 1
        BY <2>1, <2>4, <4>2
      <4> QED
        BY <4>1, <4>2
    <3> QED
      BY <3>1, <3>2
  <2> QED
    BY <2>3, <2>6
<1>3. Nat \subseteq P
  <2> HIDE DEF P
  <2> QED
    BY <1>1, <1>2, NatSetInduction
<1> QED
  BY <1>3 DEF Iterates

(* ... and so has one that builds up a sequence.                           *)
LEMMA SequenceRecursion ==
    ASSUME NEW S, NEW N \in Nat, NEW step \in [1 .. N -> [Seq(S) -> Seq(S)]]
    PROVE  \E f \in [0 .. N -> Seq(S)] : Iterates(f, <<>>, step, N)
<1>1. <<>> \in Seq(S)
  BY EmptySeq
<1> QED
  BY <1>1, PrimitiveRecursion, Zenon

(* The loop of Picked, and the table of its rounds.                        *)
PickTerm(q, I, f, n) ==
    IF n = 0 THEN <<>> ELSE IF n \in I THEN Append(f[n - 1], q[n]) ELSE f[n - 1]

PickTable(q, I) == CHOOSE f : f = [n \in 0 .. Len(q) |-> PickTerm(q, I, f, n)]

(* The table satisfies the recursion.                                      *)
LEMMA PickTableDef ==
    ASSUME NEW S, NEW q \in Seq(S), NEW I
    PROVE  /\ Picked(q, I) = PickTable(q, I)[Len(q)]
           /\ \A n \in 0 .. Len(q) : PickTable(q, I)[n] = PickTerm(q, I, PickTable(q, I), n)
<1> DEFINE N == Len(q)
<1> DEFINE step == [n \in 1 .. N |-> [s \in Seq(S) |-> IF n \in I THEN Append(s, q[n]) ELSE s]]
<1>1. N \in Nat /\ \A n \in 1 .. N : q[n] \in S
  BY LenProperties, ElementOfSeq
<1>2. step \in [1 .. N -> [Seq(S) -> Seq(S)]]
  BY <1>1, AppendProperties
<1>3. <<>> \in Seq(S)
  BY EmptySeq
<1>4. \E f \in [0 .. N -> Seq(S)] : Iterates(f, <<>>, step, N)
  <2> HIDE DEF N, step
  <2> QED
    BY <1>1, <1>2, SequenceRecursion, Zenon
<1>5. PICK f \in [0 .. N -> Seq(S)] : f[0] = <<>> /\ \A k \in 1 .. N : f[k] = step[k][f[k - 1]]
  BY <1>4 DEF Iterates
<1>6. ASSUME NEW n \in 0 .. N PROVE f[n] = PickTerm(q, I, f, n)
  <2>1. CASE n = 0
    BY <1>5, <2>1 DEF PickTerm
  <2>2. CASE n # 0
    <3>1. n \in 1 .. N /\ f[n - 1] \in Seq(S)
      BY <1>1, <1>5, <2>2
    <3>2. step[n][f[n - 1]] = IF n \in I THEN Append(f[n - 1], q[n]) ELSE f[n - 1]
      BY <3>1
    <3> QED
      BY <1>5, <2>2, <3>1, <3>2 DEF PickTerm
  <2> QED
    BY <2>1, <2>2
<1>7. f = [n \in 0 .. N |-> PickTerm(q, I, f, n)]
  BY <1>5, <1>6
<1>8. PickTable(q, I) = [n \in 0 .. Len(q) |-> PickTerm(q, I, PickTable(q, I), n)]
  BY <1>7, Zenon DEF PickTable
<1>9. \A n \in 0 .. Len(q) : PickTable(q, I)[n] = PickTerm(q, I, PickTable(q, I), n)
  BY <1>8, Zenon
<1>10. Picked(q, I) = PickTable(q, I)[Len(q)]
  BY DEF Picked, PickTable, PickTerm
<1> QED
  BY <1>9, <1>10

(* The n-th row of the table picks from the first n elements.  `at' tells  *)
(* where each picked element comes from.                                   *)
Selects(p, at, q, I, n) ==
    /\ at \in [1 .. Len(p) -> I \cap (1 .. n)]
    /\ \A k \in 1 .. Len(p) : p[k] = q[at[k]]
    /\ \A j, k \in 1 .. Len(p) : j < k => at[j] < at[k]
    /\ \A i \in I \cap (1 .. n) : \E k \in 1 .. Len(p) : at[k] = i

(* Picked takes exactly the elements at the positions in I, in order.      *)
LEMMA PickedSelects ==
    ASSUME NEW S, NEW q \in Seq(S), NEW I
    PROVE  /\ Picked(q, I) \in Seq(S)
           /\ \E at : Selects(Picked(q, I), at, q, I, Len(q))
<1> DEFINE N == Len(q)
<1> DEFINE f == PickTable(q, I)
<1> DEFINE Good(n) == f[n] \in Seq(S) /\ \E at : Selects(f[n], at, q, I, n)
<1> DEFINE P == {n \in Nat : n <= N => Good(n)}
<1>1. N \in Nat /\ \A n \in 1 .. N : q[n] \in S
  BY LenProperties, ElementOfSeq
<1>2. Picked(q, I) = f[N] /\ \A n \in 0 .. N : f[n] = PickTerm(q, I, f, n)
  BY PickTableDef
<1> HIDE DEF f, N
<1>3. 0 \in P
  <2>1. f[0] = <<>>
    BY <1>1, <1>2 DEF PickTerm
  <2>2. <<>> \in Seq(S) /\ Len(<<>>) = 0
    BY EmptySeq
  <2>3. Selects(<<>>, <<>>, q, I, 0)
    BY DEF Selects
  <2> QED
    BY <2>1, <2>2, <2>3
<1>4. ASSUME NEW n \in Nat, n \in P PROVE n + 1 \in P
  <2> SUFFICES ASSUME n + 1 <= N PROVE Good(n + 1)
    OBVIOUS
  <2>1. f[n] \in Seq(S)
    BY <1>1, <1>4
  <2>2. PICK at : Selects(f[n], at, q, I, n)
    BY <1>1, <1>4
  <2>3. f[n + 1] = IF n + 1 \in I THEN Append(f[n], q[n + 1]) ELSE f[n]
    BY <1>1, <1>2 DEF PickTerm
  <2>4. CASE n + 1 \notin I
    <3>1. I \cap (1 .. n + 1) = I \cap (1 .. n)
      BY <2>4
    <3> QED
      BY <2>1, <2>2, <2>3, <2>4, <3>1 DEF Selects
  <2>5. CASE n + 1 \in I
    <3> DEFINE p == f[n]
    <3> DEFINE m == Len(p)
    <3> DEFINE r == Append(p, q[n + 1])
    <3> DEFINE to == [k \in 1 .. m + 1 |-> IF k <= m THEN at[k] ELSE n + 1]
    <3>1. m \in Nat
      BY <2>1, LenProperties
    <3>2. /\ r \in Seq(S) /\ Len(r) = m + 1
          /\ \A k \in 1 .. m : r[k] = p[k]
          /\ r[m + 1] = q[n + 1]
      BY <1>1, <2>1, AppendProperties
    <3>3. /\ \A k \in 1 .. m : at[k] \in I /\ at[k] \in 1 .. n /\ p[k] = q[at[k]]
          /\ \A j, k \in 1 .. m : j < k => at[j] < at[k]
          /\ \A i \in I \cap (1 .. n) : \E k \in 1 .. m : at[k] = i
      BY <2>2 DEF Selects
    <3>4. /\ \A k \in 1 .. m : to[k] = at[k]
          /\ to[m + 1] = n + 1
      BY <3>1
    <3>5. to \in [1 .. m + 1 -> I \cap (1 .. n + 1)]
      BY <2>5, <3>1, <3>3
    <3> HIDE DEF p, m, r, to
    <3>6. \A k \in 1 .. m + 1 : r[k] = q[to[k]]
      BY <3>1, <3>2, <3>3, <3>4
    <3>7. \A j, k \in 1 .. m + 1 : j < k => to[j] < to[k]
      BY <3>1, <3>3, <3>4
    <3>8. \A i \in I \cap (1 .. n + 1) : \E k \in 1 .. m + 1 : to[k] = i
      BY <3>1, <3>3, <3>4
    <3>9. Selects(r, to, q, I, n + 1)
      BY <3>2, <3>5, <3>6, <3>7, <3>8 DEF Selects
    <3> QED
      BY <2>3, <2>5, <3>2, <3>9 DEF r, p
  <2> QED
    BY <2>4, <2>5
<1>5. Nat \subseteq P
  <2> HIDE DEF P
  <2> QED
    BY <1>3, <1>4, NatSetInduction
<1>6. Good(N)
  BY <1>1, <1>5
<1> QED
  BY <1>2, <1>6 DEF N

(* The loop of FlattenSeq, and the table of its rounds.                    *)
FlattenTerm(ss, f, n) == IF n = 1 THEN ss[n] ELSE f[n - 1] \o ss[n]

FlattenTable(ss) == CHOOSE f : f = [n \in 1 .. Len(ss) |-> FlattenTerm(ss, f, n)]

(* The table satisfies the recursion.                                      *)
LEMMA FlattenTableDef ==
    ASSUME NEW S, NEW ss \in Seq(Seq(S)), Len(ss) # 0
    PROVE  /\ FlattenSeq(ss) = FlattenTable(ss)[Len(ss)]
           /\ \A n \in 1 .. Len(ss) : FlattenTable(ss)[n] = FlattenTerm(ss, FlattenTable(ss), n)
<1> DEFINE N == Len(ss)
<1> DEFINE step == [n \in 1 .. N |-> [s \in Seq(S) |-> s \o ss[n]]]
<1>1. N \in Nat /\ \A n \in 1 .. N : ss[n] \in Seq(S)
  BY LenProperties, ElementOfSeq
<1>2. step \in [1 .. N -> [Seq(S) -> Seq(S)]]
  BY <1>1, ConcatProperties
<1>3. \E f \in [0 .. N -> Seq(S)] : Iterates(f, <<>>, step, N)
  <2> HIDE DEF N, step
  <2> QED
    BY <1>1, <1>2, SequenceRecursion, Zenon
<1>4. PICK f \in [0 .. N -> Seq(S)] : f[0] = <<>> /\ \A k \in 1 .. N : f[k] = step[k][f[k - 1]]
  BY <1>3 DEF Iterates
<1> DEFINE g == [n \in 1 .. N |-> f[n]]
<1>5. ASSUME NEW n \in 1 .. N PROVE g[n] = FlattenTerm(ss, g, n)
  <2>0. \A k \in 1 .. N : \A s \in Seq(S) : step[k][s] = s \o ss[k]
    BY Zenon
  <2> HIDE DEF step, N
  <2>1. f[n - 1] \in Seq(S) /\ f[n] = step[n][f[n - 1]]
    <3>1. n - 1 \in 0 .. N
      BY <1>1
    <3> QED
      BY <1>4, <3>1, Zenon
  <2>2. f[n] = f[n - 1] \o ss[n]
    BY <2>0, <2>1, Zenon
  <2>3. CASE n = 1
    <3>1. <<>> \o ss[1] = ss[1]
      BY <1>1, <2>3, ConcatEmptySeq
    <3>2. f[n - 1] = <<>>
      BY <1>4, <2>3
    <3>3. f[n] = ss[n]
      BY <2>2, <2>3, <3>1, <3>2, Zenon
    <3> QED
      BY <2>3, <3>3 DEF FlattenTerm
  <2>4. CASE n # 1
    <3>1. n - 1 \in 1 .. N
      BY <1>1, <2>4
    <3>2. g[n] = f[n] /\ g[n - 1] = f[n - 1]
      BY <3>1
    <3> QED
      BY <2>2, <2>4, <3>2 DEF FlattenTerm
  <2> QED
    BY <2>3, <2>4
<1>6. g = [n \in 1 .. N |-> FlattenTerm(ss, g, n)]
  BY <1>5
<1> HIDE DEF g
<1>7. FlattenTable(ss) = [n \in 1 .. Len(ss) |-> FlattenTerm(ss, FlattenTable(ss), n)]
  BY <1>6, Zenon DEF FlattenTable
<1>8. \A n \in 1 .. Len(ss) : FlattenTable(ss)[n] = FlattenTerm(ss, FlattenTable(ss), n)
  BY <1>7, Zenon
<1>9. FlattenSeq(ss) = FlattenTable(ss)[Len(ss)]
  BY DEF FlattenSeq, FlattenTable, FlattenTerm
<1> QED
  BY <1>8, <1>9

(* p consists of elements of the first n sequences of ss; `box' and `at'   *)
(* tell where each comes from.                                             *)
Gathers(p, box, at, ss, n) ==
    /\ \A k \in 1 .. Len(p) :
          box[k] \in 1 .. n /\ at[k] \in 1 .. Len(ss[box[k]]) /\ p[k] = ss[box[k]][at[k]]
    /\ \A j, k \in 1 .. Len(p) : box[j] = box[k] /\ at[j] = at[k] => j = k

(* FlattenSeq takes no element twice.                                      *)
LEMMA FlattenGathers ==
    ASSUME NEW S, NEW ss \in Seq(Seq(S))
    PROVE  /\ FlattenSeq(ss) \in Seq(S)
           /\ \E box, at : Gathers(FlattenSeq(ss), box, at, ss, Len(ss))
<1> DEFINE N == Len(ss)
<1>1. N \in Nat /\ \A n \in 1 .. N : ss[n] \in Seq(S)
  BY LenProperties, ElementOfSeq
<1>2. CASE N = 0
  <2>1. FlattenSeq(ss) = ss /\ ss = <<>>
    BY <1>2, EmptySeq DEF FlattenSeq
  <2>2. <<>> \in Seq(S) /\ Len(<<>>) = 0
    BY EmptySeq
  <2>3. Gathers(<<>>, <<>>, <<>>, ss, N)
    BY <2>2 DEF Gathers
  <2> QED
    BY <2>1, <2>2, <2>3
<1>3. CASE N # 0
  <2> DEFINE f == FlattenTable(ss)
  <2> DEFINE Good(n) == f[n] \in Seq(S) /\ \E box, at : Gathers(f[n], box, at, ss, n)
  <2> DEFINE P == {n \in Nat : n \in 1 .. N => Good(n)}
  <2>1. FlattenSeq(ss) = f[N] /\ \A n \in 1 .. N : f[n] = FlattenTerm(ss, f, n)
    BY <1>3, FlattenTableDef
  <2> HIDE DEF f, N
  <2>2. ASSUME 1 \in 1 .. N PROVE Good(1)
    <3> DEFINE p == ss[1]
    <3> DEFINE box == [k \in 1 .. Len(p) |-> 1]
    <3> DEFINE at == [k \in 1 .. Len(p) |-> k]
    <3>1. f[1] = p /\ p \in Seq(S) /\ Len(p) \in Nat
      BY <1>1, <2>1, <2>2, LenProperties DEF FlattenTerm
    <3>2. \A k \in 1 .. Len(p) : box[k] = 1 /\ at[k] = k
      OBVIOUS
    <3> HIDE DEF box, at
    <3>3. Gathers(p, box, at, ss, 1)
      BY <3>1, <3>2 DEF Gathers
    <3> QED
      BY <3>1, <3>3
  <2>3. ASSUME NEW n \in Nat, n \in P PROVE n + 1 \in P
    <3> SUFFICES ASSUME n + 1 \in 1 .. N PROVE Good(n + 1)
      OBVIOUS
    <3>1. CASE n = 0
      BY <2>2, <3>1
    <3>2. CASE n # 0
      <4>1. n \in 1 .. N
        BY <1>1, <3>2
      <4> DEFINE p == f[n]
      <4> DEFINE q == ss[n + 1]
      <4> DEFINE r == p \o q
      <4>2. p \in Seq(S) /\ \E b, a : Gathers(p, b, a, ss, n)
        BY <2>3, <4>1
      <4>3. PICK b, a : Gathers(p, b, a, ss, n)
        BY <4>2
      <4>4. f[n + 1] = r
        <5>1. f[n + 1] = FlattenTerm(ss, f, n + 1) /\ n + 1 # 1 /\ (n + 1) - 1 = n
          BY <2>1, <3>2
        <5> QED
          BY <5>1, Zenon DEF FlattenTerm
      <4> DEFINE lp == Len(p)
      <4> DEFINE lq == Len(q)
      <4>5. q \in Seq(S) /\ lp \in Nat /\ lq \in Nat
        BY <1>1, <4>2, LenProperties
      <4>6. /\ r \in Seq(S) /\ Len(r) = lp + lq
            /\ \A k \in 1 .. lp + lq : r[k] = IF k <= lp THEN p[k] ELSE q[k - lp]
        BY <4>2, <4>5, ConcatProperties
      <4> DEFINE box == [k \in 1 .. lp + lq |-> IF k <= lp THEN b[k] ELSE n + 1]
      <4> DEFINE at == [k \in 1 .. lp + lq |-> IF k <= lp THEN a[k] ELSE k - lp]
      <4>8. /\ \A k \in 1 .. lp :
                 b[k] \in 1 .. n /\ a[k] \in 1 .. Len(ss[b[k]]) /\ p[k] = ss[b[k]][a[k]]
            /\ \A j, k \in 1 .. lp : b[j] = b[k] /\ a[j] = a[k] => j = k
        BY <4>3 DEF Gathers
      <4>9. ss[n + 1] = q /\ Len(ss[n + 1]) = lq
        OBVIOUS
      <4> HIDE DEF r, p, q, lp, lq
      <4>7. /\ \A k \in 1 .. lp : box[k] = b[k] /\ at[k] = a[k] /\ r[k] = p[k]
            /\ \A k \in lp + 1 .. lp + lq : box[k] = n + 1 /\ at[k] = k - lp /\ r[k] = q[k - lp]
        BY <4>5, <4>6
      <4> HIDE DEF box, at
      <4>10. ASSUME NEW k \in 1 .. lp + lq
             PROVE  /\ box[k] \in 1 .. n + 1 /\ at[k] \in 1 .. Len(ss[box[k]])
                    /\ r[k] = ss[box[k]][at[k]]
        <5>1. CASE k <= lp
          <6>1. k \in 1 .. lp
            BY <4>5, <5>1
          <6>2. box[k] = b[k] /\ at[k] = a[k] /\ r[k] = p[k]
            BY <4>7, <6>1
          <6>3. b[k] \in 1 .. n /\ a[k] \in 1 .. Len(ss[b[k]]) /\ p[k] = ss[b[k]][a[k]]
            BY <4>8, <6>1
          <6>4. 1 .. n \subseteq 1 .. n + 1
            OBVIOUS
          <6> QED
            BY <6>2, <6>3, <6>4, Zenon
        <5>2. CASE ~(k <= lp)
          <6>1. k - lp \in 1 .. lq /\ k \in lp + 1 .. lp + lq /\ n + 1 \in 1 .. n + 1
            BY <4>5, <5>2
          <6>2. box[k] = n + 1 /\ at[k] = k - lp /\ r[k] = q[k - lp]
            BY <4>7, <6>1, Zenon
          <6> QED
            BY <4>9, <6>1, <6>2, Zenon
        <5> QED
          BY <5>1, <5>2
      <4>11. ASSUME NEW j \in 1 .. lp + lq, NEW k \in 1 .. lp + lq, box[j] = box[k], at[j] = at[k]
             PROVE  j = k
        <5>1. CASE j <= lp /\ k <= lp
          BY <4>5, <4>7, <4>8, <4>11, <5>1
        <5>2. CASE ~(j <= lp) /\ ~(k <= lp)
          BY <4>5, <4>7, <4>11, <5>2
        <5>3. ASSUME NEW x \in 1 .. lp + lq, x <= lp PROVE box[x] # n + 1
          BY <4>5, <4>7, <4>8, <5>3
        <5> QED
          <6>1. \A x \in 1 .. lp + lq : ~(x <= lp) => box[x] = n + 1
            BY <4>5, <4>7
          <6> QED
            BY <4>11, <5>1, <5>2, <5>3, <6>1
      <4>12. Gathers(r, box, at, ss, n + 1)
        BY <4>6, <4>10, <4>11 DEF Gathers
      <4> QED
        BY <4>4, <4>6, <4>12
    <3> QED
      BY <3>1, <3>2
  <2>4. Nat \subseteq P
    <3>1. 0 \in P
      OBVIOUS
    <3> HIDE DEF P
    <3> QED
      BY <2>3, <3>1, NatSetInduction
  <2>5. Good(N)
    BY <1>1, <1>3, <2>4
  <2> QED
    BY <2>1, <2>5 DEF N
<1> QED
  BY <1>2, <1>3
=============================================================================
