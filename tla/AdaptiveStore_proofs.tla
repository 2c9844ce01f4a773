------------------------ MODULE AdaptiveStore_proofs ------------------------
(***************************************************************************)
(* Proofs about the adaptive layer store, for any processes, paths,        *)
(* documents, commands and pointer rows.  The facts about the pointer      *)
(* index need nothing; mutual exclusion and atomicity need that no lock    *)
(* gets old enough to be taken over.                                       *)
(***************************************************************************)
EXTENDS AdaptiveStore, SequenceTheorems, TLAPS

(* What a process is doing fits its command: it has one unless it is idle, *)
(* only commands other than read take the lock, and none of them has an    *)
(* answer before its file operation.                                       *)
ProcsOK ==
    \A p \in Procs :
        /\ pc[p] = "idle" <=> req[p] = NoRequest
        /\ pc[p] \in Waiting \cup Holding => req[p].op # "read"
        /\ pc[p] = "read" => req[p].op = "read"
        /\ pc[p] \in Waiting \cup {"idle", "read", "locked", "write"} => res[p] = NoAnswer

(* Every entry of the index, and of each process's copy of it, has a row.  *)
CopiesHaveRows ==
    \A p \in Procs : \A k \in Keys : mine[p][k] # NoHash => <<k, mine[p][k]>> \in rows

IndexInv == TypeOK /\ ProcsOK /\ IndexHasRows /\ CopiesHaveRows

(* Nobody takes a lock over, and what was compared still holds.            *)
NoTakeover == \A p \in Procs : pc[p] # "steal"

Compared ==
    \A p \in Procs : pc[p] = "write" => MustWrite(req[p], file[Path(p)])

(* Nor has the file changed since a process that is about to log left it.  *)
Written ==
    \A p \in Procs : pc[p] = "log" => file[Path(p)] = NewContent(p)

LockInv == IndexInv /\ MutualExclusion /\ NoTakeover /\ Compared /\ Written

-----------------------------------------------------------------------------
(* Commands and what they leave.                                           *)

(* An assignment to one element keeps the type of a function.              *)
LEMMA ExceptType ==
    ASSUME NEW S, NEW T, NEW f \in [S -> T], NEW x, NEW v \in T
    PROVE  [f EXCEPT ![x] = v] \in [S -> T]
  OBVIOUS

(* The fields of a command.                                                *)
LEMMA CommandFacts ==
    ASSUME NEW r \in Abstract!Command
    PROVE  /\ r # NoRequest
           /\ r.op \in {"read", "delete", "ensure", "set"}
           /\ r.path \in Paths
           /\ r.op \in {"ensure", "set"} => r.value \in Values
           /\ r.op = "set" => r.expect \in Content \cup {Unchecked}
  BY DEF Abstract!Command, Abstract!Content, Content, NoRequest

(* A process that is not idle has a command.                               *)
LEMMA HasCommand ==
    ASSUME TypeOK, ProcsOK, NEW p \in Procs, pc[p] # "idle"
    PROVE  req[p] \in Abstract!Command /\ Path(p) \in Paths
<1>1. req[p] \in Abstract!Command
  BY DEF TypeOK, ProcsOK
<1> QED
  BY <1>1, CommandFacts DEF Path

(* A command that changes files leaves a document, or none.                *)
LEMMA LeavesContent ==
    ASSUME TypeOK, ProcsOK, NEW p \in Procs, pc[p] \in Waiting \cup Holding
    PROVE  NewContent(p) \in Content
<1>1. req[p] \in Abstract!Command /\ req[p].op # "read"
  BY HasCommand DEF ProcsOK, Waiting, Holding
<1> QED
  BY <1>1, CommandFacts DEF NewContent, Content

(* The answers of the model are answers of AtomicStore.                    *)
LEMMA AnswerFacts ==
    /\ NoAnswer \in Abstract!Answer
    /\ \A v \in Content : /\ [status |-> "changed", value |-> v] \in Abstract!Answer
                         /\ [status |-> "unchanged", value |-> v] \in Abstract!Answer
    /\ [status |-> "failed", value |-> Missing] \in Abstract!Answer
  BY DEF NoAnswer, Abstract!Answer, Abstract!Content, Content

-----------------------------------------------------------------------------
(* The index and its rows.                                                 *)

LEMMA InitIndex == Init => IndexInv
<1> SUFFICES ASSUME Init PROVE IndexInv
  OBVIOUS
<1> USE AdaptiveAssumption
<1>1. TypeOK
  BY AnswerFacts DEF Init, TypeOK, Locations, Content, Index, EmptyIndex
<1>2. ProcsOK
  BY DEF Init, ProcsOK, Waiting, Holding
<1>3. IndexHasRows /\ CopiesHaveRows
  BY DEF Init, IndexHasRows, CopiesHaveRows, EmptyIndex
<1> QED
  BY <1>1, <1>2, <1>3 DEF IndexInv

(* One step of one process, or of the clock.  Only EmitRow and SaveIndex   *)
(* touch what IndexHasRows reads; LoadIndex makes a copy of the index.     *)
LEMMA NextIndex == IndexInv /\ [Next]_vars => IndexInv'
<1> SUFFICES ASSUME IndexInv, [Next]_vars PROVE IndexInv'
  OBVIOUS
<1> USE AdaptiveAssumption DEF IndexInv
<1>1. ASSUME NEW p \in Procs, NEW r \in Requests, Issue(p, r) PROVE IndexInv'
  <2>1. r \in Abstract!Command /\ r # NoRequest
    BY CommandFacts
  <2>2. TypeOK'
    BY <1>1, <2>1 DEF Issue, Goto, At, TypeOK, Locations, Waiting, files
  <2>3. ProcsOK'
    BY <1>1, <2>1 DEF Issue, Goto, At, TypeOK, ProcsOK, Waiting, Holding, files
  <2> QED
    BY <1>1, <2>2, <2>3 DEF Issue, files, IndexHasRows, CopiesHaveRows
<1>2. ASSUME NEW p \in Procs, ReadJson(p) PROVE IndexInv'
  <2>1. Path(p) \in Paths /\ file[Path(p)] \in Content
    BY <1>2, HasCommand DEF ReadJson, At, TypeOK
  <2>2. TypeOK'
    BY <1>2, <2>1, AnswerFacts DEF ReadJson, Decide, Goto, TypeOK, Locations, files
  <2>3. ProcsOK'
    BY <1>2 DEF ReadJson, Decide, At, Goto, TypeOK, ProcsOK, Waiting, Holding, files
  <2> QED
    BY <1>2, <2>2, <2>3 DEF ReadJson, files, IndexHasRows, CopiesHaveRows
<1>3. ASSUME NEW p \in Procs, Forget(p), lock' \in [Paths -> (0 .. MaxAge) \cup {NoLock}]
      PROVE  IndexInv'
  <2>1. TypeOK'
    BY <1>3, AnswerFacts DEF Forget, Goto, TypeOK, Locations, files, Index, EmptyIndex
  <2>2. ProcsOK'
    BY <1>3 DEF Forget, Goto, TypeOK, ProcsOK, Waiting, Holding
  <2> QED
    BY <1>3, <2>1, <2>2 DEF Forget, TypeOK, files, IndexHasRows, CopiesHaveRows, EmptyIndex
<1>4. ASSUME NEW p \in Procs, PrintAnswer(p) \/ Crash(p) \/ Release(p) PROVE IndexInv'
  <2>1. Forget(p)
    BY <1>4 DEF PrintAnswer, Crash, Release
  <2>2. lock' \in [Paths -> (0 .. MaxAge) \cup {NoLock}]
    BY <1>4 DEF PrintAnswer, Crash, Release, TypeOK
  <2> QED
    BY <1>3, <2>1, <2>2
<1>5. ASSUME NEW p \in Procs, CreateLock(p) PROVE IndexInv'
  <2>0. /\ lock' \in [Paths -> (0 .. MaxAge) \cup {NoLock}]
        /\ pc' \in [Procs -> Locations]
    <3>1. CASE lock[Path(p)] = NoLock
      <4>1. lock' = [lock EXCEPT ![Path(p)] = 0] /\ pc' = [pc EXCEPT ![p] = "locked"]
        BY <1>5, <3>1 DEF CreateLock, Goto
      <4>2. 0 \in (0 .. MaxAge) \cup {NoLock} /\ "locked" \in Locations
        BY DEF Locations, Holding
      <4> QED
        BY <4>1, <4>2, ExceptType DEF TypeOK
    <3>2. CASE lock[Path(p)] # NoLock
      BY <1>5, <3>2 DEF CreateLock, Goto, TypeOK, Locations, Waiting
    <3> QED
      BY <3>1, <3>2
  <2>1. TypeOK'
    BY <1>5, <2>0 DEF CreateLock, TypeOK, files
  <2>2. ProcsOK'
    BY <1>5 DEF CreateLock, At, Goto, TypeOK, ProcsOK, Waiting, Holding
  <2> QED
    BY <1>5, <2>1, <2>2 DEF CreateLock, files, IndexHasRows, CopiesHaveRows
<1>6. ASSUME NEW p \in Procs, Inspect(p) PROVE IndexInv'
  <2>1. TypeOK'
    <3>1. /\ UNCHANGED <<files, lock, req, waited, mine, todo>>
          /\ \/ Goto(p, "steal") /\ res' = res
             \/ Error(p)
             \/ Goto(p, "acquire") /\ res' = res
      BY <1>6 DEF Inspect
    <3>2. pc' \in [Procs -> Locations]
      BY <3>1 DEF Goto, Error, TypeOK, Locations, Waiting
    <3>3. res' \in [Procs -> Abstract!Answer]
      BY <3>1, AnswerFacts DEF Error, Decide, TypeOK
    <3> QED
      BY <3>1, <3>2, <3>3 DEF TypeOK, files
  <2>2. ProcsOK'
    BY <1>6 DEF Inspect, Error, Decide, At, Goto, TypeOK, ProcsOK, Waiting, Holding
  <2> QED
    BY <1>6, <2>1, <2>2 DEF Inspect, files, IndexHasRows, CopiesHaveRows
<1>7. ASSUME NEW p \in Procs, RemoveStale(p) PROVE IndexInv'
  <2>1. TypeOK'
    BY <1>7 DEF RemoveStale, Goto, TypeOK, Locations, Waiting, files
  <2>2. ProcsOK'
    BY <1>7 DEF RemoveStale, At, Goto, TypeOK, ProcsOK, Waiting, Holding
  <2> QED
    BY <1>7, <2>1, <2>2 DEF RemoveStale, files, IndexHasRows, CopiesHaveRows
<1>8. ASSUME NEW p \in Procs, Compare(p) PROVE IndexInv'
  <2>1. Path(p) \in Paths /\ file[Path(p)] \in Content
    BY <1>8, HasCommand DEF Compare, At, TypeOK
  <2>0. res' \in [Procs -> Abstract!Answer] /\ pc' \in [Procs -> Locations]
    <3>1. CASE MustWrite(req[p], file[Path(p)])
      BY <1>8, <3>1 DEF Compare, Goto, TypeOK, Locations, Holding
    <3>2. CASE ~MustWrite(req[p], file[Path(p)])
      <4>1. PICK l \in {"log", "release"} : pc' = [pc EXCEPT ![p] = l]
        BY <1>8, <3>2 DEF Compare, Goto
      <4>2. res' = [res EXCEPT ![p] = [status |-> "unchanged", value |-> file[Path(p)]]]
        BY <1>8, <3>2 DEF Compare, Decide
      <4>3. l \in Locations
        BY DEF Locations, Holding
      <4> QED
        BY <4>1, <4>2, <4>3, <2>1, AnswerFacts, ExceptType DEF TypeOK
    <3> QED
      BY <3>1, <3>2
  <2>2. TypeOK'
    BY <1>8, <2>0 DEF Compare, TypeOK, files
  <2>3. ProcsOK'
    BY <1>8 DEF Compare, Decide, At, Goto, TypeOK, ProcsOK, Waiting, Holding
  <2> QED
    BY <1>8, <2>2, <2>3 DEF Compare, files, IndexHasRows, CopiesHaveRows
<1>9. ASSUME NEW p \in Procs, Write(p) PROVE IndexInv'
  <2>1. NewContent(p) \in Content
    BY <1>9, LeavesContent DEF Write, At, Holding
  <2>2. TypeOK'
    BY <1>9, <2>1, AnswerFacts DEF Write, Decide, Goto, TypeOK, Locations, Holding
  <2>3. ProcsOK'
    BY <1>9 DEF Write, Decide, At, Goto, TypeOK, ProcsOK, Waiting, Holding
  <2> QED
    BY <1>9, <2>2, <2>3 DEF Write, IndexHasRows, CopiesHaveRows
<1>10. ASSUME NEW p \in Procs, WriteFails(p) PROVE IndexInv'
  <2>1. TypeOK'
    BY <1>10, AnswerFacts DEF WriteFails, Error, Decide, Goto, TypeOK, Locations, files
  <2>2. ProcsOK'
    BY <1>10 DEF WriteFails, Error, Decide, At, Goto, TypeOK, ProcsOK, Waiting, Holding
  <2> QED
    BY <1>10, <2>1, <2>2 DEF WriteFails, files, IndexHasRows, CopiesHaveRows
<1>11. ASSUME NEW p \in Procs, AppendLog(p) PROVE IndexInv'
  <2>1. NewContent(p) \in Content
    BY <1>11, LeavesContent DEF AppendLog, At, Holding
  <2>0. logged' \in [Paths -> Content] /\ pc' \in [Procs -> Locations]
    <3>1. \/ logged' = [logged EXCEPT ![Path(p)] = NewContent(p)]
          \/ logged' = logged
      BY <1>11 DEF AppendLog
    <3>2. pc' = [pc EXCEPT ![p] = "index"] /\ "index" \in Locations
      BY <1>11 DEF AppendLog, Goto, Locations, Holding
    <3> QED
      BY <3>1, <3>2, <2>1, ExceptType DEF TypeOK
  <2>2. TypeOK'
    BY <1>11, <2>0 DEF AppendLog, TypeOK
  <2>3. ProcsOK'
    BY <1>11 DEF AppendLog, At, Goto, TypeOK, ProcsOK, Waiting, Holding
  <2> QED
    BY <1>11, <2>2, <2>3 DEF AppendLog, IndexHasRows, CopiesHaveRows
<1>12. ASSUME NEW p \in Procs, LoadIndex(p) PROVE IndexInv'
  <2>1. Path(p) \in Paths /\ NewContent(p) \in Content
    BY <1>12, HasCommand, LeavesContent DEF LoadIndex, At, Holding
  <2>2. Pointers[Path(p)][NewContent(p)] \in Seq(Keys \X Hashes)
    BY <2>1
  <2>0. /\ mine' \in [Procs -> Index] /\ todo' \in [Procs -> Seq(Keys \X Hashes)]
        /\ pc' \in [Procs -> Locations]
    <3>1. CASE Pointers[Path(p)][NewContent(p)] = <<>>
      BY <1>12, <3>1 DEF LoadIndex, Goto, TypeOK, Locations, Holding
    <3>2. CASE Pointers[Path(p)][NewContent(p)] # <<>>
      <4>1. /\ mine' = [mine EXCEPT ![p] = index]
            /\ todo' = [todo EXCEPT ![p] = Pointers[Path(p)][NewContent(p)]]
            /\ pc' = [pc EXCEPT ![p] = "emit"] /\ "emit" \in Locations
        BY <1>12, <3>2 DEF LoadIndex, Goto, Locations, Holding
      <4> QED
        BY <4>1, <2>2, ExceptType DEF TypeOK
    <3> QED
      BY <3>1, <3>2
  <2>3. TypeOK'
    BY <1>12, <2>0 DEF LoadIndex, TypeOK, files
  <2>4. ProcsOK'
    BY <1>12 DEF LoadIndex, At, Goto, TypeOK, ProcsOK, Waiting, Holding
  <2>5. CopiesHaveRows'
    BY <1>12 DEF LoadIndex, TypeOK, files, IndexHasRows, CopiesHaveRows
  <2> QED
    BY <1>12, <2>3, <2>4, <2>5 DEF LoadIndex, files, IndexHasRows
<1>13. ASSUME NEW p \in Procs, EmitRow(p) PROVE IndexInv'
  <2> DEFINE row == Head(todo[p])
  <2>1. row \in Keys \X Hashes /\ Tail(todo[p]) \in Seq(Keys \X Hashes)
    BY <1>13, HeadTailProperties DEF EmitRow, TypeOK
  <2>2. row[1] \in Keys /\ row[2] \in Hashes /\ row = <<row[1], row[2]>>
    BY <2>1
  <2> HIDE DEF row
  <2>3. \/ UNCHANGED <<rows, mine>>
        \/ rows' = rows \cup {row} /\ mine' = [mine EXCEPT ![p][row[1]] = row[2]]
    BY <1>13 DEF EmitRow, row
  <2> DEFINE copy == [mine[p] EXCEPT ![row[1]] = row[2]]
  <2>9. mine[p] \in Index
    BY DEF TypeOK
  <2>10. /\ copy \in Index /\ copy[row[1]] = row[2]
         /\ \A k \in Keys \ {row[1]} : copy[k] = mine[p][k]
    BY <2>2, <2>9 DEF Index
  <2>11. [mine EXCEPT ![p][row[1]] = row[2]] = [mine EXCEPT ![p] = copy]
    BY DEF TypeOK
  <2> HIDE DEF copy
  <2>4. rows' \subseteq Keys \X Hashes /\ mine' \in [Procs -> Index]
    <3>1. rows' \subseteq Keys \X Hashes
      BY <2>1, <2>3 DEF TypeOK
    <3>2. [mine EXCEPT ![p] = copy] \in [Procs -> Index]
      BY <2>10, ExceptType DEF TypeOK
    <3> QED
      BY <3>1, <3>2, <2>3, <2>11 DEF TypeOK
  <2>5. TypeOK'
    BY <1>13, <2>1, <2>4 DEF EmitRow, TypeOK
  <2>6. ProcsOK'
    BY <1>13 DEF EmitRow, ProcsOK
  <2>7. CopiesHaveRows'
    <3>1. CASE UNCHANGED <<rows, mine>>
      BY <3>1 DEF CopiesHaveRows
    <3>2. CASE rows' = rows \cup {row} /\ mine' = [mine EXCEPT ![p] = copy]
      <4> SUFFICES ASSUME NEW q \in Procs, NEW k \in Keys, mine'[q][k] # NoHash
                   PROVE  <<k, mine'[q][k]>> \in rows'
        BY DEF CopiesHaveRows
      <4>1. CASE q = p /\ k = row[1]
        BY <3>2, <4>1, <2>2, <2>10 DEF TypeOK
      <4>2. CASE q = p /\ k # row[1]
        BY <3>2, <4>2, <2>10 DEF TypeOK, CopiesHaveRows
      <4>3. CASE q # p
        BY <3>2, <4>3 DEF TypeOK, CopiesHaveRows
      <4> QED
        BY <4>1, <4>2, <4>3
    <3> QED
      BY <2>3, <2>11, <3>1, <3>2
  <2>8. IndexHasRows'
    BY <1>13, <2>3 DEF EmitRow, IndexHasRows
  <2> QED
    BY <2>5, <2>6, <2>7, <2>8
<1>14. ASSUME NEW p \in Procs, EmitFails(p) PROVE IndexInv'
  <2>1. TypeOK'
    BY <1>14 DEF EmitFails, Goto, TypeOK, Locations, Holding, files
  <2>2. ProcsOK'
    BY <1>14 DEF EmitFails, At, Goto, TypeOK, ProcsOK, Waiting, Holding
  <2> QED
    BY <1>14, <2>1, <2>2 DEF EmitFails, files, IndexHasRows, CopiesHaveRows
<1>15. ASSUME NEW p \in Procs, SaveIndex(p) PROVE IndexInv'
  <2>1. TypeOK'
    BY <1>15 DEF SaveIndex, Goto, TypeOK, Locations, Holding
  <2>2. ProcsOK'
    BY <1>15 DEF SaveIndex, At, Goto, TypeOK, ProcsOK, Waiting, Holding
  <2> QED
    BY <1>15, <2>1, <2>2 DEF SaveIndex, IndexHasRows, CopiesHaveRows
<1>16. ASSUME Elapse PROVE IndexInv'
  <2>1. lock' \in [Paths -> (0 .. MaxAge) \cup {NoLock}]
    BY <1>16 DEF Elapse, TypeOK
  <2>2. waited' \in [Procs -> 0 .. Timeout]
    BY <1>16 DEF Elapse, TypeOK
  <2>3. TypeOK'
    BY <1>16, <2>1, <2>2 DEF Elapse, TypeOK, files
  <2> QED
    BY <1>16, <2>3 DEF Elapse, files, ProcsOK, IndexHasRows, CopiesHaveRows
<1>17. CASE UNCHANGED vars
  BY <1>17 DEF vars, TypeOK, ProcsOK, IndexHasRows, CopiesHaveRows, Path
<1> QED
  BY <1>1, <1>2, <1>4, <1>5, <1>6, <1>7, <1>8, <1>9, <1>10, <1>11, <1>12, <1>13, <1>14,
     <1>15, <1>16, <1>17 DEF Next, Step

-----------------------------------------------------------------------------
(* The lock.                                                               *)

LEMMA InitLock == Init => LockInv
<1> SUFFICES ASSUME Init PROVE LockInv
  OBVIOUS
<1>1. IndexInv
  BY InitIndex
<1> QED
  BY <1>1 DEF LockInv, Init, MutualExclusion, NoTakeover, Compared, Written, Holding

(* A lock is created only where there is none and removed only by the      *)
(* process that holds it, and only a holder writes its path.               *)
LEMMA NextLock ==
    ASSUME MaxAge <= Stale
    PROVE  LockInv /\ [Next]_vars => LockInv'
<1> SUFFICES ASSUME LockInv, [Next]_vars PROVE LockInv'
  OBVIOUS
<1> DEFINE Inv == MutualExclusion /\ NoTakeover /\ Compared /\ Written
<1>1. IndexInv /\ IndexInv' /\ TypeOK /\ ProcsOK
  BY NextIndex DEF LockInv, IndexInv
<1>2. \A q \in Procs : pc[q] # "idle" => Path(q) \in Paths
  BY <1>1, HasCommand
<1>3. \A q \in Procs : pc[q] \in Holding => pc[q] # "idle"
  BY DEF Holding
<1> USE <1>2, <1>3 DEF LockInv
<1>4. ASSUME NEW p \in Procs, NEW r \in Requests, Issue(p, r) PROVE Inv'
  <2>1. /\ pc' \in [Procs -> Locations] /\ pc'[p] \in {"read", "acquire"}
        /\ \A q \in Procs \ {p} : pc'[q] = pc[q] /\ req'[q] = req[q] /\ Path(q)' = Path(q)
        /\ file' = file /\ lock' = lock
    BY <1>1, <1>4 DEF Issue, Goto, Path, files, IndexInv, TypeOK
  <2> QED
    BY <2>1 DEF MutualExclusion, NoTakeover, Compared, Written, NewContent, Holding
<1>5. ASSUME NEW p \in Procs, Forget(p),
             \A q \in Procs \ {p} : pc[q] \in Holding => lock'[Path(q)] = lock[Path(q)]
      PROVE  Inv'
  <2>1. /\ pc'[p] = "idle" /\ file' = file
        /\ \A q \in Procs \ {p} : pc'[q] = pc[q] /\ req'[q] = req[q] /\ Path(q)' = Path(q)
    BY <1>1, <1>5 DEF Forget, Goto, Path, files, TypeOK
  <2> QED
    BY <1>5, <2>1 DEF MutualExclusion, NoTakeover, Compared, Written, NewContent, Holding
<1>6. ASSUME NEW p \in Procs, PrintAnswer(p) \/ Crash(p) PROVE Inv'
  BY <1>5, <1>6 DEF PrintAnswer, Crash
<1>7. ASSUME NEW p \in Procs, Release(p) PROVE Inv'
  <2>1. pc[p] \in Holding /\ Forget(p) /\ lock' = [lock EXCEPT ![Path(p)] = NoLock]
    BY <1>7 DEF Release, At, Holding
  <2>2. \A q \in Procs \ {p} : pc[q] \in Holding => Path(q) # Path(p)
    BY <2>1 DEF MutualExclusion
  <2> QED
    BY <1>1, <1>5, <2>1, <2>2 DEF TypeOK
<1>8. ASSUME NEW p \in Procs, CreateLock(p) PROVE Inv'
  <2>1. /\ pc[p] = "acquire" /\ Path(p) \in Paths /\ file' = file
        /\ \A q \in Procs \ {p} : pc'[q] = pc[q]
        /\ \A q \in Procs : req'[q] = req[q] /\ Path(q)' = Path(q)
    BY <1>1, <1>8 DEF CreateLock, At, Goto, Path, files, TypeOK
  <2>2. CASE lock[Path(p)] = NoLock
    <3>1. lock' = [lock EXCEPT ![Path(p)] = 0] /\ pc'[p] = "locked"
      BY <1>1, <1>8, <2>2 DEF CreateLock, Goto, TypeOK
    <3>2. \A q \in Procs \ {p} : pc[q] \in Holding => Path(q) # Path(p)
      BY <2>2 DEF MutualExclusion
    <3>3. lock'[Path(p)] # NoLock
      BY <1>1, <2>1, <3>1, AdaptiveAssumption DEF TypeOK
    <3>4. ASSUME NEW q \in Procs, pc'[q] \in Holding
          PROVE  lock'[Path(q)'] # NoLock /\ (q # p => pc[q] \in Holding)
      <4>1. CASE q = p
        BY <2>1, <3>3, <4>1
      <4>2. CASE q # p
        <5>1. pc[q] \in Holding /\ Path(q)' = Path(q) /\ Path(q) \in Paths
          BY <2>1, <3>4, <4>2
        <5>2. lock'[Path(q)] = lock[Path(q)]
          BY <1>1, <3>1, <3>2, <4>2, <5>1 DEF TypeOK
        <5> QED
          BY <5>1, <5>2 DEF MutualExclusion
      <4> QED
        BY <4>1, <4>2
    <3>5. ASSUME NEW q \in Procs, NEW s \in Procs, q # s, pc'[q] \in Holding, pc'[s] \in Holding
          PROVE  Path(q)' # Path(s)'
      BY <2>1, <3>2, <3>4, <3>5 DEF MutualExclusion
    <3>6. MutualExclusion'
      BY <3>4, <3>5 DEF MutualExclusion
    <3> QED
      BY <2>1, <3>1, <3>6 DEF NoTakeover, Compared, Written, NewContent
  <2>3. CASE lock[Path(p)] # NoLock
    <3>1. lock' = lock /\ pc'[p] = "inspect"
      BY <1>1, <1>8, <2>3 DEF CreateLock, Goto, TypeOK
    <3> QED
      BY <2>1, <3>1 DEF MutualExclusion, NoTakeover, Compared, Written, NewContent, Holding
  <2> QED
    BY <2>2, <2>3
<1>9. ASSUME NEW p \in Procs, Inspect(p) PROVE Inv'
  <2>1. pc[p] = "inspect" /\ Path(p) \in Paths
    BY <1>9 DEF Inspect, At
  <2>2. ~IsStale(Path(p))
    BY <1>1, <2>1, AdaptiveAssumption DEF IsStale, TypeOK
  <2>3. /\ pc'[p] \in {"answer", "acquire"} /\ file' = file /\ lock' = lock
        /\ \A q \in Procs \ {p} : pc'[q] = pc[q]
        /\ \A q \in Procs : req'[q] = req[q] /\ Path(q)' = Path(q)
    BY <1>1, <1>9, <2>2 DEF Inspect, Error, Goto, Path, files, TypeOK
  <2> QED
    BY <2>3 DEF MutualExclusion, NoTakeover, Compared, Written, NewContent, Holding
<1>10. ASSUME NEW p \in Procs, RemoveStale(p) PROVE FALSE
  BY <1>10 DEF RemoveStale, At, NoTakeover
<1>11. ASSUME NEW p \in Procs, Compare(p) PROVE Inv'
  <2>1. /\ pc[p] = "locked" /\ pc'[p] \in {"write", "log", "release"}
        /\ file' = file /\ lock' = lock
        /\ \A q \in Procs \ {p} : pc'[q] = pc[q]
        /\ \A q \in Procs : req'[q] = req[q] /\ Path(q)' = Path(q)
        /\ pc'[p] = "write" => MustWrite(req[p], file[Path(p)])
        /\ pc'[p] = "log" => req[p].op = "delete" /\ ~MustWrite(req[p], file[Path(p)])
    BY <1>1, <1>11 DEF Compare, At, Goto, Path, files, TypeOK
  <2>2. Compared'
    BY <2>1 DEF Compared
  <2>3. pc'[p] = "log" => file[Path(p)] = NewContent(p)
    BY <2>1 DEF MustWrite, NewContent
  <2>4. Written'
    BY <2>1, <2>3 DEF Written, NewContent
  <2> QED
    BY <2>1, <2>2, <2>4 DEF MutualExclusion, NoTakeover, Holding
<1>12. ASSUME NEW p \in Procs, Write(p) PROVE Inv'
  <2>1. /\ pc[p] = "write" /\ pc'[p] = "log" /\ lock' = lock
        /\ \A q \in Procs \ {p} : pc'[q] = pc[q]
        /\ \A q \in Procs : req'[q] = req[q] /\ Path(q)' = Path(q)
        /\ file' = [file EXCEPT ![Path(p)] = NewContent(p)]
    BY <1>1, <1>12 DEF Write, At, Goto, Path, TypeOK
  <2>2. \A q \in Procs \ {p} : pc[q] \in {"write", "log"} => file'[Path(q)] = file[Path(q)]
    BY <1>1, <2>1 DEF MutualExclusion, Holding, TypeOK
  <2>3. Compared'
    BY <2>1, <2>2 DEF Compared
  <2>4. file'[Path(p)] = NewContent(p)
    BY <1>1, <2>1 DEF TypeOK
  <2>5. Written'
    BY <2>1, <2>2, <2>4 DEF Written, NewContent
  <2> QED
    BY <2>1, <2>3, <2>5 DEF MutualExclusion, NoTakeover, Holding
<1>13. ASSUME NEW p \in Procs, WriteFails(p) \/ ReadJson(p) PROVE Inv'
  <2>1. /\ pc'[p] = "answer" /\ file' = file /\ lock' = lock
        /\ \A q \in Procs \ {p} : pc'[q] = pc[q]
        /\ \A q \in Procs : req'[q] = req[q] /\ Path(q)' = Path(q)
    BY <1>1, <1>13 DEF WriteFails, ReadJson, Error, Goto, Path, files, TypeOK
  <2> QED
    BY <2>1 DEF MutualExclusion, NoTakeover, Compared, Written, NewContent, Holding
<1>14. ASSUME NEW p \in Procs,
              AppendLog(p) \/ LoadIndex(p) \/ EmitRow(p) \/ EmitFails(p) \/ SaveIndex(p)
       PROVE  Inv'
  <2>1. /\ pc[p] \in {"log", "index", "emit"} /\ pc'[p] \in {"index", "emit", "release"}
        /\ \A q \in Procs \ {p} : pc'[q] = pc[q]
    BY <1>1, <1>14 DEF AppendLog, LoadIndex, EmitRow, EmitFails, SaveIndex, At, Goto, TypeOK
  <2>2. file' = file /\ lock' = lock /\ req' = req
    BY <1>14 DEF AppendLog, LoadIndex, EmitRow, EmitFails, SaveIndex, files
  <2>3. \A q \in Procs : Path(q)' = Path(q)
    BY <2>2 DEF Path
  <2> QED
    BY <2>1, <2>2, <2>3 DEF MutualExclusion, NoTakeover, Compared, Written, NewContent, Holding
<1>15. ASSUME Elapse PROVE Inv'
  <2>1. /\ file' = file /\ pc' = pc /\ req' = req
        /\ \A q \in Procs : Path(q)' = Path(q)
    BY <1>15 DEF Elapse, Path, files
  <2>2. \A x \in Paths : lock[x] # NoLock => lock'[x] # NoLock
    BY <1>1, <1>15, AdaptiveAssumption DEF Elapse, TypeOK
  <2> QED
    BY <2>1, <2>2 DEF MutualExclusion, NoTakeover, Compared, Written, NewContent
<1>16. ASSUME UNCHANGED vars PROVE Inv'
  <2>1. file' = file /\ pc' = pc /\ req' = req /\ lock' = lock
    BY <1>16 DEF vars
  <2>2. \A q \in Procs : Path(q)' = Path(q)
    BY <2>1 DEF Path
  <2> QED
    BY <2>1, <2>2 DEF MutualExclusion, NoTakeover, Compared, Written, NewContent
<1>17. ASSUME NEW p \in Procs, Step(p) PROVE Inv'
  <2> HIDE DEF Inv
  <2> QED
    BY <1>6, <1>7, <1>8, <1>9, <1>10, <1>11, <1>12, <1>13, <1>14, <1>17 DEF Step
<1>18. Inv'
  <2> HIDE DEF Inv, LockInv
  <2>1. CASE \E p \in Procs : (\E r \in Requests : Issue(p, r)) \/ Step(p) \/ Crash(p)
    BY <1>4, <1>6, <1>17, <2>1
  <2>2. CASE Elapse
    BY <1>15, <2>2
  <2>3. CASE UNCHANGED vars
    BY <1>16, <2>3
  <2> QED
    BY <2>1, <2>2, <2>3 DEF Next
<1> QED
  BY <1>1, <1>18

-----------------------------------------------------------------------------
(* Where a command takes effect.  The definitions of the two modules agree *)
(* on what is compared and what is left.                                   *)

(* The comparison made under the lock is the one AtomicStore asks for.     *)
LEMMA SameDecision ==
    ASSUME NEW r \in Abstract!Command, r.op # "read", NEW cur \in Content
    PROVE  /\ Abstract!Changes(r, cur) <=> MustWrite(r, cur)
           /\ ~MustWrite(r, cur) => Abstract!AnswerTo(r, cur) = [status |-> "unchanged", value |-> cur]
           /\ ~MustWrite(r, cur) => Abstract!Result(r, cur) = cur
<1>1. Conflict(r, cur) <=> Abstract!Conflict(r, cur)
  BY AdaptiveAssumption DEF Conflict, Abstract!Conflict, Content
<1>2. r.op \in {"delete", "ensure", "set"}
  BY CommandFacts
<1>3. Abstract!Changes(r, cur) <=> MustWrite(r, cur)
  BY <1>1, <1>2 DEF Abstract!Changes, MustWrite
<1> QED
  BY <1>3 DEF Abstract!AnswerTo, Abstract!Result

(* Issue is Issue, an unlocked read, a comparison that ends the command    *)
(* and the rename are Apply, an error is Fail, the end of the process is   *)
(* End; everything else is invisible.                                      *)
LEMMA NextAtomic ==
    ASSUME MaxAge <= Stale, LockInv, [Next]_vars
    PROVE  [Abstract!Next]_(Abstract!vars)
<1>1. TypeOK /\ ProcsOK /\ NoTakeover /\ Compared
  BY DEF LockInv, IndexInv
<1>2. NoRequest = Abstract!NoRequest /\ NoAnswer = Abstract!NoAnswer
  BY DEF NoRequest, NoAnswer, Abstract!NoRequest, Abstract!NoAnswer
<1>3. ASSUME NEW p \in Procs, pc[p] # "idle", res[p] = NoAnswer
      PROVE  Abstract!Undecided(p)
  BY <1>1, <1>2, <1>3 DEF ProcsOK, NoAnswer, Abstract!Undecided
<1>4. ASSUME NEW p \in Procs, NEW r \in Requests, Issue(p, r) PROVE Abstract!Issue(p, r)
  BY <1>1, <1>2, <1>4 DEF Issue, At, files, ProcsOK, Abstract!Issue
<1>5. ASSUME NEW p \in Procs, pc[p] # "idle", Forget(p) PROVE Abstract!End(p)
  BY <1>1, <1>2, <1>5 DEF Forget, files, ProcsOK, Abstract!End
<1>6. ASSUME NEW p \in Procs, ReadJson(p) PROVE Abstract!Apply(p)
  <2>1. /\ pc[p] = "read" /\ res[p] = NoAnswer /\ req[p].op = "read"
        /\ file' = file /\ req' = req /\ Path(p) = req[p].path
        /\ res' = [res EXCEPT ![p] = [status |-> "unchanged", value |-> file[Path(p)]]]
    BY <1>1, <1>6 DEF ReadJson, At, Decide, files, ProcsOK, Path
  <2>2. Abstract!Undecided(p)
    BY <1>3, <2>1
  <2>3. ~Abstract!Changes(req[p], file[Path(p)])
    BY <2>1 DEF Abstract!Changes
  <2>4. /\ Abstract!Result(req[p], file[Path(p)]) = file[Path(p)]
        /\ Abstract!AnswerTo(req[p], file[Path(p)])
             = [status |-> "unchanged", value |-> file[Path(p)]]
    BY <2>3 DEF Abstract!Result, Abstract!AnswerTo
  <2>5. file' = [file EXCEPT ![Path(p)] = Abstract!Result(req[p], file[Path(p)])]
    BY <1>1, <2>1, <2>4 DEF TypeOK
  <2> QED
    BY <2>1, <2>2, <2>4, <2>5 DEF Abstract!Apply
<1>7. ASSUME NEW p \in Procs, Compare(p)
      PROVE  Abstract!Apply(p) \/ UNCHANGED <<file, req, res>>
  <2>1. /\ pc[p] = "locked" /\ res[p] = NoAnswer /\ req[p].op # "read"
        /\ file' = file /\ req' = req /\ Path(p) = req[p].path
    BY <1>1, <1>7 DEF Compare, At, files, ProcsOK, Holding, Path
  <2> SUFFICES ASSUME ~MustWrite(req[p], file[Path(p)])
               PROVE  Abstract!Apply(p)
    BY <1>7, <2>1 DEF Compare
  <2>2. /\ ~MustWrite(req[p], file[Path(p)])
        /\ res' = [res EXCEPT ![p] = [status |-> "unchanged", value |-> file[Path(p)]]]
    BY <1>7 DEF Compare, Decide
  <2>3. Abstract!Undecided(p)
    BY <1>3, <2>1
  <2>4. req[p] \in Abstract!Command /\ file[Path(p)] \in Content
    BY <1>1, <2>1, HasCommand DEF TypeOK
  <2>5. /\ Abstract!Result(req[p], file[Path(p)]) = file[Path(p)]
        /\ Abstract!AnswerTo(req[p], file[Path(p)])
             = [status |-> "unchanged", value |-> file[Path(p)]]
    BY <2>1, <2>2, <2>4, SameDecision
  <2>6. file' = [file EXCEPT ![Path(p)] = Abstract!Result(req[p], file[Path(p)])]
    BY <1>1, <2>1, <2>5 DEF TypeOK
  <2> QED
    BY <2>1, <2>2, <2>3, <2>5, <2>6 DEF Abstract!Apply
<1>8. ASSUME NEW p \in Procs, Write(p) PROVE Abstract!Apply(p)
  <2>1. /\ pc[p] = "write" /\ res[p] = NoAnswer /\ req[p].op # "read"
        /\ req' = req /\ Path(p) = req[p].path
        /\ file' = [file EXCEPT ![Path(p)] = NewContent(p)]
        /\ res' = [res EXCEPT ![p] = [status |-> "changed", value |-> NewContent(p)]]
        /\ MustWrite(req[p], file[Path(p)])
    BY <1>1, <1>8 DEF Write, At, Decide, ProcsOK, Compared, Holding, Path
  <2>2. Abstract!Undecided(p)
    BY <1>3, <2>1
  <2>3. req[p] \in Abstract!Command /\ file[Path(p)] \in Content
    BY <1>1, <2>1, HasCommand DEF TypeOK
  <2>4. Abstract!Changes(req[p], file[Path(p)])
    BY <2>1, <2>3, SameDecision
  <2>5. /\ Abstract!Result(req[p], file[Path(p)]) = NewContent(p)
        /\ Abstract!AnswerTo(req[p], file[Path(p)])
             = [status |-> "changed", value |-> NewContent(p)]
    BY <2>4 DEF Abstract!Result, Abstract!AnswerTo, NewContent
  <2> QED
    BY <2>1, <2>2, <2>5 DEF Abstract!Apply
<1>9. ASSUME NEW p \in Procs, pc[p] # "idle", res[p] = NoAnswer, Error(p), UNCHANGED <<file, req>>
      PROVE  Abstract!Fail(p)
  BY <1>3, <1>9 DEF Error, Decide, Abstract!Fail
<1>10. ASSUME NEW p \in Procs, Inspect(p) PROVE Abstract!Fail(p) \/ UNCHANGED <<file, req, res>>
  <2>1. pc[p] # "idle" /\ res[p] = NoAnswer /\ UNCHANGED <<file, req>>
    BY <1>1, <1>10 DEF Inspect, At, files, ProcsOK, Waiting
  <2> QED
    BY <1>9, <1>10, <2>1 DEF Inspect
<1>11. ASSUME NEW p \in Procs, WriteFails(p) PROVE Abstract!Fail(p)
  <2>1. pc[p] # "idle" /\ res[p] = NoAnswer /\ UNCHANGED <<file, req>> /\ Error(p)
    BY <1>1, <1>11 DEF WriteFails, At, files, ProcsOK
  <2> QED
    BY <1>9, <2>1
<1>12. ASSUME NEW p \in Procs, PrintAnswer(p) \/ Release(p) \/ Crash(p) PROVE Abstract!End(p)
  BY <1>5, <1>12 DEF PrintAnswer, Release, Crash, At
<1>13. ASSUME NEW p \in Procs,
              \/ CreateLock(p) \/ RemoveStale(p) \/ AppendLog(p) \/ LoadIndex(p)
              \/ EmitRow(p) \/ EmitFails(p) \/ SaveIndex(p)
       PROVE  UNCHANGED <<file, req, res>>
  BY <1>13 DEF CreateLock, RemoveStale, AppendLog, LoadIndex, EmitRow, EmitFails, SaveIndex, files
<1>14. ASSUME Elapse \/ UNCHANGED vars PROVE UNCHANGED <<file, req, res>>
  BY <1>14 DEF Elapse, vars, files
<1>15. ASSUME NEW p \in Procs, Step(p)
       PROVE  Abstract!Apply(p) \/ Abstract!Fail(p) \/ Abstract!End(p) \/ UNCHANGED <<file, req, res>>
  BY <1>6, <1>7, <1>8, <1>10, <1>11, <1>12, <1>13, <1>15 DEF Step
<1>16. Abstract!Next \/ UNCHANGED <<file, req, res>>
  <2>1. CASE \E p \in Procs : (\E r \in Requests : Issue(p, r)) \/ Step(p) \/ Crash(p)
    BY <1>4, <1>12, <1>15, <2>1 DEF Abstract!Next
  <2>2. CASE Elapse \/ UNCHANGED vars
    BY <1>14, <2>2
  <2> QED
    BY <2>1, <2>2 DEF Next
<1> QED
  BY <1>16 DEF Abstract!vars

-----------------------------------------------------------------------------
(* No entry of the pointer index lacks its row, whatever processes read    *)
(* and write the index at the same time, die or fail to write, and         *)
(* although locks are taken over.                                          *)
THEOREM IndexBacked == Spec => []IndexHasRows
<1>1. IndexInv => IndexHasRows
  BY DEF IndexInv
<1> QED
  BY <1>1, InitIndex, NextIndex, PTL DEF Spec

(* Without takeovers a path has one holder of its lock, whose lock file is *)
(* there, whatever dies and leaks.                                         *)
THEOREM LockExclusive ==
    ASSUME MaxAge <= Stale
    PROVE  Spec => []MutualExclusion
<1>1. LockInv /\ [Next]_vars => LockInv'
  BY NextLock
<1>2. LockInv => MutualExclusion
  BY DEF LockInv
<1> QED
  BY <1>1, <1>2, InitLock, PTL DEF Spec

(* Without takeovers the mutation log gets a path's changes in the order   *)
(* they are made: a row that changes what the log says of a path states    *)
(* what its file holds.                                                    *)
THEOREM LogInOrder ==
    ASSUME MaxAge <= Stale
    PROVE  Spec => LogFollowsFile
<1>1. LockInv /\ [Next]_vars => LockInv'
  BY NextLock
<1>2. ASSUME LockInv, [Next]_vars
      PROVE  [\A x \in Paths : logged'[x] # logged[x] => logged'[x] = file[x]]_vars
  <2>1. ASSUME NEW p \in Procs, AppendLog(p), NEW x \in Paths, logged'[x] # logged[x]
        PROVE  logged'[x] = file[x]
    <3>1. /\ pc[p] = "log" /\ file[Path(p)] = NewContent(p)
          /\ logged' = [logged EXCEPT ![Path(p)] = NewContent(p)]
          /\ logged \in [Paths -> Content]
      BY <1>2, <2>1 DEF AppendLog, At, LockInv, IndexInv, Written, TypeOK
    <3> QED
      BY <2>1, <3>1
  <2>2. (\E p \in Procs : AppendLog(p)) \/ logged' = logged
    BY <1>2 DEF Next, Step, Issue, ReadJson, PrintAnswer, Forget, CreateLock, Inspect,
                RemoveStale, Compare, Write, WriteFails, LoadIndex, EmitRow, EmitFails,
                SaveIndex, Release, Crash, Elapse, files, vars
  <2> QED
    BY <2>1, <2>2
<1> QED
  BY <1>1, <1>2, InitLock, PTL DEF Spec, LogFollowsFile

(* Without takeovers the store implements AtomicStore: every set-json,     *)
(* ensure-json, delete-path and read-json takes effect at one instant or   *)
(* fails without effect.                                                   *)
THEOREM StoreAtomic ==
    ASSUME MaxAge <= Stale
    PROVE  Spec => Atomic
<1>1. Init => Abstract!Init
  BY DEF Init, Abstract!Init, NoRequest, NoAnswer, Abstract!NoRequest, Abstract!NoAnswer
<1>2. LockInv /\ [Next]_vars => LockInv'
  BY NextLock
<1>3. LockInv /\ [Next]_vars => [Abstract!Next]_(Abstract!vars)
  BY NextAtomic
<1> QED
  BY <1>1, <1>2, <1>3, InitLock, PTL DEF Spec, Atomic, Abstract!Spec
=============================================================================
