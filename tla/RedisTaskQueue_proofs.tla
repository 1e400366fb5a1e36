----------------------- MODULE RedisTaskQueue_proofs -----------------------
(***************************************************************************)
(* Proofs about RedisTaskQueue, for every set of workers, every finite set *)
(* of tasks and every number of attempts and faults: what its invariants   *)
(* say, and that it implements TaskQueue.                                  *)
(***************************************************************************)
EXTENDS RedisTaskQueue, FiniteSetTheorems, TLAPS

USE DEF Holding, InGap, InFlight, PCs

-----------------------------------------------------------------------------
(* The orders of a Lua loop *)

\* An ordering of a finite set is a sequence that lists each member once.
LEMMA OrderingFacts ==
  ASSUME NEW S, IsFiniteSet(S), NEW s \in Orderings(S)
  PROVE  /\ s \in Seq(S)
         /\ \A i \in 1 .. Len(s) : s[i] \in S
         /\ \A x \in S : \E i \in 1 .. Len(s) : s[i] = x
         /\ \A i, j \in 1 .. Len(s) : s[i] = s[j] => i = j
<1>1. Cardinality(S) \in Nat
  BY FS_CardinalityType
<1>2. s \in [1 .. Cardinality(S) -> S]
  BY DEF Orderings
<1>3. s \in Seq(S) /\ Len(s) = Cardinality(S)
  BY <1>1, <1>2
<1> QED
  BY <1>2, <1>3 DEF Orderings

\* The reaper appends one copy of each stale task to the list.
LEMMA RequeuedFacts ==
  ASSUME QueueAssumption, TypeOK, NEW order \in Orderings(Stale)
  PROVE  /\ Requeued(order) \in Seq(Copy)
         /\ Len(Requeued(order)) = Len(pending) + Len(order)
         /\ \A i \in 1 .. Len(pending) : Requeued(order)[i] = pending[i]
         /\ \A i \in 1 .. Len(order) :
              /\ Requeued(order)[Len(pending) + i].id = order[i]
              /\ Requeued(order)[Len(pending) + i].attempts = running[order[i]].attempts
<1> DEFINE ext == [i \in 1 .. Len(order) |->
                     [id |-> order[i], attempts |-> running[order[i]].attempts]]
<1>1. IsFiniteSet(Stale) /\ Stale \subseteq Tasks
  BY FS_Subset DEF QueueAssumption, Stale
<1>2. order \in Seq(Stale) /\ \A i \in 1 .. Len(order) : order[i] \in Stale
  BY <1>1, OrderingFacts
<1>3. Len(order) \in Nat
  BY <1>2
<1>4. \A i \in 1 .. Len(order) : ext[i] \in Copy
  BY <1>1, <1>2 DEF TypeOK, Entry, Copy
<1>5. ext \in Seq(Copy) /\ Len(ext) = Len(order)
  BY <1>3, <1>4
<1>6. pending \in Seq(Copy)
  BY DEF TypeOK
<1>7. Requeued(order) = pending \o ext
  BY DEF Requeued
<1> HIDE DEF ext
<1>8. /\ pending \o ext \in Seq(Copy)
      /\ Len(pending \o ext) = Len(pending) + Len(ext)
      /\ \A i \in 1 .. Len(pending) : (pending \o ext)[i] = pending[i]
      /\ \A i \in 1 .. Len(ext) : (pending \o ext)[Len(pending) + i] = ext[i]
  BY <1>5, <1>6
<1> QED
  BY <1>3, <1>5, <1>7, <1>8 DEF ext

\* The promotion appends one copy of each retry that is due to the list.
LEMMA PromotedFacts ==
  ASSUME QueueAssumption, TypeOK, NEW order \in Orderings(Due)
  PROVE  /\ Promoted(order) \in Seq(Copy)
         /\ Len(Promoted(order)) = Len(pending) + Len(order)
         /\ \A i \in 1 .. Len(pending) : Promoted(order)[i] = pending[i]
         /\ \A i \in 1 .. Len(order) :
              /\ Promoted(order)[Len(pending) + i].id = order[i].id
              /\ Promoted(order)[Len(pending) + i].attempts = order[i].attempts
<1> DEFINE ext == [i \in 1 .. Len(order) |->
                     [id |-> order[i].id, attempts |-> order[i].attempts]]
<1>1. IsFiniteSet(Due) /\ Due \subseteq Delayed
  BY FS_Subset DEF TypeOK, Due
<1>2. order \in Seq(Due) /\ \A i \in 1 .. Len(order) : order[i] \in Due
  BY <1>1, OrderingFacts
<1>3. Len(order) \in Nat
  BY <1>2
<1>4. \A i \in 1 .. Len(order) : ext[i] \in Copy
  BY <1>1, <1>2 DEF Delayed, Copy
<1>5. ext \in Seq(Copy) /\ Len(ext) = Len(order)
  BY <1>3, <1>4
<1>6. pending \in Seq(Copy)
  BY DEF TypeOK
<1>7. Promoted(order) = pending \o ext
  BY DEF Promoted
<1> HIDE DEF ext
<1>8. /\ pending \o ext \in Seq(Copy)
      /\ Len(pending \o ext) = Len(pending) + Len(ext)
      /\ \A i \in 1 .. Len(pending) : (pending \o ext)[i] = pending[i]
      /\ \A i \in 1 .. Len(ext) : (pending \o ext)[Len(pending) + i] = ext[i]
  BY <1>5, <1>6
<1> QED
  BY <1>3, <1>5, <1>7, <1>8 DEF ext

-----------------------------------------------------------------------------
(* Type correctness *)

\* The types hold at first.
LEMMA TypeInit ==
  ASSUME QueueAssumption, Init
  PROVE  TypeOK
<1>1. pending \in Seq(Copy)
  BY DEF Init
<1>2. running \in [Tasks -> Entry]
  BY DEF Init, Entry, Absent
<1>3. IsFiniteSet(retry)
  BY FS_EmptySet DEF Init
<1> QED
  BY <1>1, <1>2, <1>3 DEF Init, TypeOK, QueueAssumption

\* The value of a task without a record is an entry.
LEMMA AbsentEntry == Absent \in Entry
BY DEF Absent, Entry

\* What HDEL does to the types, when it succeeds and when it fails.
LEMMA UntrackType ==
  ASSUME QueueAssumption, TypeOK, NEW t \in Tasks, Untrack(t)
  PROVE  running' \in [Tasks -> Entry] /\ faults' \in 0 .. MaxFaults
<1>1. running \in [Tasks -> Entry] /\ faults \in 0 .. MaxFaults
  BY DEF TypeOK
<1>2. running' = [running EXCEPT ![t] = Absent] \/ running' = running
  BY DEF Untrack
<1>3. running' \in [Tasks -> Entry]
  BY <1>1, <1>2, AbsentEntry
<1> QED
  BY <1>1, <1>3 DEF Untrack, Fault, NoFault, QueueAssumption

\* A step keeps every structure in its type.
LEMMA TypeStep ==
  ASSUME QueueAssumption, TypeOK, [Next]_vars
  PROVE  TypeOK'
<1> USE QueueAssumption DEF QueueAssumption
<1> USE DEF redis, worker, history, vars, NoFault, Fault, Goto, Release
<1>1. ASSUME NEW t \in Tasks, Enqueue(t)
      PROVE  TypeOK'
  <2>1. [id |-> t, attempts |-> 0] \in Copy
    BY DEF Copy
  <2>2. pending \in Seq(Copy)
    BY DEF TypeOK
  <2>4. pending' = Append(pending, [id |-> t, attempts |-> 0]) \/ pending' = pending
    BY <1>1 DEF Enqueue
  <2>5. pending' \in Seq(Copy)
    BY <2>1, <2>2, <2>4
  <2>3. faults' \in 0 .. MaxFaults
    BY <1>1 DEF Enqueue, TypeOK
  <2> QED
    BY <1>1, <2>5, <2>3 DEF Enqueue, TypeOK
<1>2. ASSUME NEW t \in Tasks, GoStale(t) \/ Overrun(t)
      PROVE  TypeOK'
  <2>1. running \in [Tasks -> Entry]
    BY DEF TypeOK
  <2>2. [running[t] EXCEPT !.stale = TRUE] \in Entry
    BY <2>1 DEF Entry
  <2>3. running' = [running EXCEPT ![t] = [running[t] EXCEPT !.stale = TRUE]]
    BY <1>2 DEF GoStale, Overrun, Age
  <2>4. running' \in [Tasks -> Entry]
    BY <2>1, <2>2, <2>3
  <2>5. faults' \in 0 .. MaxFaults
    BY <1>2 DEF GoStale, Overrun, TypeOK
  <2> QED
    BY <1>2, <2>4, <2>5 DEF GoStale, Overrun, Age, TypeOK
<1>3. ASSUME NEW r \in retry, Mature(r)
      PROVE  TypeOK'
  <2>1. [r EXCEPT !.due = TRUE] \in Delayed
    BY DEF TypeOK, Delayed
  <2>2. retry' \subseteq Delayed
    BY <1>3, <2>1 DEF Mature, TypeOK
  <2>3. IsFiniteSet(retry \ {r})
    BY FS_Subset DEF TypeOK
  <2>4. IsFiniteSet(retry')
    BY <1>3, <2>3, FS_AddElement DEF Mature
  <2> QED
    BY <1>3, <2>2, <2>4 DEF Mature, TypeOK
<1>4. ASSUME NEW w \in Workers, Stop(w)
      PROVE  TypeOK'
  BY <1>4 DEF Stop, TypeOK
<1>5. ASSUME NEW w \in Workers, Leave(w)
      PROVE  TypeOK'
  BY <1>5 DEF Leave, TypeOK
<1>6. ASSUME NEW w \in Workers, ReapStale(w)
      PROVE  TypeOK'
  <2>1. pending' \in Seq(Copy)
    BY <1>6, RequeuedFacts DEF ReapStale, TypeOK
  <2>2. running' \in [Tasks -> Entry]
    <3>1. \/ running' = [t \in Tasks |-> IF t \in Stale THEN Absent ELSE running[t]]
          \/ running' = running
      BY <1>6 DEF ReapStale
    <3>2. running \in [Tasks -> Entry]
      BY DEF TypeOK
    <3> QED
      BY <3>1, <3>2, AbsentEntry
  <2>3. reaped' \in [Tasks -> Nat]
    <3>1. \/ reaped' = [t \in Tasks |-> IF t \in Stale THEN reaped[t] + 1 ELSE reaped[t]]
          \/ reaped' = reaped
      BY <1>6 DEF ReapStale
    <3>2. reaped \in [Tasks -> Nat]
      BY DEF TypeOK
    <3> QED
      BY <3>1, <3>2
  <2>4. faults' \in 0 .. MaxFaults
    BY <1>6 DEF ReapStale, TypeOK
  <2> QED
    BY <1>6, <2>1, <2>2, <2>3, <2>4 DEF ReapStale, TypeOK
<1>7. ASSUME NEW w \in Workers, PromoteRetries(w)
      PROVE  TypeOK'
  <2>1. pending' \in Seq(Copy)
    BY <1>7, PromotedFacts DEF PromoteRetries, TypeOK
  <2>2. retry' \subseteq Delayed /\ IsFiniteSet(retry')
    BY <1>7, FS_Subset DEF PromoteRetries, Unpromoted, TypeOK
  <2>3. faults' \in 0 .. MaxFaults
    BY <1>7 DEF PromoteRetries, TypeOK
  <2> QED
    BY <1>7, <2>1, <2>2, <2>3 DEF PromoteRetries, TypeOK
<1>8. ASSUME NEW w \in Workers, Pop(w)
      PROVE  TypeOK'
  <2>1. CASE pending = <<>>
    BY <1>8, <2>1 DEF Pop, TypeOK
  <2>2. CASE pending # <<>>
    <3>1. Head(pending) \in Copy /\ Tail(pending) \in Seq(Copy)
      BY <2>2 DEF TypeOK
    <3>2. Head(pending).id \in Tasks /\ Head(pending).attempts \in Nat
      BY <3>1 DEF Copy
    <3>3. [id |-> Head(pending).id, attempts |-> Head(pending).attempts + 1,
           claimed_at |-> clock + 1] \in Claim
      BY <3>2 DEF TypeOK, Claim
    <3> DEFINE claim == [id |-> Head(pending).id, attempts |-> Head(pending).attempts + 1,
                         claimed_at |-> clock + 1]
    <3>7. /\ pending' = pending \/ pending' = Tail(pending)
          /\ clock' = clock \/ clock' = clock + 1
          /\ gapped' = gapped \/ gapped' = gapped \cup {Head(pending).id}
          /\ \/ hand' = [hand EXCEPT ![w] = claim] /\ pc' = [pc EXCEPT ![w] = "popped"]
             \/ hand' = hand /\ pc' = [pc EXCEPT ![w] = "loop"]
      BY <1>8, <2>2 DEF Pop
    <3> HIDE DEF claim
    <3>8. claim \in Claim
      BY <3>3 DEF claim
    <3>9. pending \in Seq(Copy) /\ clock \in Nat /\ gapped \subseteq Tasks
      BY DEF TypeOK
    <3>4. pending' \in Seq(Copy) /\ clock' \in Nat /\ gapped' \subseteq Tasks
      <4>1. pending' \in Seq(Copy)
        BY <3>1, <3>7, <3>9
      <4>2. clock' \in Nat
        BY <3>7, <3>9
      <4>3. gapped' \subseteq Tasks
        BY <3>2, <3>7, <3>9
      <4> QED
        BY <4>1, <4>2, <4>3
    <3>5. faults' \in 0 .. MaxFaults
      BY <1>8, <2>2 DEF Pop, TypeOK
    <3>6. /\ pc' \in [Workers -> PCs] /\ hand' \in [Workers -> Claim \cup {NoTask}]
          /\ \A v \in Workers :
               IF pc'[v] \in Holding THEN hand'[v] \in Claim ELSE hand'[v] = NoTask
      <4>1. /\ pc \in [Workers -> PCs] /\ hand \in [Workers -> Claim \cup {NoTask}]
            /\ \A v \in Workers :
                 IF pc[v] \in Holding THEN hand[v] \in Claim ELSE hand[v] = NoTask
        BY DEF TypeOK
      <4>2. pc[w] = "pop"
        BY <1>8 DEF Pop
      <4> QED
        BY <3>7, <3>8, <4>1, <4>2
    <3> QED
      BY <1>8, <2>2, <3>4, <3>5, <3>6 DEF Pop, TypeOK
  <2> QED
    BY <2>1, <2>2
<1>9. ASSUME NEW w \in Workers, Track(w)
      PROVE  TypeOK'
  <2>1. hand[w] \in Claim
    BY <1>9 DEF Track, TypeOK
  <2>4. /\ hand[w].id \in Tasks
        /\ [attempts |-> hand[w].attempts, claimed_at |-> hand[w].claimed_at,
            stale |-> FALSE] \in Entry
    BY <2>1 DEF Claim, Entry
  <2>5. running \in [Tasks -> Entry]
    BY DEF TypeOK
  <2>2. hand[w].id \in Tasks /\ running' \in [Tasks -> Entry]
    BY <1>9, <2>4, <2>5 DEF Track, WithEntry
  <2>3. faults' \in 0 .. MaxFaults
    BY <1>9 DEF Track, TypeOK
  <2> QED
    BY <1>9, <2>1, <2>2, <2>3 DEF Track, TypeOK
<1>10. ASSUME NEW w \in Workers, Handle(w)
       PROVE  TypeOK'
  <2>1. hand[w] \in Claim
    BY <1>10 DEF Handle, TypeOK
  <2>2. hand[w].id \in Tasks
    BY <2>1 DEF Claim
  <2> QED
    BY <1>10, <2>1, <2>2 DEF Handle, TypeOK
<1>11. ASSUME NEW w \in Workers, Complete(w)
       PROVE  TypeOK'
  <2>2. hand[w].id \in Tasks
    BY <1>11 DEF Complete, TypeOK, Claim
  <2>1. running' \in [Tasks -> Entry] /\ faults' \in 0 .. MaxFaults
    BY <1>11, <2>2, UntrackType DEF Complete
  <2> QED
    BY <1>11, <2>1 DEF Complete, TypeOK
<1>12. ASSUME NEW w \in Workers, Fail(w)
       PROVE  TypeOK'
  <2>1. hand[w] \in Claim
    BY <1>12 DEF Fail, TypeOK
  <2>2. hand[w].id \in Tasks
    BY <2>1 DEF Claim
  <2>3. running' \in [Tasks -> Entry] /\ faults' \in 0 .. MaxFaults
    BY <1>12, <2>2, UntrackType DEF Fail
  <2> QED
    BY <1>12, <2>1, <2>2, <2>3 DEF Fail, TypeOK
<1>13. ASSUME NEW w \in Workers, Reschedule(w)
       PROVE  TypeOK'
  <2>1. hand[w] \in Claim
    BY <1>13 DEF Reschedule, TypeOK
  <2>2. /\ hand[w].id \in Tasks
        /\ [id |-> hand[w].id, attempts |-> hand[w].attempts,
            claimed_at |-> hand[w].claimed_at, due |-> FALSE] \in Delayed
    BY <2>1 DEF Claim, Delayed
  <2>5. retry' \subseteq Delayed
    BY <1>13, <2>2 DEF Reschedule, TypeOK
  <2>6. IsFiniteSet(retry')
    <3>1. IsFiniteSet(retry)
      BY DEF TypeOK
    <3>2. retry' = retry \/ \E r : retry' = retry \cup {r}
      BY <1>13 DEF Reschedule
    <3> QED
      BY <3>1, <3>2, FS_AddElement
  <2>3. retry' \subseteq Delayed /\ IsFiniteSet(retry')
    BY <2>5, <2>6
  <2>4. faults' \in 0 .. MaxFaults
    BY <1>13 DEF Reschedule, TypeOK
  <2> QED
    BY <1>13, <2>2, <2>3, <2>4 DEF Reschedule, TypeOK
<1>14. ASSUME NEW w \in Workers, Crash(w)
       PROVE  TypeOK'
  <2>1. pc[w] \in InGap => hand[w].id \in Tasks
    BY DEF TypeOK, Claim
  <2> QED
    BY <1>14, <2>1 DEF Crash, TypeOK
<1>15. ASSUME NEW w \in Workers, Restart(w)
       PROVE  TypeOK'
  BY <1>15 DEF Restart, TypeOK
<1>16. CASE UNCHANGED vars
  BY <1>16 DEF TypeOK
<1> QED
  BY <1>1, <1>2, <1>3, <1>4, <1>5, <1>6, <1>7, <1>8, <1>9, <1>10, <1>11, <1>12,
     <1>13, <1>14, <1>15, <1>16 DEF Next, Loop

\* The queue's structures keep their shape, and a worker holds a task exactly
\* between its pop and the end of its complete, fail or failed claim.
THEOREM TypeCorrect == Spec => []TypeOK
<1>1. QueueAssumption
  BY QueueAssumption
<1> QED
  BY <1>1, TypeInit, TypeStep, PTL DEF Spec

-----------------------------------------------------------------------------
(* What the scripts add to the list *)

\* After a reap the list holds its old members where they were, and behind them
\* the stale entries and nothing else.
LEMMA RequeuedRange ==
  ASSUME QueueAssumption, TypeOK, NEW order \in Orderings(Stale)
  PROVE  /\ \A i \in 1 .. Len(pending) :
              i \in 1 .. Len(Requeued(order)) /\ Requeued(order)[i] = pending[i]
         /\ \A i \in 1 .. Len(Requeued(order)) :
              \/ i \in 1 .. Len(pending)
              \/ /\ Requeued(order)[i].id \in Stale
                 /\ Requeued(order)[i].attempts = running[Requeued(order)[i].id].attempts
         /\ \A t \in Stale : \E i \in 1 .. Len(Requeued(order)) : Requeued(order)[i].id = t
<1>1. IsFiniteSet(Stale)
  BY FS_Subset DEF QueueAssumption, Stale
<1>2. /\ Len(order) \in Nat /\ Len(pending) \in Nat
      /\ \A i \in 1 .. Len(order) : order[i] \in Stale
      /\ \A x \in Stale : \E i \in 1 .. Len(order) : order[i] = x
  BY <1>1, OrderingFacts DEF TypeOK
<1>3. /\ Len(Requeued(order)) = Len(pending) + Len(order)
      /\ \A i \in 1 .. Len(pending) : Requeued(order)[i] = pending[i]
      /\ \A i \in 1 .. Len(order) :
           /\ Requeued(order)[Len(pending) + i].id = order[i]
           /\ Requeued(order)[Len(pending) + i].attempts = running[order[i]].attempts
  BY RequeuedFacts
<1>4. ASSUME NEW i \in 1 .. Len(Requeued(order)), i \notin 1 .. Len(pending)
      PROVE  /\ Requeued(order)[i].id \in Stale
             /\ Requeued(order)[i].attempts = running[Requeued(order)[i].id].attempts
  <2>1. PICK k \in 1 .. Len(order) : i = Len(pending) + k
    <3>1. i - Len(pending) \in 1 .. Len(order) /\ i = Len(pending) + (i - Len(pending))
      BY <1>2, <1>3, <1>4
    <3> QED
      BY <3>1
  <2> QED
    BY <1>2, <1>3, <2>1
<1>5. ASSUME NEW t \in Stale
      PROVE  \E i \in 1 .. Len(Requeued(order)) : Requeued(order)[i].id = t
  <2>1. PICK k \in 1 .. Len(order) : order[k] = t
    BY <1>2
  <2>2. Len(pending) + k \in 1 .. Len(Requeued(order))
    BY <1>2, <1>3
  <2> QED
    BY <1>3, <2>1, <2>2
<1> QED
  BY <1>2, <1>3, <1>4, <1>5

\* After a promotion the list holds its old members where they were, and behind
\* them the members of retry that were due, each once.
LEMMA PromotedRange ==
  ASSUME QueueAssumption, TypeOK, NEW order \in Orderings(Due)
  PROVE  /\ \A i \in 1 .. Len(pending) :
              i \in 1 .. Len(Promoted(order)) /\ Promoted(order)[i] = pending[i]
         /\ \A i \in 1 .. Len(Promoted(order)) :
              \/ i \in 1 .. Len(pending)
              \/ \E r \in Due : /\ Promoted(order)[i].id = r.id
                                /\ Promoted(order)[i].attempts = r.attempts
         /\ \A r \in Due : \E i \in 1 .. Len(Promoted(order)) :
              Promoted(order)[i].id = r.id /\ Promoted(order)[i].attempts = r.attempts
         /\ \A t : (\A r, q \in Due : r.id = t /\ q.id = t => r = q) =>
              \A i, j \in (1 .. Len(Promoted(order))) \ (1 .. Len(pending)) :
                Promoted(order)[i].id = t /\ Promoted(order)[j].id = t => i = j
<1>1. IsFiniteSet(Due)
  BY FS_Subset DEF TypeOK, Due
<1>2. /\ Len(order) \in Nat /\ Len(pending) \in Nat
      /\ \A i \in 1 .. Len(order) : order[i] \in Due
      /\ \A x \in Due : \E i \in 1 .. Len(order) : order[i] = x
      /\ \A i, j \in 1 .. Len(order) : order[i] = order[j] => i = j
  BY <1>1, OrderingFacts DEF TypeOK
<1>3. /\ Len(Promoted(order)) = Len(pending) + Len(order)
      /\ \A i \in 1 .. Len(pending) : Promoted(order)[i] = pending[i]
      /\ \A i \in 1 .. Len(order) :
           /\ Promoted(order)[Len(pending) + i].id = order[i].id
           /\ Promoted(order)[Len(pending) + i].attempts = order[i].attempts
  BY PromotedFacts
<1>4. ASSUME NEW i \in 1 .. Len(Promoted(order)), i \notin 1 .. Len(pending)
      PROVE  \E k \in 1 .. Len(order) : i = Len(pending) + k
  <2>1. i - Len(pending) \in 1 .. Len(order) /\ i = Len(pending) + (i - Len(pending))
    BY <1>2, <1>3, <1>4
  <2> QED
    BY <2>1
<1>5. ASSUME NEW i \in 1 .. Len(Promoted(order)), i \notin 1 .. Len(pending)
      PROVE  \E r \in Due : /\ Promoted(order)[i].id = r.id
                            /\ Promoted(order)[i].attempts = r.attempts
  <2>1. PICK k \in 1 .. Len(order) : i = Len(pending) + k
    BY <1>4, <1>5
  <2>2. order[k] \in Due /\ Promoted(order)[i].id = order[k].id
        /\ Promoted(order)[i].attempts = order[k].attempts
    BY <1>2, <1>3, <2>1
  <2> QED
    BY <2>2
<1>6. ASSUME NEW r \in Due
      PROVE  \E i \in 1 .. Len(Promoted(order)) :
               Promoted(order)[i].id = r.id /\ Promoted(order)[i].attempts = r.attempts
  <2>1. PICK k \in 1 .. Len(order) : order[k] = r
    BY <1>2
  <2>2. Len(pending) + k \in 1 .. Len(Promoted(order))
    BY <1>2, <1>3
  <2> QED
    BY <1>3, <2>1, <2>2
<1>7. ASSUME NEW t, \A r, q \in Due : r.id = t /\ q.id = t => r = q,
             NEW i \in (1 .. Len(Promoted(order))) \ (1 .. Len(pending)),
             NEW j \in (1 .. Len(Promoted(order))) \ (1 .. Len(pending)),
             Promoted(order)[i].id = t, Promoted(order)[j].id = t
      PROVE  i = j
  <2>1. PICK k \in 1 .. Len(order) : i = Len(pending) + k
    BY <1>4
  <2>2. PICK l \in 1 .. Len(order) : j = Len(pending) + l
    BY <1>4
  <2>3. order[k] \in Due /\ order[l] \in Due /\ order[k].id = t /\ order[l].id = t
    BY <1>2, <1>3, <1>7, <2>1, <2>2
  <2>4. order[k] = order[l]
    BY <1>7, <2>3
  <2> QED
    BY <1>2, <2>1, <2>2, <2>4
<1> QED
  BY <1>2, <1>3, <1>5, <1>6, <1>7

\* An enqueued task is the last of the list; a popped one was the first.
LEMMA EndsOfList ==
  ASSUME NEW S, NEW seq \in Seq(S)
  PROVE  /\ \A x \in S : /\ Len(Append(seq, x)) = Len(seq) + 1
                         /\ Append(seq, x)[Len(seq) + 1] = x
                         /\ \A i \in 1 .. Len(seq) : Append(seq, x)[i] = seq[i]
         /\ seq # <<>> =>
              /\ 1 \in 1 .. Len(seq) /\ Head(seq) = seq[1] /\ seq[1] \in S
              /\ Len(Tail(seq)) = Len(seq) - 1
              /\ \A i \in 1 .. Len(Tail(seq)) :
                   i + 1 \in 1 .. Len(seq) /\ Tail(seq)[i] = seq[i + 1]
              /\ \A i \in 1 .. Len(seq) :
                   i = 1 \/ (i - 1 \in 1 .. Len(Tail(seq)) /\ Tail(seq)[i - 1] = seq[i])
<1>1. ASSUME NEW x \in S
      PROVE  /\ Len(Append(seq, x)) = Len(seq) + 1
             /\ Append(seq, x)[Len(seq) + 1] = x
             /\ \A i \in 1 .. Len(seq) : Append(seq, x)[i] = seq[i]
  OBVIOUS
<1>2. ASSUME seq # <<>>
      PROVE  /\ 1 \in 1 .. Len(seq) /\ Head(seq) = seq[1] /\ seq[1] \in S
             /\ Len(Tail(seq)) = Len(seq) - 1 /\ Len(seq) \in Nat
  BY <1>2
<1>3. ASSUME seq # <<>>, NEW i \in 1 .. Len(Tail(seq))
      PROVE  i + 1 \in 1 .. Len(seq) /\ Tail(seq)[i] = seq[i + 1]
  BY <1>2, <1>3
<1>4. ASSUME seq # <<>>, NEW i \in 1 .. Len(seq), i # 1
      PROVE  i - 1 \in 1 .. Len(Tail(seq)) /\ Tail(seq)[i - 1] = seq[i]
  <2>1. i - 1 \in 1 .. Len(Tail(seq)) /\ (i - 1) + 1 = i
    BY <1>2, <1>4
  <2> QED
    BY <1>3, <1>4, <2>1
<1> QED
  BY <1>1, <1>2, <1>3, <1>4

-----------------------------------------------------------------------------
(* The budget of attempts *)

\* No attempt is spent at first.
LEMMA BudgetInit ==
  ASSUME QueueAssumption, Init
  PROVE  RetryBudget
BY DEF Init, RetryBudget, QueueAssumption, Absent

\* An entry that is deleted owes nothing to the budget.
LEMMA UntrackBudget ==
  ASSUME running \in [Tasks -> Entry], NEW t \in Tasks, Untrack(t)
  PROVE  \A u \in Tasks : running'[u].attempts = 0 \/ running'[u].attempts = running[u].attempts
BY DEF Untrack, Absent

\* Every step keeps attempts within the budget.
LEMMA BudgetStep ==
  ASSUME QueueAssumption, TypeOK, TypeOK', RetryBudget, [Next]_vars
  PROVE  RetryBudget'
<1> USE DEF redis, worker, history, vars, NoFault, Fault, Goto, Release
<1>a. MaxAttempts \in Nat /\ MaxAttempts > 0 /\ reaped \in [Tasks -> Nat]
  BY DEF QueueAssumption, TypeOK
<1>b. /\ pending \in Seq(Copy) /\ Len(pending) \in Nat
      /\ \A i \in 1 .. Len(pending) : pending[i].id \in Tasks /\ pending[i].attempts \in Nat
  <2>1. pending \in Seq(Copy) /\ Len(pending) \in Nat
    BY DEF TypeOK
  <2>2. \A i \in 1 .. Len(pending) : pending[i] \in Copy
    BY <2>1
  <2> QED
    BY <2>1, <2>2 DEF Copy
<1>c. \A r \in retry : r.id \in Tasks /\ r.attempts \in Nat
  BY DEF TypeOK, Delayed
<1>d. \A t \in Tasks : running[t].attempts \in Nat
  BY DEF TypeOK, Entry
<1>e. \A w \in Workers : pc[w] \in Holding => hand[w].id \in Tasks /\ hand[w].attempts \in Nat
  BY DEF TypeOK, Claim
<1>f. pc \in [Workers -> PCs] /\ hand \in [Workers -> Claim \cup {NoTask}]
  BY DEF TypeOK
<1>g. running \in [Tasks -> Entry]
  BY DEF TypeOK
<1>1. ASSUME NEW t \in Tasks, Enqueue(t)
      PROVE  RetryBudget'
  <2>1. \/ pending' = pending
        \/ pending' = Append(pending, [id |-> t, attempts |-> 0])
    BY <1>1 DEF Enqueue
  <2>2. [id |-> t, attempts |-> 0] \in Copy
    BY DEF Copy
  <2>3. ASSUME pending' = Append(pending, [id |-> t, attempts |-> 0]),
               NEW i \in 1 .. Len(pending')
        PROVE  pending'[i].attempts < MaxAttempts + reaped[pending'[i].id]
    <3>1. CASE i \in 1 .. Len(pending)
      BY <1>b, <2>2, <2>3, <3>1, EndsOfList DEF RetryBudget
    <3>2. CASE i = Len(pending) + 1
      <4>1. pending'[i] = [id |-> t, attempts |-> 0]
        BY <1>b, <2>2, <2>3, <3>2, EndsOfList
      <4>2. reaped[t] \in Nat
        BY <1>a
      <4> QED
        BY <1>a, <4>1, <4>2
    <3> QED
      BY <1>b, <2>2, <2>3, <3>1, <3>2, EndsOfList
  <2>4. \A i \in 1 .. Len(pending') : pending'[i].attempts < MaxAttempts + reaped[pending'[i].id]
    BY <2>1, <2>3 DEF RetryBudget
  <2> QED
    BY <1>1, <2>4 DEF Enqueue, RetryBudget
<1>2. ASSUME NEW t \in Tasks, GoStale(t) \/ Overrun(t)
      PROVE  RetryBudget'
  <2>1. \A u \in Tasks : running'[u].attempts = running[u].attempts
    BY <1>2, <1>g DEF GoStale, Overrun, Age, Entry
  <2> QED
    BY <1>2, <2>1 DEF GoStale, Overrun, Age, RetryBudget
<1>3. ASSUME NEW r \in retry, Mature(r)
      PROVE  RetryBudget'
  <2>1. \A q \in retry' : \E p \in retry : q.id = p.id /\ q.attempts = p.attempts
    BY <1>3 DEF Mature, TypeOK, Delayed
  <2> QED
    BY <1>3, <2>1 DEF Mature, RetryBudget
<1>4. ASSUME NEW w \in Workers, Stop(w)
      PROVE  RetryBudget'
  BY <1>4 DEF Stop, RetryBudget
<1>5. ASSUME NEW w \in Workers, Leave(w)
      PROVE  RetryBudget'
  BY <1>5, <1>f DEF Leave, RetryBudget
<1>6. ASSUME NEW w \in Workers, ReapStale(w)
      PROVE  RetryBudget'
  <2>1. CASE UNCHANGED <<pending, running, reaped>>
    BY <1>6, <1>f, <2>1 DEF ReapStale, RetryBudget
  <2>2. CASE ~ UNCHANGED <<pending, running, reaped>>
    <3>1. PICK order \in Orderings(Stale) : pending' = Requeued(order)
      BY <1>6, <2>2 DEF ReapStale
    <3>2. /\ running' = [t \in Tasks |-> IF t \in Stale THEN Absent ELSE running[t]]
          /\ reaped' = [t \in Tasks |-> IF t \in Stale THEN reaped[t] + 1 ELSE reaped[t]]
          /\ UNCHANGED <<retry, hand>> /\ pc' = [pc EXCEPT ![w] = "promote"]
          /\ pc[w] = "loop"
      BY <1>6, <2>2 DEF ReapStale
    <3>3. /\ \A t \in Tasks : reaped'[t] \in Nat /\ reaped'[t] >= reaped[t] /\ reaped[t] \in Nat
          /\ \A t \in Stale : t \in Tasks /\ reaped'[t] = reaped[t] + 1
      BY <3>2, <1>a DEF Stale
    <3>4. ASSUME NEW i \in 1 .. Len(pending')
          PROVE  pending'[i].attempts < MaxAttempts + reaped'[pending'[i].id]
      <4>1. CASE i \in 1 .. Len(pending)
        <5>1. pending'[i] = pending[i]
          BY <3>1, <4>1, RequeuedRange
        <5>2. pending[i].attempts < MaxAttempts + reaped[pending[i].id]
          BY <4>1 DEF RetryBudget
        <5> QED
          BY <1>a, <1>b, <3>3, <4>1, <5>1, <5>2
      <4>2. CASE i \notin 1 .. Len(pending)
        <5>1. /\ pending'[i].id \in Stale
              /\ pending'[i].attempts = running[pending'[i].id].attempts
          BY <3>1, <4>2, RequeuedRange
        <5>2. running[pending'[i].id].attempts <= MaxAttempts + reaped[pending'[i].id]
          BY <3>3, <5>1 DEF RetryBudget
        <5> QED
          BY <1>a, <1>d, <3>3, <5>1, <5>2
      <4> QED
        BY <4>1, <4>2
    <3>5. \A r \in retry' : r.attempts < MaxAttempts + reaped'[r.id]
      BY <1>a, <1>c, <3>2, <3>3 DEF RetryBudget
    <3>6. \A t \in Tasks : running'[t].attempts <= MaxAttempts + reaped'[t]
      BY <1>a, <1>d, <3>2, <3>3 DEF RetryBudget, Absent
    <3>7. \A v \in Workers : pc'[v] \in Holding =>
            hand'[v].attempts <= MaxAttempts + reaped'[hand'[v].id]
      BY <1>a, <1>e, <1>f, <3>2, <3>3 DEF RetryBudget
    <3>8. \A v \in Workers : pc'[v] = "rescheduling" =>
            hand'[v].attempts < MaxAttempts + reaped'[hand'[v].id]
      BY <1>a, <1>e, <1>f, <3>2, <3>3 DEF RetryBudget
    <3> QED
      BY <3>4, <3>5, <3>6, <3>7, <3>8 DEF RetryBudget
  <2> QED
    BY <2>1, <2>2
<1>7. ASSUME NEW w \in Workers, PromoteRetries(w)
      PROVE  RetryBudget'
  <2>1. CASE UNCHANGED <<pending, retry>>
    BY <1>7, <1>f, <2>1 DEF PromoteRetries, RetryBudget
  <2>2. CASE ~ UNCHANGED <<pending, retry>>
    <3>1. PICK order \in Orderings(Due) : pending' = Promoted(order)
      BY <1>7, <2>2 DEF PromoteRetries
    <3>2. retry' \subseteq retry
      BY <1>7, <2>2 DEF PromoteRetries, Unpromoted
    <3>3. ASSUME NEW i \in 1 .. Len(pending')
          PROVE  pending'[i].attempts < MaxAttempts + reaped[pending'[i].id]
      <4>1. CASE i \in 1 .. Len(pending)
        <5>1. pending'[i] = pending[i]
          BY <3>1, <4>1, PromotedRange
        <5> QED
          BY <4>1, <5>1 DEF RetryBudget
      <4>2. CASE i \notin 1 .. Len(pending)
        <5>1. PICK r \in Due : pending'[i].id = r.id /\ pending'[i].attempts = r.attempts
          BY <3>1, <4>2, PromotedRange
        <5> QED
          BY <5>1 DEF RetryBudget, Due
      <4> QED
        BY <4>1, <4>2
    <3> QED
      BY <1>7, <1>f, <3>2, <3>3 DEF PromoteRetries, RetryBudget
  <2> QED
    BY <2>1, <2>2
<1>8. ASSUME NEW w \in Workers, Pop(w)
      PROVE  RetryBudget'
  <2>1. CASE pending' = pending
    <3>1. UNCHANGED <<retry, running, reaped, hand>> /\ pc' = [pc EXCEPT ![w] = "loop"]
      BY <1>8, <1>b, <2>1, EndsOfList DEF Pop
    <3> QED
      BY <1>f, <2>1, <3>1 DEF RetryBudget
  <2>2. CASE pending' # pending
    <3>1. /\ pending # <<>> /\ pending' = Tail(pending) /\ UNCHANGED <<retry, running, reaped>>
          /\ \/ /\ hand' = [hand EXCEPT ![w] = [id |-> Head(pending).id,
                                                attempts |-> Head(pending).attempts + 1,
                                                claimed_at |-> clock + 1]]
                /\ pc' = [pc EXCEPT ![w] = "popped"]
             \/ hand' = hand /\ pc' = [pc EXCEPT ![w] = "loop"]
      BY <1>8, <2>2 DEF Pop
    <3>2. \A i \in 1 .. Len(pending') : pending'[i].attempts < MaxAttempts + reaped'[pending'[i].id]
      BY <1>b, <3>1, EndsOfList DEF RetryBudget
    <3>3. /\ Head(pending).id \in Tasks /\ Head(pending).attempts \in Nat
          /\ Head(pending).attempts < MaxAttempts + reaped[Head(pending).id]
      BY <1>b, <3>1, EndsOfList DEF RetryBudget
    <3>4. reaped[Head(pending).id] \in Nat
      BY <1>a, <3>3
    <3>5. Head(pending).attempts + 1 <= MaxAttempts + reaped[Head(pending).id]
      BY <1>a, <3>3, <3>4
    <3>6. ASSUME NEW v \in Workers, pc'[v] \in Holding
          PROVE  hand'[v].attempts <= MaxAttempts + reaped[hand'[v].id]
      <4>1. CASE v = w
        <5>1. hand'[v] = [id |-> Head(pending).id, attempts |-> Head(pending).attempts + 1,
                          claimed_at |-> clock + 1]
          BY <1>f, <3>1, <3>6, <4>1
        <5> QED
          BY <3>5, <5>1
      <4>2. CASE v # w
        BY <1>f, <3>1, <3>6, <4>2 DEF RetryBudget
      <4> QED
        BY <4>1, <4>2
    <3>7. \A v \in Workers : pc'[v] = "rescheduling" =>
            hand'[v].attempts < MaxAttempts + reaped[hand'[v].id]
      BY <1>f, <3>1 DEF RetryBudget
    <3> QED
      BY <3>1, <3>2, <3>6, <3>7 DEF RetryBudget
  <2> QED
    BY <2>1, <2>2
<1>9. ASSUME NEW w \in Workers, Track(w)
      PROVE  RetryBudget'
  <2>1. \A t \in Tasks : running'[t].attempts <= MaxAttempts + reaped[t]
    BY <1>9, <1>e, <1>g DEF Track, WithEntry, RetryBudget
  <2> QED
    BY <1>9, <1>f, <2>1 DEF Track, RetryBudget
<1>10. ASSUME NEW w \in Workers, Handle(w)
       PROVE  RetryBudget'
  BY <1>10, <1>f DEF Handle, RetryBudget
<1>11. ASSUME NEW w \in Workers, Complete(w)
       PROVE  RetryBudget'
  <2>1. \A t \in Tasks : running'[t].attempts <= MaxAttempts + reaped[t]
    <3>1. hand[w].id \in Tasks /\ Untrack(hand[w].id)
      BY <1>11, <1>e DEF Complete
    <3>2. reaped' = reaped
      BY <1>11 DEF Complete
    <3> QED
      BY <3>1, <3>2, <1>a, <1>g, UntrackBudget DEF RetryBudget
  <2> QED
    BY <1>11, <1>f, <2>1 DEF Complete, RetryBudget
<1>12. ASSUME NEW w \in Workers, Fail(w)
       PROVE  RetryBudget'
  <2>1. \A t \in Tasks : running'[t].attempts <= MaxAttempts + reaped[t]
    <3>1. hand[w].id \in Tasks /\ Untrack(hand[w].id)
      BY <1>12, <1>e DEF Fail
    <3>2. reaped' = reaped
      BY <1>12 DEF Fail
    <3> QED
      BY <3>1, <3>2, <1>a, <1>g, UntrackBudget DEF RetryBudget
  <2>2. /\ UNCHANGED <<pending, retry, reaped>>
        /\ \/ /\ hand' = hand /\ pc' = [pc EXCEPT ![w] = "rescheduling"] /\ pc[w] = "failing"
              /\ hand[w].attempts < MaxAttempts
           \/ hand' = [hand EXCEPT ![w] = NoTask] /\ pc' = [pc EXCEPT ![w] = "loop"]
    BY <1>12 DEF Fail, RetriesRemain
  <2>3. \A v \in Workers : pc'[v] \in Holding => pc[v] \in Holding /\ hand'[v] = hand[v]
    BY <1>f, <2>2
  <2>4. ASSUME NEW v \in Workers, pc'[v] = "rescheduling"
        PROVE  hand'[v].attempts < MaxAttempts + reaped[hand'[v].id]
    <3>1. CASE v = w
      <4>1. hand'[v] = hand[w] /\ hand[w].attempts < MaxAttempts /\ pc[w] = "failing"
        BY <1>f, <2>2, <2>4, <3>1
      <4>2. hand[w].id \in Tasks /\ hand[w].attempts \in Nat
        BY <1>e, <4>1
      <4>3. reaped[hand[w].id] \in Nat
        BY <1>a, <4>2
      <4> QED
        BY <1>a, <4>1, <4>2, <4>3
    <3>2. CASE v # w
      BY <1>f, <2>2, <2>4, <3>2 DEF RetryBudget
    <3> QED
      BY <3>1, <3>2
  <2> QED
    BY <2>1, <2>2, <2>3, <2>4 DEF RetryBudget
<1>13. ASSUME NEW w \in Workers, Reschedule(w)
       PROVE  RetryBudget'
  <2>1. \A r \in retry' : r \in retry \/ (r.id = hand[w].id /\ r.attempts = hand[w].attempts)
    BY <1>13 DEF Reschedule
  <2>2. hand[w].attempts < MaxAttempts + reaped[hand[w].id]
    BY <1>13 DEF Reschedule, RetryBudget
  <2> QED
    BY <1>13, <1>f, <2>1, <2>2 DEF Reschedule, RetryBudget
<1>14. ASSUME NEW w \in Workers, Crash(w)
       PROVE  RetryBudget'
  BY <1>14, <1>f DEF Crash, RetryBudget
<1>15. ASSUME NEW w \in Workers, Restart(w)
       PROVE  RetryBudget'
  BY <1>15, <1>f DEF Restart, RetryBudget
<1>16. CASE UNCHANGED vars
  BY <1>16 DEF RetryBudget
<1> QED
  BY <1>1, <1>2, <1>3, <1>4, <1>5, <1>6, <1>7, <1>8, <1>9, <1>10, <1>11, <1>12,
     <1>13, <1>14, <1>15, <1>16 DEF Next, Loop

-----------------------------------------------------------------------------
(* No task is lost outside the two gaps *)

\* A claim counts at least the attempt it makes; a worker completes what its handler
\* has done.
HandsSound ==
  \A w \in Workers : /\ pc[w] \in Holding => hand[w].attempts >= 1
                     /\ pc[w] = "completing" => hand[w].id \in done

\* A task in a hand has been attempted, and is done when it is being completed, after every step.
LEMMA HandsStep ==
  ASSUME QueueAssumption, TypeOK, HandsSound, [Next]_vars
  PROVE  HandsSound'
<1> USE DEF redis, worker, history, vars, Goto, Release
<1>1. pc \in [Workers -> PCs] /\ hand \in [Workers -> Claim \cup {NoTask}]
  BY DEF TypeOK
<1>2. CASE \/ \E t \in Tasks : Enqueue(t) \/ GoStale(t) \/ Overrun(t)
           \/ \E r \in retry : Mature(r)
           \/ UNCHANGED vars
  BY <1>2 DEF Enqueue, GoStale, Overrun, Age, Mature, HandsSound
<1>3. ASSUME NEW w \in Workers,
             Stop(w) \/ Leave(w) \/ ReapStale(w) \/ PromoteRetries(w) \/ Restart(w)
                \/ Crash(w) \/ Complete(w) \/ Reschedule(w)
      PROVE  HandsSound'
  BY <1>1, <1>3 DEF Stop, Leave, ReapStale, PromoteRetries, Restart, Crash, Complete,
     Reschedule, HandsSound
<1>4. ASSUME NEW w \in Workers, Pop(w)
      PROVE  HandsSound'
  <2>1. /\ done' = done
        /\ \/ hand' = hand /\ pc' = [pc EXCEPT ![w] = "loop"]
           \/ /\ pending # <<>> /\ pc' = [pc EXCEPT ![w] = "popped"]
              /\ hand' = [hand EXCEPT ![w] = [id |-> Head(pending).id,
                                              attempts |-> Head(pending).attempts + 1,
                                              claimed_at |-> clock + 1]]
    BY <1>4 DEF Pop
  <2>2. CASE pc' = [pc EXCEPT ![w] = "loop"] /\ hand' = hand
    BY <1>1, <2>1, <2>2 DEF HandsSound
  <2>3. CASE pending # <<>> /\ pc' = [pc EXCEPT ![w] = "popped"]
    <3>1. Head(pending) \in Copy
      BY <2>3, EndsOfList DEF TypeOK
    <3>2. Head(pending).attempts + 1 >= 1
      BY <3>1 DEF Copy
    <3>3. pc'[w] = "popped"
      BY <1>1, <2>3
    <3>4. hand' = [hand EXCEPT ![w] = [id |-> Head(pending).id,
                                       attempts |-> Head(pending).attempts + 1,
                                       claimed_at |-> clock + 1]]
      BY <1>1, <2>1, <3>3
    <3> QED
      BY <1>1, <2>1, <2>3, <3>2, <3>4 DEF HandsSound
  <2> QED
    BY <2>1, <2>2, <2>3
<1>5. ASSUME NEW w \in Workers, Track(w)
      PROVE  HandsSound'
  BY <1>1, <1>5 DEF Track, HandsSound
<1>6. ASSUME NEW w \in Workers, Handle(w)
      PROVE  HandsSound'
  BY <1>1, <1>6 DEF Handle, HandsSound
<1>7. ASSUME NEW w \in Workers, Fail(w)
      PROVE  HandsSound'
  <2>1. /\ done' = done /\ pc[w] = "failing"
        /\ \/ hand' = hand /\ pc' = [pc EXCEPT ![w] = "rescheduling"]
           \/ hand' = [hand EXCEPT ![w] = NoTask] /\ pc' = [pc EXCEPT ![w] = "loop"]
    BY <1>7 DEF Fail
  <2> QED
    BY <1>1, <2>1 DEF HandsSound
<1> QED
  BY <1>2, <1>3, <1>4, <1>5, <1>6, <1>7 DEF Next, Loop

\* Where an accepted task may be; what NoSilentLoss says of one task.
Accounted(t) == \/ Settled(t) \/ InRedis(t)
                \/ \E w \in Workers : pc[w] \in InGap /\ hand[w].id = t

\* A step never takes a task out of the account.
LEMMA AccountStep ==
  ASSUME QueueAssumption, TypeOK, HandsSound, [Next]_vars,
         NEW t \in Tasks, Accounted(t)
  PROVE  Accounted(t)'
<1> USE DEF redis, worker, history, vars, NoFault, Fault, Goto, Release
<1> USE DEF Accounted, Settled, InRedis
<1>a. pc \in [Workers -> PCs] /\ hand \in [Workers -> Claim \cup {NoTask}]
  BY DEF TypeOK
<1>b. running \in [Tasks -> Entry]
  BY DEF TypeOK
<1>c. pending \in Seq(Copy) /\ Len(pending) \in Nat
  BY DEF TypeOK
<1>1. ASSUME NEW u \in Tasks, Enqueue(u)
      PROVE  Accounted(t)'
  <2>1. InPending(t) => InPending(t)'
    <3>1. [id |-> u, attempts |-> 0] \in Copy
      BY DEF Copy
    <3>2. pending' = pending \/ pending' = Append(pending, [id |-> u, attempts |-> 0])
      BY <1>1 DEF Enqueue
    <3> QED
      BY <1>c, <3>1, <3>2, EndsOfList DEF InPending
  <2> QED
    BY <1>1, <2>1 DEF Enqueue, Tracked, InRetry
<1>2. ASSUME NEW u \in Tasks, GoStale(u) \/ Overrun(u)
      PROVE  Accounted(t)'
  <2>1. Tracked(t) => Tracked(t)'
    BY <1>b, <1>2 DEF GoStale, Overrun, Age, Tracked, Absent, Entry
  <2> QED
    BY <1>2, <2>1 DEF GoStale, Overrun, Age, InPending, InRetry
<1>3. ASSUME NEW r \in retry, Mature(r)
      PROVE  Accounted(t)'
  <2>1. ASSUME NEW q \in retry, q.id = t
        PROVE  \E p \in retry' : p.id = t
    <3>1. CASE q = r
      <4>1. [r EXCEPT !.due = TRUE] \in retry'
        BY <1>3 DEF Mature
      <4>2. [r EXCEPT !.due = TRUE].id = r.id
        BY DEF TypeOK, Delayed
      <4> QED
        BY <2>1, <3>1, <4>1, <4>2
    <3>2. CASE q # r
      BY <1>3, <2>1, <3>2 DEF Mature
    <3> QED
      BY <3>1, <3>2
  <2> QED
    BY <1>3, <2>1 DEF Mature, InPending, InRetry, Tracked
<1>4. ASSUME NEW w \in Workers, Stop(w) \/ Leave(w) \/ Restart(w)
      PROVE  Accounted(t)'
  BY <1>a, <1>4 DEF Stop, Leave, Restart, InPending, InRetry, Tracked
<1>5. ASSUME NEW w \in Workers, ReapStale(w)
      PROVE  Accounted(t)'
  <2>1. CASE UNCHANGED <<pending, running, reaped>>
    BY <1>a, <1>5, <2>1 DEF ReapStale, InPending, InRetry, Tracked
  <2>2. CASE ~ UNCHANGED <<pending, running, reaped>>
    <3>1. PICK order \in Orderings(Stale) : pending' = Requeued(order)
      BY <1>5, <2>2 DEF ReapStale
    <3>2. InPending(t) => InPending(t)'
      BY <3>1, RequeuedRange DEF InPending
    <3>3. Tracked(t) => Tracked(t)' \/ InPending(t)'
      <4>1. CASE t \in Stale
        BY <3>1, <4>1, RequeuedRange DEF InPending
      <4>2. CASE t \notin Stale
        BY <1>5, <2>2, <4>2 DEF ReapStale, Tracked
      <4> QED
        BY <4>1, <4>2
    <3> QED
      BY <1>a, <1>5, <3>2, <3>3 DEF ReapStale, InRetry
  <2> QED
    BY <2>1, <2>2
<1>6. ASSUME NEW w \in Workers, PromoteRetries(w)
      PROVE  Accounted(t)'
  <2>1. CASE UNCHANGED <<pending, retry>>
    BY <1>a, <1>6, <2>1 DEF PromoteRetries, InPending, InRetry, Tracked
  <2>2. CASE ~ UNCHANGED <<pending, retry>>
    <3>1. PICK order \in Orderings(Due) : pending' = Promoted(order)
      BY <1>6, <2>2 DEF PromoteRetries
    <3>2. InPending(t) => InPending(t)'
      BY <3>1, PromotedRange DEF InPending
    <3>3. InRetry(t) => InRetry(t)' \/ InPending(t)'
      <4>1. SUFFICES ASSUME NEW r \in retry, r.id = t
                     PROVE  InRetry(t)' \/ InPending(t)'
        BY DEF InRetry
      <4>2. CASE r \in Due
        BY <3>1, <4>1, <4>2, PromotedRange DEF InPending
      <4>3. CASE r \notin Due
        BY <1>6, <2>2, <4>1, <4>3 DEF PromoteRetries, Unpromoted, InRetry
      <4> QED
        BY <4>2, <4>3
    <3> QED
      BY <1>a, <1>6, <3>2, <3>3 DEF PromoteRetries, Tracked
  <2> QED
    BY <2>1, <2>2
<1>7. ASSUME NEW w \in Workers, Pop(w)
      PROVE  Accounted(t)'
  <2>1. /\ pc[w] = "pop" /\ UNCHANGED <<retry, running, done, dropped>>
        /\ gapped \subseteq gapped'
    BY <1>7 DEF Pop
  <2>2. \A v \in Workers : pc[v] \in InGap => pc'[v] = pc[v] /\ hand'[v] = hand[v]
    BY <1>a, <1>7 DEF Pop
  <2>3. CASE pending' = pending
    BY <2>1, <2>2, <2>3 DEF InPending, InRetry, Tracked
  <2>4. CASE pending' # pending
    <3>1. /\ pending # <<>> /\ pending' = Tail(pending)
          /\ \/ /\ hand' = [hand EXCEPT ![w] = [id |-> Head(pending).id,
                                                attempts |-> Head(pending).attempts + 1,
                                                claimed_at |-> clock + 1]]
                /\ pc' = [pc EXCEPT ![w] = "popped"]
             \/ gapped' = gapped \cup {Head(pending).id}
      BY <1>7, <2>4 DEF Pop
    <3>2. CASE Head(pending).id = t
      <4>1. CASE gapped' = gapped \cup {Head(pending).id}
        BY <3>2, <4>1
      <4>2. CASE gapped' # gapped \cup {Head(pending).id}
        <5>1. pc'[w] = "popped" /\ hand'[w].id = t
          BY <1>a, <3>1, <3>2, <4>2
        <5> QED
          BY <5>1
      <4> QED
        BY <4>1, <4>2
    <3>3. CASE Head(pending).id # t
      <4>1. InPending(t) => InPending(t)'
        <5>1. SUFFICES ASSUME NEW i \in 1 .. Len(pending), pending[i].id = t
                       PROVE  \E j \in 1 .. Len(Tail(pending)) : Tail(pending)[j].id = t
          BY <3>1 DEF InPending
        <5>2. i # 1
          BY <1>c, <3>1, <3>3, <5>1, EndsOfList
        <5>3. i - 1 \in 1 .. Len(Tail(pending)) /\ Tail(pending)[i - 1] = pending[i]
          BY <1>c, <3>1, <5>2, EndsOfList
        <5> QED
          BY <5>1, <5>3
      <4> QED
        BY <2>1, <2>2, <4>1 DEF InRetry, Tracked
    <3> QED
      BY <3>2, <3>3
  <2> QED
    BY <2>3, <2>4
<1>8. ASSUME NEW w \in Workers, Track(w)
      PROVE  Accounted(t)'
  <2>1. /\ pc[w] = "popped" /\ UNCHANGED <<pending, retry, done, dropped>>
        /\ gapped \subseteq gapped'
        /\ running' = WithEntry(hand[w]) \/ running' = running
        /\ hand[w].id = t => running' = WithEntry(hand[w]) \/ t \in gapped'
    BY <1>8 DEF Track
  <2>2. \A v \in Workers \ {w} : pc'[v] = pc[v] /\ hand'[v] = hand[v]
    BY <1>a, <1>8 DEF Track
  <2>3. /\ Tracked(t) => Tracked(t)'
        /\ hand[w].id = t /\ running' = WithEntry(hand[w]) => Tracked(t)'
    <3>1. hand[w].attempts >= 1 /\ hand[w].attempts \in Nat
      BY <2>1 DEF HandsSound, TypeOK, Claim
    <3>2. [attempts |-> hand[w].attempts, claimed_at |-> hand[w].claimed_at,
           stale |-> FALSE] # Absent
      BY <3>1 DEF Absent
    <3> QED
      BY <1>b, <2>1, <3>2 DEF Tracked, WithEntry
  <2> QED
    BY <2>1, <2>2, <2>3 DEF InPending, InRetry
<1>9. ASSUME NEW w \in Workers, Handle(w)
      PROVE  Accounted(t)'
  BY <1>a, <1>9 DEF Handle, InPending, InRetry, Tracked
<1>10. ASSUME NEW w \in Workers, Complete(w)
       PROVE  Accounted(t)'
  <2>1. hand[w].id \in done
    BY <1>10 DEF Complete, HandsSound
  <2>2. hand[w].id # t => (Tracked(t) => Tracked(t)')
    BY <1>b, <1>10 DEF Complete, Untrack, Tracked
  <2> QED
    BY <1>a, <1>10, <2>1, <2>2 DEF Complete, InPending, InRetry
<1>11. ASSUME NEW w \in Workers, Fail(w)
       PROVE  Accounted(t)'
  <2>1. /\ pc[w] = "failing" /\ UNCHANGED <<pending, retry, done, gapped>>
        /\ dropped \subseteq dropped'
        /\ \/ hand' = hand /\ pc' = [pc EXCEPT ![w] = "rescheduling"]
           \/ /\ hand' = [hand EXCEPT ![w] = NoTask] /\ pc' = [pc EXCEPT ![w] = "loop"]
              /\ dropped' = dropped \cup {hand[w].id}
    BY <1>11 DEF Fail
  <2>2. \A v \in Workers : pc[v] \in InGap => pc'[v] = pc[v] /\ hand'[v] = hand[v]
    BY <1>a, <2>1
  <2>3. CASE hand[w].id = t
    BY <1>a, <2>1, <2>3
  <2>4. CASE hand[w].id # t
    <3>1. Tracked(t) => Tracked(t)'
      BY <1>b, <1>11, <2>4 DEF Fail, Untrack, Tracked
    <3> QED
      BY <2>1, <2>2, <3>1 DEF InPending, InRetry
  <2> QED
    BY <2>3, <2>4
<1>12. ASSUME NEW w \in Workers, Reschedule(w)
       PROVE  Accounted(t)'
  <2> DEFINE delayed == [id |-> hand[w].id, attempts |-> hand[w].attempts,
                         claimed_at |-> hand[w].claimed_at, due |-> FALSE]
  <2>3. /\ UNCHANGED <<pending, running, done, dropped>>
        /\ \/ retry' = retry \cup {delayed} /\ gapped' = gapped
           \/ gapped' = gapped \cup {hand[w].id} /\ retry' = retry
    BY <1>12 DEF Reschedule
  <2>4. delayed.id = hand[w].id
    OBVIOUS
  <2> HIDE DEF delayed
  <2>1. /\ retry \subseteq retry' /\ gapped \subseteq gapped'
        /\ UNCHANGED <<pending, running, done, dropped>>
        /\ hand[w].id \in gapped' \/ \E r \in retry' : r.id = hand[w].id
    BY <2>3, <2>4
  <2>2. \A v \in Workers \ {w} : pc'[v] = pc[v] /\ hand'[v] = hand[v]
    BY <1>a, <1>12 DEF Reschedule
  <2> QED
    BY <2>1, <2>2 DEF InPending, InRetry, Tracked
<1>13. ASSUME NEW w \in Workers, Crash(w)
       PROVE  Accounted(t)'
  BY <1>a, <1>13 DEF Crash, InPending, InRetry, Tracked
<1>14. CASE UNCHANGED vars
  BY <1>14 DEF InPending, InRetry, Tracked
<1> QED
  BY <1>1, <1>2, <1>3, <1>4, <1>5, <1>6, <1>7, <1>8, <1>9, <1>10, <1>11, <1>12,
     <1>13, <1>14 DEF Next, Loop

\* A task is accounted for from the moment it is accepted.
LEMMA LossStep ==
  ASSUME QueueAssumption, TypeOK, HandsSound, NoSilentLoss, [Next]_vars
  PROVE  NoSilentLoss'
<1> SUFFICES ASSUME NEW t \in Tasks, status'[t] = "accepted"
             PROVE  Accounted(t)'
  BY DEF NoSilentLoss, Accounted
<1>1. CASE status[t] = "accepted"
  BY <1>1, AccountStep DEF NoSilentLoss, Accounted
<1>2. CASE status[t] # "accepted"
  <2>1. Enqueue(t)
    <3>1. \E u \in Tasks : Enqueue(u)
      BY <1>2 DEF Next, Loop, GoStale, Overrun, Age, Mature, Stop, Leave, ReapStale,
         PromoteRetries, Pop, Track, Handle, Complete, Fail, Reschedule, Crash, Restart,
         redis, worker, history, vars
    <3> QED
      BY <1>2, <3>1 DEF Enqueue, TypeOK
  <2>2. pending' = Append(pending, [id |-> t, attempts |-> 0])
    BY <1>2, <2>1 DEF Enqueue, TypeOK
  <2>3. pending \in Seq(Copy) /\ [id |-> t, attempts |-> 0] \in Copy
    BY DEF TypeOK, Copy
  <2>4. Len(pending) + 1 \in 1 .. Len(pending') /\ pending'[Len(pending) + 1].id = t
    BY <2>2, <2>3, EndsOfList
  <2> QED
    BY <2>4 DEF Accounted, InRedis, InPending
<1> QED
  BY <1>1, <1>2

-----------------------------------------------------------------------------
(* One place only, until the reaper takes the task *)

Fresh(t) ==
  status[t] = "new" => /\ ~InPending(t) /\ ~InRetry(t) /\ ~Tracked(t)
                       /\ \A w \in Workers : ~HeldBy(w, t)
                       /\ t \notin done \cup dropped \cup gapped /\ reaped[t] = 0

\* Exclusive of one task; and a task lost in a gap is lost, and the hash counts the
\* attempts of a task in flight as its worker does.
OnePlace(t) ==
  /\ \A i, j \in 1 .. Len(pending) : pending[i].id = t /\ pending[j].id = t => i = j
  /\ \A r, q \in retry : r.id = t /\ q.id = t => r = q
  /\ \A v, w \in Workers : HeldBy(v, t) /\ HeldBy(w, t) => v = w
  /\ InPending(t) => ~InRetry(t)
  /\ (\E w \in Workers : HeldBy(w, t)) => ~InPending(t) /\ ~InRetry(t)
  /\ t \in done \cup dropped => /\ ~InPending(t) /\ ~InRetry(t)
                                /\ \A w \in Workers : HeldBy(w, t) => pc[w] = "completing"
  /\ \A w \in Workers : pc[w] \in InFlight /\ hand[w].id = t =>
       /\ running[t].claimed_at = hand[w].claimed_at
       /\ running[t].attempts = hand[w].attempts
  /\ t \in gapped => /\ ~InPending(t) /\ ~InRetry(t)
                     /\ \A w \in Workers : ~HeldBy(w, t)

Alone(t) == Fresh(t) /\ (reaped[t] = 0 => OnePlace(t))

\* The steps of one worker on what it holds, for the tasks it does not hold.
LEMMA OtherTasks ==
  ASSUME TypeOK, NEW t \in Tasks, NEW w \in Workers, Alone(t),
         UNCHANGED <<pending, status, reaped>>,
         \A r : r.id = t => (r \in retry' <=> r \in retry),
         running'[t] = running[t],
         t \in done' <=> t \in done, t \in dropped' <=> t \in dropped,
         t \in gapped' <=> t \in gapped,
         \A v \in Workers \ {w} : pc'[v] = pc[v] /\ hand'[v] = hand[v],
         ~HeldBy(w, t), ~HeldBy(w, t)'
  PROVE  Alone(t)'
<1>1. InPending(t)' = InPending(t) /\ Tracked(t)' = Tracked(t)
  BY DEF InPending, Tracked
<1>2. InRetry(t)' <=> InRetry(t)
  BY DEF InRetry
<1>3. \A v \in Workers : HeldBy(v, t)' <=> HeldBy(v, t)
  BY DEF HeldBy
<1>4. Fresh(t)'
  BY <1>1, <1>2, <1>3 DEF Alone, Fresh
<1>5. ASSUME reaped[t] = 0
      PROVE  OnePlace(t)'
  <2>1. OnePlace(t)
    BY <1>5 DEF Alone
  <2>2. ASSUME NEW v \in Workers, pc'[v] \in InFlight, hand'[v].id = t
        PROVE  /\ running'[t].claimed_at = hand'[v].claimed_at
               /\ running'[t].attempts = hand'[v].attempts
    <3>1. v # w
      BY <2>2 DEF HeldBy
    <3> QED
      BY <2>1, <2>2, <3>1 DEF OnePlace
  <2>3. \A v \in Workers : HeldBy(v, t)' => pc'[v] = pc[v]
    BY DEF HeldBy
  <2> QED
    BY <1>1, <1>2, <1>3, <2>1, <2>2, <2>3 DEF OnePlace
<1> QED
  BY <1>4, <1>5 DEF Alone

\* The steps of a worker that move the task in its hand.
LEMMA AloneHeld ==
  ASSUME QueueAssumption, TypeOK, NEW t \in Tasks, Alone(t), NEW w \in Workers,
         Track(w) \/ Handle(w) \/ Complete(w) \/ Fail(w) \/ Reschedule(w) \/ Crash(w)
  PROVE  Alone(t)'
<1> USE DEF redis, worker, history, vars, Goto, Release
<1>a. /\ pc \in [Workers -> PCs] /\ hand \in [Workers -> Claim \cup {NoTask}]
      /\ running \in [Tasks -> Entry]
  BY DEF TypeOK
<1>b. UNCHANGED <<pending, status, reaped, stopping>> \/ Crash(w)
  BY DEF Track, Handle, Complete, Fail, Reschedule
<1>c. UNCHANGED <<pending, status, reaped>>
  BY DEF Track, Handle, Complete, Fail, Reschedule, Crash
<1>d. \A v \in Workers \ {w} : pc'[v] = pc[v] /\ hand'[v] = hand[v]
  BY <1>a DEF Track, Handle, Complete, Fail, Reschedule, Crash
<1>e. hand'[w] = hand[w] \/ pc'[w] \notin Holding
  BY <1>a DEF Track, Handle, Complete, Fail, Reschedule, Crash
<1>1. CASE ~HeldBy(w, t)
  <2>1. ~HeldBy(w, t)' \/ pc[w] \notin Holding
    BY <1>1, <1>e DEF HeldBy
  <2>2. CASE pc[w] \notin Holding
    <3>1. Crash(w)
      BY <2>2 DEF Track, Handle, Complete, Fail, Reschedule
    <3>2. ~HeldBy(w, t)' /\ UNCHANGED <<retry, running, done, dropped, gapped>>
      BY <1>a, <2>2, <3>1 DEF Crash, HeldBy
    <3> QED
      BY <1>1, <1>c, <1>d, <3>2, OtherTasks
  <2>3. CASE pc[w] \in Holding
    <3>1. hand[w].id \in Tasks /\ hand[w].id # t
      BY <1>1, <2>3 DEF HeldBy, TypeOK, Claim
    <3>2. running'[t] = running[t]
      BY <1>a, <3>1 DEF Track, WithEntry, Handle, Complete, Fail, Untrack, Reschedule, Crash
    <3>3. /\ (t \in done' <=> t \in done) /\ (t \in dropped' <=> t \in dropped)
          /\ t \in gapped' <=> t \in gapped
      BY <3>1 DEF Track, Handle, Complete, Fail, Reschedule, Crash
    <3>4. \/ retry' = retry
          \/ retry' = retry \cup {[id |-> hand[w].id, attempts |-> hand[w].attempts,
                                   claimed_at |-> hand[w].claimed_at, due |-> FALSE]}
      BY DEF Track, Handle, Complete, Fail, Reschedule, Crash
    <3>5. \A r : r.id = t => (r \in retry' <=> r \in retry)
      BY <3>1, <3>4
    <3> QED
      BY <1>1, <1>c, <1>d, <2>1, <2>3, <3>2, <3>3, <3>5, OtherTasks
  <2> QED
    BY <2>2, <2>3
<1>2. CASE HeldBy(w, t)
  <2>1. status[t] # "new" /\ Fresh(t)'
    BY <1>2, <1>c DEF Alone, Fresh
  <2>2. SUFFICES ASSUME reaped[t] = 0
                 PROVE  OnePlace(t)'
    BY <1>c, <2>1 DEF Alone
  <2>3. OnePlace(t) /\ hand[w].id = t /\ pc[w] \in Holding
    BY <1>2, <2>2 DEF Alone, HeldBy
  <2>4. ~InPending(t) /\ ~InRetry(t) /\ ~InPending(t)'
    BY <1>2, <1>c, <2>3 DEF OnePlace, InPending
  <2>5. \A v \in Workers \ {w} : ~HeldBy(v, t) /\ ~HeldBy(v, t)'
    BY <1>2, <1>d, <2>3 DEF OnePlace, HeldBy
  <2>6. \A i, j \in 1 .. Len(pending') : pending'[i].id = t /\ pending'[j].id = t => i = j
    BY <2>4 DEF InPending
  <2>9. t \notin gapped
    BY <1>2, <2>3 DEF OnePlace
  <2>7. CASE pc'[w] \in Holding
    <3>1. /\ retry' = retry /\ hand' = hand /\ dropped' = dropped /\ gapped' = gapped
          /\ Track(w) \/ Handle(w) \/ Fail(w)
      BY <1>a, <2>7 DEF Track, Handle, Complete, Fail, Reschedule, Crash
    <3>2. ~InRetry(t)'
      BY <2>4, <3>1 DEF InRetry
    <3>3. t \in done' \cup dropped' => pc'[w] = "completing"
      <4>1. pc[w] # "completing"
        BY <3>1 DEF Track, Handle, Fail
      <4>2. t \notin done \cup dropped
        BY <1>2, <2>3, <4>1 DEF OnePlace
      <4> QED
        BY <1>a, <3>1, <4>2 DEF Track, Handle, Fail
    <3>4. pc'[w] \in InFlight => /\ running'[t].claimed_at = hand'[w].claimed_at
                                 /\ running'[t].attempts = hand'[w].attempts
      <4>1. CASE Track(w)
        <5>1. pc'[w] # "handle" \/ running' = WithEntry(hand[w])
          BY <1>a, <4>1 DEF Track
        <5>2. pc'[w] = "handle"
          BY <1>a, <2>7, <4>1 DEF Track
        <5> QED
          BY <1>a, <2>3, <3>1, <5>1, <5>2 DEF WithEntry
      <4>2. CASE Handle(w)
        BY <2>3, <3>1, <4>2 DEF OnePlace, Handle
      <4>3. CASE Fail(w)
        BY <1>a, <4>3 DEF Fail
      <4> QED
        BY <3>1, <4>1, <4>2, <4>3
    <3> QED
      BY <2>4, <2>5, <2>6, <2>9, <3>1, <3>2, <3>3, <3>4 DEF OnePlace, HeldBy, InRetry
  <2>8. CASE pc'[w] \notin Holding
    <3>1. \A v \in Workers : ~HeldBy(v, t)'
      BY <2>5, <2>8 DEF HeldBy
    <3>2. CASE Reschedule(w)
      <4>1. /\ done' = done /\ dropped' = dropped
            /\ \/ retry' = retry
               \/ retry' = retry \cup {[id |-> t, attempts |-> hand[w].attempts,
                                        claimed_at |-> hand[w].claimed_at, due |-> FALSE]}
        BY <2>3, <3>2 DEF Reschedule
      <4>2. \A r, q \in retry' : r.id = t /\ q.id = t => r = q
        BY <2>4, <4>1 DEF InRetry
      <4>3. t \notin done' \cup dropped'
        BY <1>2, <2>3, <3>2, <4>1 DEF OnePlace, Reschedule
      <4>4. t \in gapped' => ~InRetry(t)'
        BY <2>4, <2>9, <3>2 DEF Reschedule, InRetry
      <4> QED
        BY <2>4, <2>6, <3>1, <4>2, <4>3, <4>4 DEF OnePlace, HeldBy
    <3>3. CASE ~Reschedule(w)
      <4>1. retry' = retry
        BY <3>3 DEF Track, Handle, Complete, Fail, Crash
      <4>2. ~InRetry(t)'
        BY <2>4, <4>1 DEF InRetry
      <4> QED
        BY <2>4, <2>6, <3>1, <4>2 DEF OnePlace, InRetry, HeldBy
    <3> QED
      BY <3>2, <3>3
  <2> QED
    BY <2>7, <2>8
<1> QED
  BY <1>1, <1>2

\* The steps on the lists.
LEMMA AloneEnqueue ==
  ASSUME QueueAssumption, TypeOK, NEW t \in Tasks, Alone(t), NEW u \in Tasks, Enqueue(u)
  PROVE  Alone(t)'
<1> USE DEF redis, worker, history, vars
<1>1. /\ UNCHANGED <<retry, running, pc, hand, reaped, done, dropped, gapped>>
      /\ status[u] = "new" /\ status' \in {[status EXCEPT ![u] = "accepted"],
                                           [status EXCEPT ![u] = "refused"]}
      /\ pending' = pending \/ pending' = Append(pending, [id |-> u, attempts |-> 0])
  BY DEF Enqueue
<1>2. pending \in Seq(Copy) /\ [id |-> u, attempts |-> 0] \in Copy /\ Len(pending) \in Nat
  BY DEF TypeOK, Copy
<1>3. \A i \in 1 .. Len(pending') :
        \/ i \in 1 .. Len(pending) /\ pending'[i] = pending[i]
        \/ i = Len(pending) + 1 /\ pending'[i].id = u
  BY <1>1, <1>2, EndsOfList
<1>4. CASE t = u
  <2>1. status'[t] # "new"
    BY <1>1, <1>4 DEF TypeOK
  <2>2. /\ ~InPending(t) /\ ~InRetry(t) /\ t \notin done \cup dropped \cup gapped
        /\ \A w \in Workers : ~HeldBy(w, t)
    BY <1>1, <1>4 DEF Alone, Fresh
  <2>3. ~InRetry(t)' /\ \A w \in Workers : ~HeldBy(w, t)'
    BY <1>1, <2>2 DEF InRetry, HeldBy
  <2>4. \A i, j \in 1 .. Len(pending') : pending'[i].id = t /\ pending'[j].id = t => i = j
    BY <1>3, <2>2 DEF InPending
  <2> QED
    BY <1>1, <2>1, <2>2, <2>3, <2>4 DEF Alone, Fresh, OnePlace, InRetry, HeldBy
<1>5. CASE t # u
  <2>1. InPending(t)' => InPending(t)
    BY <1>3, <1>5 DEF InPending
  <2>2. status'[t] = status[t]
    BY <1>1, <1>5 DEF TypeOK
  <2>3. (reaped[t] = 0 => \A i, j \in 1 .. Len(pending) :
                            pending[i].id = t /\ pending[j].id = t => i = j)
        => (reaped'[t] = 0 => \A i, j \in 1 .. Len(pending') :
                            pending'[i].id = t /\ pending'[j].id = t => i = j)
    BY <1>1, <1>3, <1>5
  <2> QED
    BY <1>1, <2>1, <2>2, <2>3 DEF Alone, Fresh, OnePlace, InRetry, HeldBy, Tracked
<1> QED
  BY <1>4, <1>5

\* The passing of time adds no copy of a task.
LEMMA AloneTime ==
  ASSUME QueueAssumption, TypeOK, NEW t \in Tasks, Alone(t),
         (\E u \in Tasks : GoStale(u) \/ Overrun(u)) \/ \E r \in retry : Mature(r)
  PROVE  Alone(t)'
<1> USE DEF redis, worker, history, vars
<1>1. ASSUME NEW u \in Tasks, GoStale(u) \/ Overrun(u)
      PROVE  Alone(t)'
  <2>1. /\ UNCHANGED <<pending, retry, status, pc, hand, reaped, done, dropped, gapped>>
        /\ running' = [running EXCEPT ![u].stale = TRUE] /\ Tracked(u)
    BY <1>1 DEF GoStale, Overrun, Age
  <2>2. /\ running'[t].claimed_at = running[t].claimed_at
        /\ running'[t].attempts = running[t].attempts /\ (~Tracked(t) => ~Tracked(t)')
    BY <2>1 DEF TypeOK, Entry, Tracked
  <2> QED
    BY <2>1, <2>2 DEF Alone, Fresh, OnePlace, InRetry, InPending, HeldBy
<1>2. ASSUME NEW r \in retry, Mature(r)
      PROVE  Alone(t)'
  <2>1. /\ UNCHANGED <<pending, running, status, pc, hand, reaped, done, dropped, gapped>>
        /\ retry' = (retry \ {r}) \cup {[r EXCEPT !.due = TRUE]}
    BY <1>2 DEF Mature
  <2>2. [r EXCEPT !.due = TRUE].id = r.id
    BY DEF TypeOK, Delayed
  <2>3. InRetry(t)' => InRetry(t)
    BY <2>1, <2>2 DEF InRetry
  <2>4. (\A p, q \in retry : p.id = t /\ q.id = t => p = q)
        => \A p, q \in retry' : p.id = t /\ q.id = t => p = q
    BY <2>1, <2>2
  <2> QED
    BY <2>1, <2>3, <2>4 DEF Alone, Fresh, OnePlace, InPending, HeldBy, Tracked
<1> QED
  BY <1>1, <1>2

\* Reaping a stale claim adds no copy beside one that waits.
LEMMA AloneReap ==
  ASSUME QueueAssumption, TypeOK, NEW t \in Tasks, Alone(t), NEW w \in Workers, ReapStale(w)
  PROVE  Alone(t)'
<1> USE DEF redis, worker, history, vars, Goto
<1>1. /\ UNCHANGED <<retry, status, hand, done, dropped, gapped>> /\ pc[w] = "loop"
      /\ pc' = [pc EXCEPT ![w] = "promote"]
  BY DEF ReapStale
<1>2. \A v \in Workers : (HeldBy(v, t)' <=> HeldBy(v, t)) /\ (pc[v] \in Holding => pc'[v] = pc[v])
                         /\ (pc'[v] \in Holding => pc'[v] = pc[v])
  BY <1>1 DEF HeldBy, TypeOK
<1>3. CASE UNCHANGED <<pending, running, reaped>>
  BY <1>1, <1>2, <1>3 DEF Alone, Fresh, OnePlace, InPending, InRetry, Tracked, HeldBy
<1>4. CASE ~ UNCHANGED <<pending, running, reaped>>
  <2>1. PICK order \in Orderings(Stale) : pending' = Requeued(order)
    BY <1>4 DEF ReapStale
  <2>2. /\ running' = [u \in Tasks |-> IF u \in Stale THEN Absent ELSE running[u]]
        /\ reaped' = [u \in Tasks |-> IF u \in Stale THEN reaped[u] + 1 ELSE reaped[u]]
    BY <1>4 DEF ReapStale
  <2>3. CASE t \in Stale
    <3>1. Tracked(t) /\ reaped'[t] # 0
      BY <2>2, <2>3 DEF Stale, TypeOK
    <3> QED
      BY <1>1, <3>1 DEF Alone, Fresh
  <2>4. CASE t \notin Stale
    <3>1. running'[t] = running[t] /\ reaped'[t] = reaped[t]
      BY <2>2, <2>4
    <3>2. \A i \in 1 .. Len(pending') : pending'[i].id = t =>
            i \in 1 .. Len(pending) /\ pending[i].id = t
      BY <2>1, <2>4, RequeuedRange
    <3>3. InPending(t)' => InPending(t)
      BY <3>2 DEF InPending
    <3> QED
      BY <1>1, <1>2, <3>1, <3>2, <3>3 DEF Alone, Fresh, OnePlace, InRetry, Tracked, HeldBy
  <2> QED
    BY <2>3, <2>4
<1> QED
  BY <1>3, <1>4

\* Promoting a delayed task moves its copy.
LEMMA AlonePromote ==
  ASSUME QueueAssumption, TypeOK, NEW t \in Tasks, Alone(t), NEW w \in Workers,
         PromoteRetries(w)
  PROVE  Alone(t)'
<1> USE DEF redis, worker, history, vars, Goto
<1>1. /\ UNCHANGED <<running, reaped, status, hand, done, dropped, gapped>> /\ pc[w] = "promote"
      /\ pc' = [pc EXCEPT ![w] = "pop"]
  BY DEF PromoteRetries
<1>2. \A v \in Workers : (HeldBy(v, t)' <=> HeldBy(v, t))
                         /\ (pc'[v] \in Holding => pc'[v] = pc[v])
  BY <1>1 DEF HeldBy, TypeOK
<1>3. CASE UNCHANGED <<pending, retry>>
  BY <1>1, <1>2, <1>3 DEF Alone, Fresh, OnePlace, InPending, InRetry, Tracked, HeldBy
<1>4. CASE ~ UNCHANGED <<pending, retry>>
  <2>1. PICK order \in Orderings(Due) : pending' = Promoted(order)
    BY <1>4 DEF PromoteRetries
  <2>2. retry' = retry \ Due
    BY <1>4 DEF PromoteRetries, Unpromoted
  <2>3. \A i \in 1 .. Len(pending') : pending'[i].id = t =>
          \/ i \in 1 .. Len(pending) /\ pending[i].id = t
          \/ i \notin 1 .. Len(pending) /\ \E r \in Due : r.id = t
    <3>1. ASSUME NEW i \in 1 .. Len(pending'), pending'[i].id = t, i \notin 1 .. Len(pending)
          PROVE  \E r \in Due : r.id = t
      BY <2>1, <3>1, PromotedRange
    <3>2. \A i \in 1 .. Len(pending) : pending'[i] = pending[i]
      BY <2>1, PromotedRange
    <3> QED
      BY <3>1, <3>2
  <2>4. InPending(t)' => InPending(t) \/ InRetry(t)
    BY <2>3 DEF InPending, InRetry, Due
  <2>5. InRetry(t)' => InRetry(t) /\ \E r \in retry : r.id = t /\ r \notin Due
    BY <2>2 DEF InRetry
  <2>6. Fresh(t)'
    BY <1>1, <1>2, <2>4, <2>5 DEF Alone, Fresh, Tracked
  <2>7. ASSUME reaped[t] = 0
        PROVE  OnePlace(t)'
    <3>1. OnePlace(t)
      BY <2>7 DEF Alone
    <3>2. ASSUME NEW i \in 1 .. Len(pending'), NEW j \in 1 .. Len(pending'),
                 pending'[i].id = t, pending'[j].id = t
          PROVE  i = j
      <4>1. CASE InPending(t)
        <5>1. \A r \in Due : r.id # t
          BY <3>1, <4>1 DEF OnePlace, InRetry, Due
        <5> QED
          BY <2>3, <3>1, <3>2, <5>1 DEF OnePlace
      <4>2. CASE ~InPending(t)
        <5>1. i \notin 1 .. Len(pending) /\ j \notin 1 .. Len(pending)
          BY <2>3, <3>2, <4>2 DEF InPending
        <5>2. \A r, q \in Due : r.id = t /\ q.id = t => r = q
          BY <3>1 DEF OnePlace, Due
        <5>3. \A k, l \in (1 .. Len(Promoted(order))) \ (1 .. Len(pending)) :
                Promoted(order)[k].id = t /\ Promoted(order)[l].id = t => k = l
          <6>1. \A u : (\A r, q \in Due : r.id = u /\ q.id = u => r = q) =>
                  \A k, l \in (1 .. Len(Promoted(order))) \ (1 .. Len(pending)) :
                    Promoted(order)[k].id = u /\ Promoted(order)[l].id = u => k = l
            BY PromotedRange
          <6> QED
            BY <5>2, <6>1
        <5> QED
          BY <2>1, <3>2, <5>1, <5>3
      <4> QED
        BY <4>1, <4>2
    <3>3. InPending(t)' => ~InRetry(t)'
      <4>1. SUFFICES ASSUME InPending(t)', NEW q \in retry, q.id = t, q \notin Due
                     PROVE  FALSE
        BY <2>5
      <4>2. \A r \in Due : r.id # t
        BY <3>1, <4>1 DEF OnePlace, Due
      <4>3. InPending(t)
        BY <2>3, <4>1, <4>2 DEF InPending
      <4> QED
        BY <3>1, <4>1, <4>3 DEF OnePlace, InRetry
    <3>4. \A r, q \in retry' : r.id = t /\ q.id = t => r = q
      BY <2>2, <3>1 DEF OnePlace
    <3>5. ~InPending(t) /\ ~InRetry(t) => ~InPending(t)' /\ ~InRetry(t)'
      BY <2>4, <2>5
    <3>6. \A v \in Workers : HeldBy(v, t) => ~InPending(t) /\ ~InRetry(t)
      BY <3>1 DEF OnePlace
    <3>7. t \in done' \cup dropped' => ~InPending(t)' /\ ~InRetry(t)'
      BY <1>1, <3>1, <3>5 DEF OnePlace
    <3>8. \A v \in Workers : pc'[v] \in InFlight /\ hand'[v].id = t =>
            /\ running'[t].claimed_at = hand'[v].claimed_at
            /\ running'[t].attempts = hand'[v].attempts
      BY <1>1, <1>2, <3>1 DEF OnePlace
    <3> QED
      BY <1>1, <1>2, <3>1, <3>2, <3>3, <3>4, <3>5, <3>6, <3>7, <3>8 DEF OnePlace, HeldBy
  <2> QED
    BY <1>1, <2>6, <2>7 DEF Alone
<1> QED
  BY <1>3, <1>4

\* Popping a task moves its copy.
LEMMA AlonePop ==
  ASSUME QueueAssumption, TypeOK, NEW t \in Tasks, Alone(t), NEW w \in Workers, Pop(w)
  PROVE  Alone(t)'
<1> USE DEF redis, worker, history, vars, Goto
<1>1. /\ UNCHANGED <<running, retry, reaped, status, done, dropped>> /\ pc[w] = "pop"
      /\ \/ /\ pending' = pending /\ gapped' = gapped /\ hand' = hand
            /\ pc' = [pc EXCEPT ![w] = "loop"]
         \/ /\ pending # <<>> /\ pending' = Tail(pending) /\ gapped' = gapped
            /\ pc' = [pc EXCEPT ![w] = "popped"]
            /\ hand' = [hand EXCEPT ![w] = [id |-> Head(pending).id,
                                            attempts |-> Head(pending).attempts + 1,
                                            claimed_at |-> clock + 1]]
         \/ /\ pending # <<>> /\ pending' = Tail(pending) /\ hand' = hand
            /\ gapped' = gapped \cup {Head(pending).id} /\ pc' = [pc EXCEPT ![w] = "loop"]
  BY DEF Pop
<1>2. \A v \in Workers \ {w} : pc'[v] = pc[v] /\ hand'[v] = hand[v]
  BY <1>1 DEF TypeOK
<1>3. ~HeldBy(w, t)
  BY <1>1 DEF HeldBy
<1>4. CASE /\ pending' = pending /\ gapped' = gapped /\ hand' = hand
           /\ pc' = [pc EXCEPT ![w] = "loop"]
  <2>1. ~HeldBy(w, t)'
    BY <1>4 DEF HeldBy, TypeOK
  <2> QED
    BY <1>1, <1>2, <1>3, <1>4, <2>1, OtherTasks
<1>5. CASE /\ pending # <<>> /\ pending' = Tail(pending)
           /\ \/ gapped' = gapped
              \/ /\ gapped' = gapped \cup {Head(pending).id} /\ hand' = hand
                 /\ pc' = [pc EXCEPT ![w] = "loop"]
  <2>1. /\ \A i \in 1 .. Len(pending') : i + 1 \in 1 .. Len(pending) /\ pending'[i] = pending[i + 1]
        /\ 1 \in 1 .. Len(pending) /\ Head(pending) = pending[1]
        /\ Len(pending) \in Nat /\ Len(pending') = Len(pending) - 1
    BY <1>5, EndsOfList DEF TypeOK
  <2>2. InPending(t)' => InPending(t)
    BY <2>1 DEF InPending
  <2>3. HeldBy(w, t)' => pc'[w] = "popped" /\ Head(pending).id = t
    BY <1>1 DEF HeldBy, TypeOK
  <2>4. Head(pending).id = t => InPending(t)
    BY <2>1 DEF InPending
  <2>5. Fresh(t)'
    BY <1>1, <1>5, <1>2, <2>2, <2>3, <2>4 DEF Alone, Fresh, InRetry, Tracked, HeldBy
  <2>6. ASSUME reaped[t] = 0
        PROVE  OnePlace(t)'
    <3>1. OnePlace(t)
      BY <2>6 DEF Alone
    <3>2. \A i, j \in 1 .. Len(pending') : pending'[i].id = t /\ pending'[j].id = t => i = j
      <4>1. SUFFICES ASSUME NEW i \in 1 .. Len(pending'), NEW j \in 1 .. Len(pending'),
                            pending'[i].id = t, pending'[j].id = t
                     PROVE  i = j
        OBVIOUS
      <4>3. /\ i + 1 \in 1 .. Len(pending) /\ pending[i + 1].id = t
            /\ j + 1 \in 1 .. Len(pending) /\ pending[j + 1].id = t
        BY <2>1, <4>1
      <4>2. i + 1 = j + 1
        BY <3>1, <4>3 DEF OnePlace
      <4> QED
        BY <2>1, <4>2
    <3>3. InRetry(t)' <=> InRetry(t)
      BY <1>1 DEF InRetry
    <3>6. ASSUME InPending(t), Head(pending).id = t
          PROVE  ~InPending(t)'
      <4>1. SUFFICES ASSUME NEW i \in 1 .. Len(pending'), pending'[i].id = t
                     PROVE  FALSE
        BY DEF InPending
      <4>2. i + 1 = 1
        BY <2>1, <3>1, <3>6, <4>1 DEF OnePlace
      <4> QED
        BY <2>1, <4>2
    <3>4. CASE HeldBy(w, t)'
      <4>1. InPending(t) /\ Head(pending).id = t
        BY <2>3, <2>4, <3>4
      <4>2. ~InRetry(t) /\ t \notin done \cup dropped /\ \A v \in Workers : ~HeldBy(v, t)
        BY <3>1, <4>1 DEF OnePlace
      <4>3. ~InPending(t)'
        BY <3>6, <4>1
      <4>4. \A v \in Workers \ {w} : ~HeldBy(v, t)'
        BY <1>2, <4>2 DEF HeldBy
      <4>5. pc'[w] = "popped" /\ gapped' = gapped
        BY <1>5, <2>3, <3>4 DEF TypeOK
      <4>6. t \notin gapped
        BY <3>1, <4>1 DEF OnePlace
      <4> QED
        BY <1>1, <3>2, <3>3, <4>2, <4>3, <4>4, <4>5, <4>6 DEF OnePlace, HeldBy, InRetry
    <3>5. CASE ~HeldBy(w, t)'
      <4>1. \A v \in Workers : HeldBy(v, t)' => HeldBy(v, t) /\ pc'[v] = pc[v] /\ hand'[v] = hand[v]
        BY <1>2, <3>5 DEF HeldBy
      <4>2. \A v \in Workers : pc'[v] \in InFlight /\ hand'[v].id = t => HeldBy(v, t)'
        BY DEF HeldBy
      <4>3. t \in gapped' => ~InPending(t)' /\ ~InRetry(t)' /\ \A v \in Workers : ~HeldBy(v, t)'
        <5>1. CASE t \in gapped
          BY <2>2, <3>1, <3>3, <4>1, <5>1 DEF OnePlace
        <5>2. CASE t \in gapped' /\ t \notin gapped
          <6>1. Head(pending).id = t /\ InPending(t)
            BY <1>5, <2>4, <5>2
          <6> QED
            BY <3>1, <3>3, <3>6, <4>1, <6>1 DEF OnePlace
        <5> QED
          BY <5>1, <5>2
      <4> QED
        BY <1>1, <2>2, <3>1, <3>2, <3>3, <4>1, <4>2, <4>3 DEF OnePlace, InRetry
    <3> QED
      BY <3>4, <3>5
  <2> QED
    BY <1>1, <2>5, <2>6 DEF Alone
<1> QED
  BY <1>1, <1>4, <1>5

\* The steps that leave the lists alone add no copy.
LEMMA AloneRest ==
  ASSUME QueueAssumption, TypeOK, NEW t \in Tasks, Alone(t),
         UNCHANGED vars \/ \E w \in Workers : Stop(w) \/ Leave(w) \/ Restart(w)
  PROVE  Alone(t)'
<1>1. /\ UNCHANGED <<pending, retry, running, status, hand, reaped, done, dropped, gapped>>
      /\ \A v \in Workers : \/ pc'[v] = pc[v]
                            \/ pc'[v] \notin Holding /\ pc[v] \notin Holding
  BY DEF Stop, Leave, Restart, redis, worker, history, vars, Goto, TypeOK
<1> QED
  BY <1>1 DEF Alone, Fresh, OnePlace, InPending, InRetry, Tracked, HeldBy

\* Every step leaves a task where one structure has it.
LEMMA AloneStep ==
  ASSUME QueueAssumption, TypeOK, [Next]_vars, \A t \in Tasks : Alone(t)
  PROVE  \A t \in Tasks : Alone(t)'
BY AloneHeld, AloneEnqueue, AloneTime, AloneReap, AlonePromote, AlonePop, AloneRest
   DEF Next, Loop

-----------------------------------------------------------------------------
(* The theorems *)

IInv == TypeOK /\ RetryBudget /\ HandsSound /\ NoSilentLoss /\ \A t \in Tasks : Alone(t)

\* The invariant holds at first.
LEMMA IInvInit ==
  ASSUME QueueAssumption, Init
  PROVE  IInv
<1>1. HandsSound /\ NoSilentLoss
  BY DEF Init, HandsSound, NoSilentLoss
<1>2. \A t \in Tasks : Alone(t)
  BY DEF Init, Alone, Fresh, OnePlace, InPending, InRetry, HeldBy, Tracked, Absent
<1> QED
  BY <1>1, <1>2, TypeInit, BudgetInit DEF IInv

\* Every step preserves the invariant.
LEMMA IInvStep ==
  ASSUME QueueAssumption, IInv, [Next]_vars
  PROVE  IInv'
<1>1. TypeOK'
  BY TypeStep DEF IInv
<1>2. RetryBudget'
  BY <1>1, BudgetStep DEF IInv
<1>3. HandsSound' /\ NoSilentLoss'
  BY HandsStep, LossStep DEF IInv
<1>4. (\A t \in Tasks : Alone(t))'
  BY AloneStep DEF IInv
<1> QED
  BY <1>1, <1>2, <1>3, <1>4 DEF IInv

\* The invariant implies the properties.
LEMMA IInvProperties ==
  ASSUME IInv
  PROVE  RetryBudget /\ NoSilentLoss /\ Exclusive
<1>1. InOnePlace
  BY DEF IInv, Alone, OnePlace, InOnePlace
<1>2. InFlightTracked
  BY DEF IInv, Alone, OnePlace, InFlightTracked, TypeOK, Claim
<1> QED
  BY <1>1, <1>2 DEF IInv, Exclusive

\* The invariant that carries the theorems below is inductive.
THEOREM Inductive == Spec => []IInv
<1>1. QueueAssumption
  BY QueueAssumption
<1> QED
  BY <1>1, IInvInit, IInvStep, PTL DEF Spec

\* No accepted task is lost, whatever crashes and fails, but in the gap between two
\* calls to Redis of one operation.
THEOREM NothingLostSilently == Spec => []NoSilentLoss
BY Inductive, IInvProperties, PTL

\* The attempts of a task never exceed its budget by more than its reaps.
THEOREM AttemptsBudgeted == Spec => []RetryBudget
BY Inductive, IInvProperties, PTL

\* A task the reaper has not touched is in one place, in none once settled, and in the hash
\* under the stamp of its worker's claim while in flight, so a crash leaves it to the reaper.
THEOREM ExclusiveHandout == Spec => []Exclusive
BY Inductive, IInvProperties, PTL

-----------------------------------------------------------------------------
(* The refinement *)

At(stage, tries) == Promise!At(stage, tries)

\* Where a task is in the queue says where it is in its life.
Located(t) ==
  /\ reaped[t] # 0 => Life(t) = At("reclaimed", 0)
  /\ reaped[t] = 0 /\ t \in done \cup dropped => Life(t) = At("settled", 0)
  /\ reaped[t] = 0 /\ t \notin done \cup dropped /\ t \in gapped => Life(t) = At("lost", 0)
  /\ reaped[t] = 0 /\ ~Settled(t) =>
       /\ \A i \in 1 .. Len(pending) :
            pending[i].id = t => Life(t) = At("waiting", pending[i].attempts)
       /\ \A r \in retry : r.id = t => Life(t) = At("waiting", r.attempts)
       /\ \A w \in Workers : HeldBy(w, t) => Life(t) = At("taken", hand[w].attempts)
       /\ (\A w \in Workers : ~HeldBy(w, t)) /\ ~InPending(t) /\ ~InRetry(t) =>
            Life(t) = IF Tracked(t) THEN At("taken", running[t].attempts) ELSE At("new", 0)

\* The only member of a set is the one CHOOSE takes.
LEMMA OnlyMember == ASSUME NEW n PROVE (CHOOSE x \in {n} : TRUE) = n
OBVIOUS

\* What waits of a task in the list, and nothing else of it.
LEMMA WaitsInList ==
  ASSUME NEW t, OnePlace(t), NEW i \in 1 .. Len(pending), pending[i].id = t
  PROVE  Waiting(t) = {pending[i].attempts}
<1>1. ~InRetry(t) /\ \A j \in 1 .. Len(pending) : pending[j].id = t => j = i
  BY DEF OnePlace, InPending
<1>2. {j \in 1 .. Len(pending) : pending[j].id = t} = {i}
  BY <1>1
<1>3. {r \in retry : r.id = t} = {}
  BY <1>1 DEF InRetry
<1> QED
  BY <1>2, <1>3 DEF Waiting

\* What waits of a task for its back-off, and nothing else of it.
LEMMA WaitsInRetry ==
  ASSUME NEW t, OnePlace(t), NEW r \in retry, r.id = t
  PROVE  Waiting(t) = {r.attempts}
<1>1. ~InPending(t) /\ \A q \in retry : q.id = t => q = r
  BY DEF OnePlace, InRetry
<1>2. {j \in 1 .. Len(pending) : pending[j].id = t} = {}
  BY <1>1 DEF InPending
<1>3. {q \in retry : q.id = t} = {r}
  BY <1>1
<1> QED
  BY <1>2, <1>3 DEF Waiting

\* Nothing of a task waits that is in neither list.
LEMMA WaitsNowhere ==
  ASSUME NEW t, ~InPending(t), ~InRetry(t)
  PROVE  Waiting(t) = {}
<1>1. {j \in 1 .. Len(pending) : pending[j].id = t} = {} /\ {q \in retry : q.id = t} = {}
  BY DEF InPending, InRetry
<1> QED
  BY <1>1 DEF Waiting

\* The attempts of a task in the hand of a worker.
LEMMA TakenInHand ==
  ASSUME NEW t, OnePlace(t), NEW w \in Workers, HeldBy(w, t)
  PROVE  Taken(t) = {hand[w].attempts}
<1>1. {v \in Workers : HeldBy(v, t)} = {w}
  BY DEF OnePlace
<1>2. {hand[v].attempts : v \in {v \in Workers : HeldBy(v, t)}} = {hand[w].attempts}
  BY <1>1
<1> QED
  BY <1>2 DEF Taken

\* The attempts of a task in no hand.
LEMMA TakenInHash ==
  ASSUME NEW t, \A w \in Workers : ~HeldBy(w, t)
  PROVE  Taken(t) = IF Tracked(t) THEN {running[t].attempts} ELSE {}
<1>1. {hand[v].attempts : v \in {v \in Workers : HeldBy(v, t)}} = {}
  OBVIOUS
<1> QED
  BY <1>1 DEF Taken

\* The invariant locates every task.
LEMMA TasksLocated == IInv => \A t \in Tasks : Located(t)
<1> SUFFICES ASSUME IInv, NEW t \in Tasks
             PROVE  Located(t)
  OBVIOUS
<1> USE DEF At, Promise!At
<1>1. reaped[t] = 0 => OnePlace(t)
  BY DEF IInv, Alone
<1>2. reaped[t] \in Nat
  BY DEF IInv, TypeOK
<1>3. /\ reaped[t] # 0 => Life(t) = At("reclaimed", 0)
      /\ reaped[t] = 0 /\ t \in done \cup dropped => Life(t) = At("settled", 0)
      /\ reaped[t] = 0 /\ t \notin done \cup dropped /\ t \in gapped => Life(t) = At("lost", 0)
  BY <1>2, OnlyMember DEF Life
<1>4. ASSUME reaped[t] = 0, ~Settled(t)
      PROVE  /\ \A n : Waiting(t) = {n} => Life(t) = At("waiting", n)
             /\ \A n : Waiting(t) = {} /\ Taken(t) = {n} => Life(t) = At("taken", n)
             /\ Waiting(t) = {} /\ Taken(t) = {} => Life(t) = At("new", 0)
  BY <1>4, OnlyMember DEF Life, Settled
<1>5. ASSUME reaped[t] = 0, ~Settled(t), NEW w \in Workers, HeldBy(w, t)
      PROVE  Life(t) = At("taken", hand[w].attempts)
  <2>1. Waiting(t) = {} /\ Taken(t) = {hand[w].attempts}
    BY <1>1, <1>5, TakenInHand, WaitsNowhere DEF OnePlace
  <2> QED
    BY <1>4, <1>5, <2>1
<1>6. ASSUME reaped[t] = 0, ~Settled(t), \A w \in Workers : ~HeldBy(w, t),
             ~InPending(t), ~InRetry(t)
      PROVE  Life(t) = IF Tracked(t) THEN At("taken", running[t].attempts) ELSE At("new", 0)
  <2>1. Waiting(t) = {} /\ Taken(t) = IF Tracked(t) THEN {running[t].attempts} ELSE {}
    BY <1>6, TakenInHash, WaitsNowhere
  <2> QED
    BY <1>4, <1>6, <2>1
<1>7. ASSUME reaped[t] = 0, ~Settled(t)
      PROVE  /\ \A i \in 1 .. Len(pending) :
                  pending[i].id = t => Life(t) = At("waiting", pending[i].attempts)
             /\ \A r \in retry : r.id = t => Life(t) = At("waiting", r.attempts)
  <2>1. ASSUME NEW i \in 1 .. Len(pending), pending[i].id = t
        PROVE  Life(t) = At("waiting", pending[i].attempts)
    BY <1>1, <1>4, <1>7, <2>1, WaitsInList
  <2>2. ASSUME NEW r \in retry, r.id = t
        PROVE  Life(t) = At("waiting", r.attempts)
    BY <1>1, <1>4, <1>7, <2>2, WaitsInRetry
  <2> QED
    BY <2>1, <2>2
<1> HIDE DEF At
<1> QED
  BY <1>3, <1>5, <1>6, <1>7 DEF Located

\* So does the invariant of the next state.
LEMMA NextLocated == IInv' => (\A t \in Tasks : Located(t))'
BY TasksLocated, PTL

Lives == [t \in Tasks |-> Life(t)]
Promised == [Promise!Next]_Lives

\* A task moves on in its life as the promise allows, or stays where it is.
Moves(t) ==
  \/ Life(t)' = Life(t)
  \/ Life(t) = At("new", 0) /\ Life(t)' = At("waiting", 0)
  \/ \E n \in Nat : n < MaxAttempts /\ Life(t) = At("waiting", n) /\ Life(t)' = At("taken", n + 1)
  \/ \E n \in Nat : n < MaxAttempts /\ Life(t) = At("taken", n) /\ Life(t)' = At("waiting", n)
  \/ \E n \in Nat : Life(t) = At("taken", n) /\ Life(t)' = At("settled", 0)
  \/ \E n \in Nat : /\ Life(t) = At("waiting", n) \/ Life(t) = At("taken", n)
                    /\ Life(t)' = At("lost", 0)

\* A step that moves no life is a stutter of the promise.
LEMMA NothingMoves ==
  ASSUME \A u \in Tasks : Life(u)' = Life(u)
  PROVE  Promised
BY DEF Promised, Lives

\* A step that moves the life of one task is a step of the promise.
LEMMA OneMoves ==
  ASSUME NEW t \in Tasks, Moves(t), \A u \in Tasks \ {t} : Life(u)' = Life(u)
  PROVE  Promised
<1>1. ASSUME NEW s, NEW n, Life(t)' = At(s, n)
      PROVE  Promise!Becomes(t, s, n)
  BY <1>1 DEF Promise!Becomes, At
<1>2. Lives[t] = Life(t)
  BY DEF Lives
<1> USE DEF At, Promise!At
<1>3. CASE Life(t)' = Life(t)
  BY <1>3, NothingMoves
<1>4. CASE Life(t) = At("new", 0) /\ Life(t)' = At("waiting", 0)
  <2>1. Promise!Submit(t)
    BY <1>1, <1>4 DEF Promise!Submit
  <2> QED
    BY <2>1 DEF Promised, Lives, Promise!Next
<1>5. ASSUME NEW n \in Nat, n < MaxAttempts, Life(t) = At("waiting", n),
             Life(t)' = At("taken", n + 1)
      PROVE  Promised
  <2>1. Promise!Take(t)
    BY <1>1, <1>5 DEF Promise!Take
  <2> QED
    BY <2>1 DEF Promised, Lives, Promise!Next
<1>6. ASSUME NEW n \in Nat, n < MaxAttempts, Life(t) = At("taken", n), Life(t)' = At("waiting", n)
      PROVE  Promised
  <2>1. Promise!GiveBack(t)
    BY <1>1, <1>6 DEF Promise!GiveBack
  <2> QED
    BY <2>1 DEF Promised, Lives, Promise!Next
<1>7. ASSUME NEW n \in Nat, Life(t) = At("taken", n), Life(t)' = At("settled", 0)
      PROVE  Promised
  <2>1. Promise!Settle(t)
    BY <1>1, <1>7 DEF Promise!Settle
  <2> QED
    BY <2>1 DEF Promised, Lives, Promise!Next
<1>8. ASSUME NEW n \in Nat, Life(t) = At("waiting", n) \/ Life(t) = At("taken", n),
             Life(t)' = At("lost", 0)
      PROVE  Promised
  <2>1. Promise!Lose(t)
    BY <1>1, <1>8 DEF Promise!Lose
  <2> QED
    BY <2>1 DEF Promised, Lives, Promise!Next
<1> QED
  BY <1>3, <1>4, <1>5, <1>6, <1>7, <1>8 DEF Moves

\* A task of which nothing changes keeps its place in its life.
LEMMA LifeKept ==
  ASSUME NEW u, Waiting(u)' = Waiting(u), Taken(u)' = Taken(u), reaped'[u] = reaped[u],
         u \in done' \cup dropped' <=> u \in done \cup dropped, u \in gapped' <=> u \in gapped
  PROVE  Life(u)' = Life(u)
BY DEF Life

\* The claims of a task in hands and in the hash are as before.
LEMMA TakenKept ==
  ASSUME NEW u, running'[u] = running[u],
         \A v \in Workers : HeldBy(v, u)' <=> HeldBy(v, u),
         \A v \in Workers : HeldBy(v, u) => hand'[v] = hand[v]
  PROVE  Taken(u)' = Taken(u)
<1>1. {v \in Workers : HeldBy(v, u)}' = {v \in Workers : HeldBy(v, u)}
  OBVIOUS
<1>2. {hand[v].attempts : v \in {v \in Workers : HeldBy(v, u)}}'
        = {hand[v].attempts : v \in {v \in Workers : HeldBy(v, u)}}
  BY <1>1
<1> QED
  BY <1>2 DEF Taken, Tracked

\* A step of a worker that neither had nor gets the task.
LEMMA LifeOfOther ==
  ASSUME NEW u, NEW w \in Workers, Waiting(u)' = Waiting(u), reaped'[u] = reaped[u],
         u \in done' \cup dropped' <=> u \in done \cup dropped, u \in gapped' <=> u \in gapped,
         running'[u] = running[u],
         \A v \in Workers \ {w} : pc'[v] = pc[v] /\ hand'[v] = hand[v],
         ~HeldBy(w, u), ~HeldBy(w, u)'
  PROVE  Life(u)' = Life(u)
<1>1. Taken(u)' = Taken(u)
  <2>1. \A v \in Workers : HeldBy(v, u)' <=> HeldBy(v, u)
    BY DEF HeldBy
  <2>2. \A v \in Workers : HeldBy(v, u) => hand'[v] = hand[v]
    OBVIOUS
  <2> QED
    BY <2>1, <2>2, TakenKept
<1> QED
  BY <1>1, LifeKept

\* What waits of a task when neither list changes for it.
LEMMA WaitingKept ==
  ASSUME NEW u, UNCHANGED pending, \A r : r.id = u => (r \in retry' <=> r \in retry)
  PROVE  Waiting(u)' = Waiting(u)
<1>1. {q \in retry : q.id = u}' = {q \in retry : q.id = u}
  OBVIOUS
<1> QED
  BY <1>1 DEF Waiting

\* A task in a hand, while the reaper has not touched it: what is known of it.
LEMMA HeldFacts ==
  ASSUME QueueAssumption, IInv, NEW w \in Workers, pc[w] \in Holding, reaped[hand[w].id] = 0
  PROVE  LET t == hand[w].id IN
         /\ t \in Tasks /\ HeldBy(w, t) /\ OnePlace(t) /\ ~InPending(t) /\ ~InRetry(t)
         /\ t \notin gapped /\ (pc[w] # "completing" => t \notin done \cup dropped)
         /\ \A v \in Workers \ {w} : ~HeldBy(v, t)
         /\ hand[w].attempts \in Nat \ {0}
         /\ pc[w] # "completing" => Life(t) = At("taken", hand[w].attempts)
<1>1. hand[w] \in Claim /\ hand[w].id \in Tasks /\ hand[w].attempts \in Nat
  BY DEF IInv, TypeOK, Claim
<1>2. HeldBy(w, hand[w].id)
  BY DEF HeldBy
<1>3. OnePlace(hand[w].id)
  BY <1>1 DEF IInv, Alone
<1>4. Located(hand[w].id)
  BY <1>1, TasksLocated
<1>5. hand[w].attempts >= 1
  BY DEF IInv, HandsSound
<1>6. /\ ~InPending(hand[w].id) /\ ~InRetry(hand[w].id)
      /\ hand[w].id \notin gapped
      /\ (pc[w] # "completing" => hand[w].id \notin done \cup dropped)
      /\ \A v \in Workers \ {w} : ~HeldBy(v, hand[w].id)
  BY <1>2, <1>3 DEF OnePlace
<1>7. pc[w] # "completing" => Life(hand[w].id) = At("taken", hand[w].attempts)
  BY <1>2, <1>4, <1>6 DEF Located, Settled
<1> QED
  BY <1>1, <1>2, <1>3, <1>5, <1>6, <1>7

\* The life of a task that the reaper took does not move as long as no one takes it again.
LEMMA ReapedMoves ==
  ASSUME IInv, IInv', NEW t \in Tasks, reaped[t] # 0, reaped'[t] = reaped[t]
  PROVE  Moves(t)
<1>1. Life(t) = At("reclaimed", 0)
  BY TasksLocated DEF Located
<1>2. Life(t)' = At("reclaimed", 0)
  BY NextLocated DEF Located
<1> QED
  BY <1>1, <1>2 DEF Moves

\* The steps of a worker on the task in its hand.
LEMMA HeldPromised ==
  ASSUME QueueAssumption, IInv, IInv', NEW w \in Workers, pc[w] \in Holding,
         Track(w) \/ Handle(w) \/ Complete(w) \/ Fail(w) \/ Reschedule(w) \/ Crash(w)
  PROVE  Promised
<1>t. PICK t \in Tasks : t = hand[w].id
  BY DEF IInv, TypeOK, Claim
<1> USE DEF redis, worker, history, vars, Goto, Release
<1>a. /\ pc \in [Workers -> PCs] /\ hand \in [Workers -> Claim \cup {NoTask}]
      /\ running \in [Tasks -> Entry] /\ t \in Tasks
  BY DEF IInv, TypeOK, Claim
<1>b. /\ UNCHANGED <<pending, reaped>>
      /\ \A v \in Workers \ {w} : pc'[v] = pc[v] /\ hand'[v] = hand[v]
      /\ hand'[w] = hand[w] \/ pc'[w] \notin Holding
  BY <1>a DEF Track, Handle, Complete, Fail, Reschedule, Crash
<1>c. ASSUME NEW u \in Tasks \ {t}
      PROVE  Life(u)' = Life(u)
  <2>1. running'[u] = running[u]
    BY <1>a, <1>t DEF Track, WithEntry, Handle, Complete, Fail, Untrack, Reschedule, Crash
  <2>2. /\ u \in done' \cup dropped' <=> u \in done \cup dropped
        /\ u \in gapped' <=> u \in gapped
    BY <1>t DEF Track, Handle, Complete, Fail, Reschedule, Crash
  <2>3. \/ retry' = retry
        \/ retry' = retry \cup {[id |-> t, attempts |-> hand[w].attempts,
                                 claimed_at |-> hand[w].claimed_at, due |-> FALSE]}
    BY <1>t DEF Track, Handle, Complete, Fail, Reschedule, Crash
  <2>4. \A r : r.id = u => (r \in retry' <=> r \in retry)
    BY <2>3
  <2>5. Waiting(u)' = Waiting(u)
    BY <1>b, <2>4, WaitingKept
  <2>6. ~HeldBy(w, u) /\ ~HeldBy(w, u)'
    BY <1>b, <1>t DEF HeldBy
  <2> QED
    BY <1>b, <2>1, <2>2, <2>5, <2>6, LifeOfOther
<1> SUFFICES Moves(t)
  BY <1>a, <1>c, OneMoves
<1>1. CASE reaped[t] # 0
  BY <1>1, <1>a, <1>b, ReapedMoves
<1>2. CASE reaped[t] = 0
  <2> DEFINE a == hand[w].attempts
  <2>1. /\ HeldBy(w, t) /\ OnePlace(t) /\ ~InPending(t) /\ ~InRetry(t)
        /\ t \notin gapped /\ (pc[w] # "completing" => t \notin done \cup dropped)
        /\ \A v \in Workers \ {w} : ~HeldBy(v, t)
        /\ a \in Nat \ {0}
        /\ pc[w] # "completing" => Life(t) = At("taken", a)
    BY <1>2, <1>t, HeldFacts
  <2>2. Located(t)' /\ reaped'[t] = 0
    BY <1>2, <1>a, <1>b, NextLocated
  <2>3. ~InPending(t)' /\ \A v \in Workers \ {w} : ~HeldBy(v, t)'
    BY <1>b, <2>1 DEF InPending, HeldBy
  <2>4. ASSUME t \in done' \cup dropped', pc[w] # "completing"
        PROVE  Moves(t)
    BY <2>1, <2>2, <2>4 DEF Moves, Located
  <2>5. ASSUME t \in gapped', t \notin done' \cup dropped', pc[w] # "completing"
        PROVE  Moves(t)
    BY <2>1, <2>2, <2>5 DEF Moves, Located
  <2>6. ASSUME HeldBy(w, t)', hand'[w] = hand[w], t \notin done' \cup dropped' \cup gapped',
               pc[w] # "completing"
        PROVE  Moves(t)
    BY <2>1, <2>2, <2>6 DEF Moves, Located, Settled
  <2>7. ASSUME ~HeldBy(w, t)', UNCHANGED retry, running'[t].attempts = a,
               t \notin done' \cup dropped' \cup gapped', pc[w] # "completing"
        PROVE  Moves(t)
    <3>1. Tracked(t)' /\ ~InRetry(t)' /\ \A v \in Workers : ~HeldBy(v, t)'
      BY <2>1, <2>3, <2>7 DEF Tracked, Absent, InRetry
    <3>2. Life(t)' = At("taken", a)
      BY <2>2, <2>3, <2>7, <3>1 DEF Located, Settled
    <3> QED
      BY <2>1, <2>7, <3>2 DEF Moves
  <2>8. CASE pc[w] = "completing"
    <3>1. t \in done /\ t \in done'
      BY <1>t, <2>8 DEF IInv, HandsSound, Track, Handle, Complete, Fail, Reschedule, Crash
    <3>2. Life(t) = At("settled", 0) /\ Life(t)' = At("settled", 0)
      BY <1>2, <1>a, <2>2, <3>1, TasksLocated DEF Located
    <3> QED
      BY <3>2 DEF Moves
  <2>9. CASE Track(w)
    <3>1. pc[w] = "popped" /\ UNCHANGED <<retry, done, dropped>>
      BY <2>9 DEF Track
    <3>2. \/ running' = WithEntry(hand[w]) /\ gapped' = gapped
          \/ t \in gapped'
      BY <1>t, <2>9 DEF Track
    <3>3. CASE running' = WithEntry(hand[w]) /\ gapped' = gapped
      <4>1. running'[t].attempts = a
        BY <1>a, <1>t, <3>3 DEF WithEntry
      <4>2. hand'[w] = hand[w] \/ ~HeldBy(w, t)'
        BY <1>b DEF HeldBy
      <4> QED
        BY <2>1, <2>6, <2>7, <3>1, <3>3, <4>1, <4>2 DEF Track, HeldBy
    <3> QED
      BY <2>1, <2>5, <3>1, <3>2, <3>3
  <2>10. CASE Handle(w)
    <3>1. /\ pc[w] = "handle" /\ hand' = hand /\ UNCHANGED <<dropped, gapped>>
          /\ pc'[w] \in Holding /\ (t \in done' \/ done' = done)
      BY <1>a, <1>t, <2>10 DEF Handle
    <3> QED
      BY <2>1, <2>4, <2>6, <3>1 DEF HeldBy
  <2>11. CASE Fail(w)
    <3>1. /\ pc[w] = "failing" /\ UNCHANGED <<done, gapped>>
          /\ \/ pc'[w] \in Holding /\ hand' = hand /\ dropped' = dropped
             \/ t \in dropped'
      BY <1>a, <1>t, <2>11 DEF Fail
    <3> QED
      BY <2>1, <2>4, <2>6, <3>1 DEF HeldBy
  <2>12. CASE Reschedule(w)
    <3> DEFINE delayed == [id |-> t, attempts |-> a, claimed_at |-> hand[w].claimed_at,
                           due |-> FALSE]
    <3>4. /\ pc[w] = "rescheduling" /\ UNCHANGED <<done, dropped>>
          /\ \/ gapped' = gapped /\ retry' = retry \cup {delayed}
             \/ gapped' = gapped \cup {t}
      BY <1>t, <2>12 DEF Reschedule
    <3>5. delayed.id = t /\ delayed.attempts = a
      OBVIOUS
    <3> HIDE DEF delayed
    <3>1. /\ pc[w] = "rescheduling" /\ UNCHANGED <<done, dropped>>
          /\ \/ gapped' = gapped /\ \E r \in retry' : r.id = t /\ r.attempts = a
             \/ t \in gapped'
      BY <3>4, <3>5
    <3>2. a < MaxAttempts
      BY <1>2, <1>t, <3>1 DEF IInv, RetryBudget, QueueAssumption
    <3>3. ASSUME gapped' = gapped, NEW r \in retry', r.id = t, r.attempts = a
          PROVE  Moves(t)
      <4>1. Life(t)' = At("waiting", a)
        BY <2>1, <2>2, <3>1, <3>3 DEF Located, Settled
      <4> QED
        BY <2>1, <3>1, <3>2, <4>1 DEF Moves
    <3> QED
      BY <2>1, <2>5, <3>1, <3>3
  <2>13. CASE Crash(w)
    <3>1. /\ UNCHANGED <<retry, running, done, dropped>> /\ pc'[w] = "down"
          /\ gapped' = IF pc[w] \in InGap THEN gapped \cup {t} ELSE gapped
      BY <1>a, <1>t, <2>13 DEF Crash
    <3>2. CASE pc[w] \in InGap
      BY <2>1, <2>5, <3>1, <3>2
    <3>3. CASE pc[w] \in InFlight
      <4>1. running[t].attempts = a
        BY <1>t, <2>1, <3>3 DEF OnePlace
      <4> QED
        BY <2>1, <2>7, <2>8, <3>1, <3>3, <4>1 DEF HeldBy
    <3> QED
      BY <3>2, <3>3
  <2>14. CASE Complete(w)
    BY <2>8, <2>14 DEF Complete
  <2> QED
    BY <2>9, <2>10, <2>11, <2>12, <2>13, <2>14
<1> QED
  BY <1>1, <1>2

\* What the caller of enqueue sees begins the life of a task.
LEMMA EnqueuePromised ==
  ASSUME QueueAssumption, IInv, IInv', NEW t \in Tasks, Enqueue(t)
  PROVE  Promised
<1> USE DEF redis, worker, history, vars
<1>1. /\ UNCHANGED <<retry, running, pc, hand, reaped, done, dropped, gapped>>
      /\ status[t] = "new"
      /\ pending' = pending \/ pending' = Append(pending, [id |-> t, attempts |-> 0])
  BY DEF Enqueue
<1>2. pending \in Seq(Copy) /\ [id |-> t, attempts |-> 0] \in Copy /\ Len(pending) \in Nat
  BY DEF IInv, TypeOK, Copy
<1>3. ASSUME NEW u \in Tasks
      PROVE  Taken(u)' = Taken(u)
  BY <1>1, TakenKept DEF HeldBy
<1>4. CASE pending' = pending
  <2>1. ASSUME NEW u \in Tasks
        PROVE  Life(u)' = Life(u)
    BY <1>1, <1>3, <1>4, WaitingKept, LifeKept
  <2> QED
    BY <2>1, NothingMoves
<1>5. CASE pending' = Append(pending, [id |-> t, attempts |-> 0])
  <2>1. /\ \A i \in 1 .. Len(pending) : i \in 1 .. Len(pending') /\ pending'[i] = pending[i]
        /\ \A i \in 1 .. Len(pending') : \/ i \in 1 .. Len(pending)
                                         \/ i = Len(pending) + 1
        /\ Len(pending) + 1 \in 1 .. Len(pending')
        /\ pending'[Len(pending) + 1] = [id |-> t, attempts |-> 0]
    BY <1>2, <1>5, EndsOfList
  <2>2. pending'[Len(pending) + 1].id = t /\ pending'[Len(pending) + 1].attempts = 0
    BY <2>1
  <2>3. ASSUME NEW u \in Tasks \ {t}
        PROVE  Life(u)' = Life(u)
    <3>1. {i \in 1 .. Len(pending) : pending[i].id = u}'
            = {i \in 1 .. Len(pending) : pending[i].id = u}
      BY <2>1, <2>2
    <3>2. {pending[i].attempts : i \in {j \in 1 .. Len(pending) : pending[j].id = u}}'
            = {pending[i].attempts : i \in {j \in 1 .. Len(pending) : pending[j].id = u}}
      BY <2>1, <3>1
    <3>3. Waiting(u)' = Waiting(u)
      BY <1>1, <3>2 DEF Waiting
    <3> QED
      BY <1>1, <1>3, <3>3, LifeKept
  <2>4. Fresh(t) /\ reaped[t] = 0 /\ ~Settled(t) /\ ~InPending(t) /\ ~InRetry(t) /\ ~Tracked(t)
        /\ \A w \in Workers : ~HeldBy(w, t)
    BY <1>1 DEF IInv, Alone, Fresh, Settled
  <2>5. Life(t) = At("new", 0)
    BY <2>4, TasksLocated DEF Located
  <2>6. Life(t)' = At("waiting", 0)
    <3>1. Located(t)'
      BY NextLocated
    <3>2. reaped'[t] = 0 /\ ~Settled(t)'
      BY <1>1, <2>4 DEF Settled
    <3> QED
      BY <2>1, <2>2, <3>1, <3>2 DEF Located
  <2>7. Moves(t)
    BY <2>5, <2>6 DEF Moves
  <2> QED
    BY <2>3, <2>7, OneMoves
<1> QED
  BY <1>1, <1>4, <1>5

\* The passing of time is not part of a life.
LEMMA TimePromised ==
  ASSUME QueueAssumption, IInv, IInv',
         (\E u \in Tasks : GoStale(u) \/ Overrun(u)) \/ \E r \in retry : Mature(r)
  PROVE  Promised
<1> USE DEF redis, worker, history, vars
<1>1. ASSUME NEW u \in Tasks, GoStale(u) \/ Overrun(u)
      PROVE  Promised
  <2>1. /\ UNCHANGED <<pending, retry, status, pc, hand, reaped, done, dropped, gapped>>
        /\ running' = [running EXCEPT ![u].stale = TRUE] /\ Tracked(u)
    BY <1>1 DEF GoStale, Overrun, Age
  <2>2. ASSUME NEW t \in Tasks
        PROVE  Life(t)' = Life(t)
    <3>1. running \in [Tasks -> Entry]
      BY DEF IInv, TypeOK
    <3>2. running'[t].attempts = running[t].attempts /\ (Tracked(t)' <=> Tracked(t))
      BY <2>1, <3>1 DEF Tracked, Entry, Absent
    <3>3. Taken(t)' = Taken(t)
      BY <2>1, <3>2 DEF Taken, HeldBy
    <3>4. Waiting(t)' = Waiting(t)
      BY <2>1 DEF Waiting
    <3> QED
      BY <2>1, <3>3, <3>4, LifeKept
  <2> QED
    BY <2>2, NothingMoves
<1>2. ASSUME NEW r \in retry, Mature(r)
      PROVE  Promised
  <2>1. /\ UNCHANGED <<pending, running, status, pc, hand, reaped, done, dropped, gapped>>
        /\ retry' = (retry \ {r}) \cup {[r EXCEPT !.due = TRUE]}
    BY <1>2 DEF Mature
  <2> DEFINE ripe == [r EXCEPT !.due = TRUE]
  <2>2. ripe.id = r.id /\ ripe.attempts = r.attempts
    BY DEF IInv, TypeOK, Delayed
  <2>3. retry' = (retry \ {r}) \cup {ripe}
    BY <2>1
  <2> HIDE DEF ripe
  <2>4. ASSUME NEW t \in Tasks
        PROVE  Life(t)' = Life(t)
    <3>1. {q.attempts : q \in {p \in retry : p.id = t}}'
            = {q.attempts : q \in {p \in retry : p.id = t}}
      BY <2>2, <2>3
    <3>2. Waiting(t)' = Waiting(t)
      BY <2>1, <3>1 DEF Waiting
    <3>3. Taken(t)' = Taken(t)
      BY <2>1 DEF Taken, HeldBy, Tracked
    <3> QED
      BY <2>1, <3>2, <3>3, LifeKept
  <2> QED
    BY <2>4, NothingMoves
<1> QED
  BY <1>1, <1>2

\* The steps that leave the lists alone, of a worker that holds nothing.
LEMMA RestPromised ==
  ASSUME QueueAssumption, IInv, IInv',
         \/ UNCHANGED vars
         \/ \E w \in Workers : \/ Stop(w) \/ Leave(w) \/ Restart(w)
                               \/ Crash(w) /\ pc[w] \notin Holding
  PROVE  Promised
<1>1. /\ UNCHANGED <<pending, retry, running, reaped, done, dropped, gapped>>
      /\ \A v \in Workers : \/ pc'[v] = pc[v] /\ hand'[v] = hand[v]
                            \/ pc'[v] \notin Holding /\ pc[v] \notin Holding
  BY DEF IInv, Stop, Leave, Restart, Crash, redis, worker, history, vars, Goto, Release, TypeOK
<1>2. ASSUME NEW u \in Tasks
      PROVE  Life(u)' = Life(u)
  <2>1. Taken(u)' = Taken(u)
    BY <1>1, TakenKept DEF HeldBy
  <2>2. Waiting(u)' = Waiting(u)
    BY <1>1 DEF Waiting
  <2> QED
    BY <1>1, <2>1, <2>2, LifeKept
<1> QED
  BY <1>2, NothingMoves

\* The reaper takes back every task whose claim is stale, and moves no other.
LEMMA ReapPromised ==
  ASSUME QueueAssumption, IInv, IInv', NEW w \in Workers, ReapStale(w)
  PROVE  Promised
<1> USE DEF redis, worker, history, vars, Goto
<1>1. /\ UNCHANGED <<retry, status, hand, done, dropped, gapped>> /\ pc[w] = "loop"
      /\ pc' = [pc EXCEPT ![w] = "promote"]
  BY DEF ReapStale
<1>2. \A v \in Workers : \A u : HeldBy(v, u)' <=> HeldBy(v, u)
  BY <1>1 DEF IInv, HeldBy, TypeOK
<1>3. TypeOK
  BY DEF IInv
<1>4. CASE UNCHANGED <<pending, running, reaped>>
  <2>1. ASSUME NEW u \in Tasks
        PROVE  Life(u)' = Life(u)
    BY <1>1, <1>2, <1>4, WaitingKept, TakenKept, LifeKept
  <2> QED
    BY <2>1, NothingMoves
<1>5. CASE ~ UNCHANGED <<pending, running, reaped>>
  <2>1. PICK order \in Orderings(Stale) : pending' = Requeued(order)
    BY <1>5 DEF ReapStale
  <2>2. /\ running' = [u \in Tasks |-> IF u \in Stale THEN Absent ELSE running[u]]
        /\ reaped' = [u \in Tasks |-> IF u \in Stale THEN reaped[u] + 1 ELSE reaped[u]]
    BY <1>5 DEF ReapStale
  <2>3. /\ \A i \in 1 .. Len(pending) : i \in 1 .. Len(pending') /\ pending'[i] = pending[i]
        /\ \A i \in 1 .. Len(pending') : \/ i \in 1 .. Len(pending)
                                         \/ pending'[i].id \in Stale
    BY <1>3, <2>1, RequeuedRange
  <2>4. ASSUME NEW u \in Tasks \ Stale
        PROVE  Life(u)' = Life(u)
    <3>1. {i \in 1 .. Len(pending) : pending[i].id = u}'
            = {i \in 1 .. Len(pending) : pending[i].id = u}
      BY <2>3
    <3>2. {pending[i].attempts : i \in {j \in 1 .. Len(pending) : pending[j].id = u}}'
            = {pending[i].attempts : i \in {j \in 1 .. Len(pending) : pending[j].id = u}}
      BY <2>3, <3>1
    <3>3. Waiting(u)' = Waiting(u)
      BY <1>1, <3>2 DEF Waiting
    <3>4. running'[u] = running[u] /\ reaped'[u] = reaped[u]
      BY <2>2
    <3> QED
      BY <1>1, <1>2, <3>3, <3>4, TakenKept, LifeKept
  <2>5. ASSUME NEW u \in Stale
        PROVE  u \in Tasks /\ Life(u).stage # "new" /\ Life(u)' = At("reclaimed", 0)
    <3>1. u \in Tasks /\ Tracked(u)
      BY DEF Stale
    <3>2. Located(u) /\ Located(u)'
      BY <3>1, TasksLocated, NextLocated
    <3>3. reaped'[u] # 0
      BY <1>3, <2>2, <3>1 DEF TypeOK
    <3>4. \A s, n : Life(u) = At(s, n) => Life(u).stage = s
      BY DEF At, Promise!At
    <3>5. \/ Life(u) = At("reclaimed", 0) \/ Life(u) = At("settled", 0)
          \/ Life(u) = At("lost", 0)
          \/ \E n : Life(u) = At("waiting", n) \/ Life(u) = At("taken", n)
      BY <3>1, <3>2 DEF Located, Settled, InPending, InRetry
    <3> QED
      BY <3>1, <3>2, <3>3, <3>4, <3>5 DEF Located
  <2>6. Lives' = [u \in Tasks |-> IF u \in Stale THEN At("reclaimed", 0) ELSE Lives[u]]
    BY <2>4, <2>5 DEF Lives
  <2>7. \A u \in Stale : Lives[u].stage # "new"
    BY <2>5 DEF Lives
  <2>8. Promise!Reclaim(Stale)
    BY <2>6, <2>7 DEF Promise!Reclaim, At, Lives
  <2>9. Stale \in SUBSET Tasks
    BY DEF Stale
  <2> QED
    BY <2>8, <2>9 DEF Promised, Promise!Next
<1> QED
  BY <1>4, <1>5

\* A promotion moves copies from one list to the other, and no life.
LEMMA PromotePromised ==
  ASSUME QueueAssumption, IInv, IInv', NEW w \in Workers, PromoteRetries(w)
  PROVE  Promised
<1> USE DEF redis, worker, history, vars, Goto
<1>1. /\ UNCHANGED <<running, reaped, status, hand, done, dropped, gapped>> /\ pc[w] = "promote"
      /\ pc' = [pc EXCEPT ![w] = "pop"]
  BY DEF PromoteRetries
<1>2. \A v \in Workers : \A u : HeldBy(v, u)' <=> HeldBy(v, u)
  BY <1>1 DEF IInv, HeldBy, TypeOK
<1>3. TypeOK
  BY DEF IInv
<1>4. ASSUME NEW u \in Tasks
      PROVE  Waiting(u)' = Waiting(u)
  <2>1. CASE UNCHANGED <<pending, retry>>
    BY <2>1, WaitingKept
  <2>2. CASE ~ UNCHANGED <<pending, retry>>
    <3>1. PICK order \in Orderings(Due) : pending' = Promoted(order)
      BY <2>2 DEF PromoteRetries
    <3>2. retry' = retry \ Due
      BY <2>2 DEF PromoteRetries, Unpromoted
    <3>3. /\ \A i \in 1 .. Len(pending) : i \in 1 .. Len(pending') /\ pending'[i] = pending[i]
          /\ \A i \in 1 .. Len(pending') :
               \/ i \in 1 .. Len(pending)
               \/ \E r \in Due : pending'[i].id = r.id /\ pending'[i].attempts = r.attempts
          /\ \A r \in Due : \E i \in 1 .. Len(pending') :
               pending'[i].id = r.id /\ pending'[i].attempts = r.attempts
      BY <1>3, <3>1, PromotedRange
    <3>4. \A n : n \in Waiting(u) <=>
            \/ \E i \in 1 .. Len(pending) : pending[i].id = u /\ pending[i].attempts = n
            \/ \E r \in retry : r.id = u /\ r.attempts = n
      BY DEF Waiting
    <3>5. \A n : n \in Waiting(u)' <=>
            \/ \E i \in 1 .. Len(pending') : pending'[i].id = u /\ pending'[i].attempts = n
            \/ \E r \in retry' : r.id = u /\ r.attempts = n
      BY DEF Waiting
    <3>6. Due \subseteq retry
      BY DEF Due
    <3>7. ASSUME NEW n
          PROVE  n \in Waiting(u)' <=> n \in Waiting(u)
      <4>1. ASSUME n \in Waiting(u) PROVE n \in Waiting(u)'
        <5>1. CASE \E i \in 1 .. Len(pending) : pending[i].id = u /\ pending[i].attempts = n
          BY <3>3, <3>5, <5>1
        <5>2. CASE \E r \in retry : r.id = u /\ r.attempts = n
          BY <3>2, <3>3, <3>5, <5>2
        <5> QED
          BY <3>4, <4>1, <5>1, <5>2
      <4>2. ASSUME n \in Waiting(u)' PROVE n \in Waiting(u)
        BY <3>2, <3>3, <3>4, <3>5, <3>6, <4>2
      <4> QED
        BY <4>1, <4>2
    <3>8. \A n : n \in Waiting(u)' <=> n \in Waiting(u)
      BY <3>7
    <3> QED
      BY <3>8 DEF Waiting
  <2> QED
    BY <2>1, <2>2
<1>5. ASSUME NEW u \in Tasks
      PROVE  Life(u)' = Life(u)
  BY <1>1, <1>2, <1>4, TakenKept, LifeKept
<1> QED
  BY <1>5, NothingMoves

\* BLPOP hands the first task of the list out, or a fault loses it.
LEMMA PopPromised ==
  ASSUME QueueAssumption, IInv, IInv', NEW w \in Workers, Pop(w)
  PROVE  Promised
<1> USE DEF redis, worker, history, vars, Goto
<1>a. /\ pc \in [Workers -> PCs] /\ hand \in [Workers -> Claim \cup {NoTask}]
      /\ pending \in Seq(Copy)
  BY DEF IInv, TypeOK
<1>1. /\ UNCHANGED <<running, retry, reaped, status, done, dropped>> /\ pc[w] = "pop"
      /\ \/ /\ pending' = pending /\ gapped' = gapped /\ hand' = hand
            /\ pc' = [pc EXCEPT ![w] = "loop"]
         \/ /\ pending # <<>> /\ pending' = Tail(pending) /\ gapped' = gapped
            /\ pc' = [pc EXCEPT ![w] = "popped"]
            /\ hand' = [hand EXCEPT ![w] = [id |-> Head(pending).id,
                                            attempts |-> Head(pending).attempts + 1,
                                            claimed_at |-> clock + 1]]
         \/ /\ pending # <<>> /\ pending' = Tail(pending) /\ hand' = hand
            /\ gapped' = gapped \cup {Head(pending).id} /\ pc' = [pc EXCEPT ![w] = "loop"]
  BY DEF Pop
<1>2. \A v \in Workers \ {w} : pc'[v] = pc[v] /\ hand'[v] = hand[v]
  BY <1>a, <1>1
<1>3. \A u : ~HeldBy(w, u)
  BY <1>1 DEF HeldBy
<1>4. CASE /\ pending' = pending /\ gapped' = gapped /\ hand' = hand
           /\ pc' = [pc EXCEPT ![w] = "loop"]
  <2>1. \A u : ~HeldBy(w, u)'
    BY <1>a, <1>4 DEF HeldBy
  <2>2. ASSUME NEW u \in Tasks
        PROVE  Life(u)' = Life(u)
    BY <1>1, <1>2, <1>3, <1>4, <2>1, WaitingKept, LifeOfOther
  <2> QED
    BY <2>2, NothingMoves
<1>5. CASE /\ pending # <<>> /\ pending' = Tail(pending)
           /\ \/ /\ gapped' = gapped /\ pc'[w] = "popped"
                 /\ hand'[w].id = Head(pending).id
                 /\ hand'[w].attempts = Head(pending).attempts + 1
              \/ gapped' = gapped \cup {Head(pending).id} /\ pc'[w] = "loop"
  <2>1. /\ \A i \in 1 .. Len(pending') : i + 1 \in 1 .. Len(pending) /\ pending'[i] = pending[i + 1]
        /\ \A i \in 1 .. Len(pending) :
             i = 1 \/ (i - 1 \in 1 .. Len(pending') /\ pending'[i - 1] = pending[i])
        /\ 1 \in 1 .. Len(pending) /\ Head(pending) = pending[1] /\ pending[1] \in Copy
    BY <1>a, <1>5, EndsOfList
  <2>2. PICK t \in Tasks : t = Head(pending).id
    BY <2>1 DEF Copy
  <2>3. PICK n \in Nat : n = Head(pending).attempts
    BY <2>1 DEF Copy
  <2>4. ASSUME NEW u \in Tasks \ {t}
        PROVE  Life(u)' = Life(u)
    <3>1. \A m : m \in Waiting(u) <=>
            \/ \E i \in 1 .. Len(pending) : pending[i].id = u /\ pending[i].attempts = m
            \/ \E r \in retry : r.id = u /\ r.attempts = m
      BY DEF Waiting
    <3>2. \A m : m \in Waiting(u)' <=>
            \/ \E i \in 1 .. Len(pending') : pending'[i].id = u /\ pending'[i].attempts = m
            \/ \E r \in retry : r.id = u /\ r.attempts = m
      BY <1>1 DEF Waiting
    <3>3. pending[1].id # u
      BY <2>1, <2>2
    <3>4. \A m : m \in Waiting(u)' <=> m \in Waiting(u)
      <4>1. ASSUME NEW m, NEW i \in 1 .. Len(pending), pending[i].id = u, pending[i].attempts = m
            PROVE  m \in Waiting(u)'
        <5>1. i - 1 \in 1 .. Len(pending') /\ pending'[i - 1] = pending[i]
          BY <2>1, <3>3, <4>1
        <5> QED
          BY <3>2, <4>1, <5>1
      <4>2. ASSUME NEW m, NEW i \in 1 .. Len(pending'), pending'[i].id = u, pending'[i].attempts = m
            PROVE  m \in Waiting(u)
        <5>1. i + 1 \in 1 .. Len(pending) /\ pending'[i] = pending[i + 1]
          BY <2>1
        <5> QED
          BY <3>1, <4>2, <5>1
      <4> QED
        BY <3>1, <3>2, <4>1, <4>2
    <3>5. Waiting(u)' = Waiting(u)
      BY <3>4 DEF Waiting
    <3>6. ~HeldBy(w, u)' /\ (u \in gapped' <=> u \in gapped)
      BY <1>5, <2>2 DEF HeldBy
    <3> QED
      BY <1>1, <1>2, <1>3, <3>5, <3>6, LifeOfOther
  <2>5. Moves(t)
    <3>1. CASE reaped[t] # 0
      BY <1>1, <3>1, ReapedMoves
    <3>2. CASE reaped[t] = 0
      <4>1. Located(t) /\ Located(t)' /\ OnePlace(t)
        BY <3>2, TasksLocated, NextLocated DEF IInv, Alone
      <4>2. pending[1].id = t /\ pending[1].attempts = n /\ InPending(t)
        BY <2>1, <2>2, <2>3 DEF InPending
      <4>3. t \notin done \cup dropped \cup gapped
        BY <4>1, <4>2 DEF OnePlace
      <4>4. Life(t) = At("waiting", n)
        BY <2>1, <3>2, <4>1, <4>2, <4>3 DEF Located, Settled
      <4>5. n < MaxAttempts
        BY <2>1, <3>2, <4>2 DEF IInv, RetryBudget, QueueAssumption
      <4>6. CASE gapped' = gapped /\ pc'[w] = "popped" /\ hand'[w].id = t /\ hand'[w].attempts = n + 1
        <5>1. HeldBy(w, t)' /\ reaped'[t] = 0 /\ ~Settled(t)'
          BY <1>1, <3>2, <4>3, <4>6 DEF HeldBy, Settled
        <5>2. Life(t)' = At("taken", n + 1)
          BY <4>1, <4>6, <5>1 DEF Located
        <5> QED
          BY <4>4, <4>5, <5>2 DEF Moves
      <4>7. CASE t \in gapped'
        <5>1. Life(t)' = At("lost", 0)
          BY <1>1, <3>2, <4>1, <4>3, <4>7 DEF Located
        <5> QED
          BY <4>4, <5>1 DEF Moves
      <4> QED
        BY <1>5, <2>2, <2>3, <4>6, <4>7
    <3> QED
      BY <3>1, <3>2
  <2> QED
    BY <2>4, <2>5, OneMoves
<1>6. CASE /\ pending # <<>> /\ pending' = Tail(pending) /\ gapped' = gapped
           /\ pc' = [pc EXCEPT ![w] = "popped"]
           /\ hand' = [hand EXCEPT ![w] = [id |-> Head(pending).id,
                                           attempts |-> Head(pending).attempts + 1,
                                           claimed_at |-> clock + 1]]
  BY <1>a, <1>5, <1>6
<1>7. CASE /\ pending # <<>> /\ pending' = Tail(pending) /\ hand' = hand
           /\ gapped' = gapped \cup {Head(pending).id} /\ pc' = [pc EXCEPT ![w] = "loop"]
  BY <1>a, <1>5, <1>7
<1> QED
  BY <1>1, <1>4, <1>6, <1>7

\* Every step of the queue is a step of the promise or stutters.
LEMMA StepPromised ==
  ASSUME QueueAssumption, IInv, [Next]_vars
  PROVE  Promised
<1>1. IInv'
  BY IInvStep
<1>2. ASSUME NEW w \in Workers, Track(w) \/ Handle(w) \/ Complete(w) \/ Fail(w) \/ Reschedule(w)
      PROVE  Promised
  <2>1. pc[w] \in Holding
    BY <1>2 DEF Track, Handle, Complete, Fail, Reschedule
  <2> QED
    BY <1>1, <1>2, <2>1, HeldPromised
<1>3. ASSUME NEW w \in Workers, Crash(w)
      PROVE  Promised
  BY <1>1, <1>3, HeldPromised, RestPromised
<1>4. ASSUME NEW w \in Workers, Stop(w) \/ Leave(w) \/ Restart(w)
      PROVE  Promised
  BY <1>1, <1>4, RestPromised
<1>5. ASSUME NEW w \in Workers, ReapStale(w) \/ PromoteRetries(w) \/ Pop(w)
      PROVE  Promised
  BY <1>1, <1>5, ReapPromised, PromotePromised, PopPromised
<1>6. CASE UNCHANGED vars
  BY <1>1, <1>6, RestPromised
<1> QED
  BY <1>1, <1>2, <1>3, <1>4, <1>5, <1>6, EnqueuePromised, TimePromised DEF Next, Loop

\* The Redis queue keeps what TaskQueue promises of a task's life: it is handed out only while
\* it waits, within its attempts, and left alone once settled, until a fault in a gap loses it
\* or the reaper takes it back; a task that was lost or taken back is out of the promise.
THEOREM Refinement == Spec => ImplementsPromise
<1>1. QueueAssumption
  BY QueueAssumption
<1>2. QueueAssumption /\ Init => Promise!Init
  <2> SUFFICES ASSUME QueueAssumption, Init
               PROVE  Promise!Init
    OBVIOUS
  <2>1. ASSUME NEW t \in Tasks
        PROVE  Life(t) = At("new", 0)
    <3>1. Located(t)
      BY IInvInit, TasksLocated
    <3>2. /\ reaped[t] = 0 /\ ~Settled(t) /\ ~InPending(t) /\ ~InRetry(t) /\ ~Tracked(t)
          /\ \A w \in Workers : ~HeldBy(w, t)
      BY DEF Init, Settled, InPending, InRetry, Tracked, HeldBy
    <3> QED
      BY <3>1, <3>2 DEF Located
  <2> QED
    BY <2>1 DEF Promise!Init, At
<1>3. QueueAssumption /\ IInv /\ [Next]_vars => [Promise!Next]_[t \in Tasks |-> Life(t)]
  BY StepPromised DEF Promised, Lives
<1> QED
  BY <1>1, <1>2, <1>3, Inductive, PTL DEF Spec, ImplementsPromise, Promise!Spec
=============================================================================
