------------------------- MODULE PgTaskQueue_proofs -------------------------
(***************************************************************************)
(* Proofs about PgTaskQueue, for every set of workers and of tasks and     *)
(* every number of attempts, errors and outages: a claim is exclusive, a   *)
(* task is handled once, and the table implements TaskQueue.               *)
(***************************************************************************)
EXTENDS PgTaskQueue, TLAPS

USE DEF Holding, Statuses, Goto, NoError, faults, rows

-----------------------------------------------------------------------------
(* The types *)

\* The types hold at first.
LEMMA InitType == Init => TypeOK
BY PgAssumption DEF Init, TypeOK, NoTask

\* What the end of an operation writes is of the right type.
LEMMA WriteType ==
  ASSUME TypeOK, NEW w \in Workers, pc[w] \in Holding,
         NEW s \in Statuses, Write(w, s)
  PROVE  TypeOK'
<1>1. hand[w] \in Claim /\ hand[w].id \in Tasks
  BY DEF TypeOK, Claim
<1>2. status' \in [Tasks -> Statuses] /\ due' \subseteq Tasks
  BY <1>1 DEF Write, TypeOK
<1>3. errors' \in 0 .. MaxErrors /\ outages' \in 0 .. MaxOutages
  BY PgAssumption DEF Write, TypeOK, Error
<1>4. /\ pc' = [pc EXCEPT ![w] = "poll"] /\ hand' = [hand EXCEPT ![w] = NoTask]
      /\ UNCHANGED <<attempts, accepted, stopping, returned>>
  BY DEF Write, Release
<1> QED
  BY <1>2, <1>3, <1>4 DEF TypeOK

\* Every step preserves the types.
LEMMA TypeStep == TypeOK /\ [Next]_vars => TypeOK'
<1> SUFFICES ASSUME TypeOK, [Next]_vars PROVE TypeOK'
  OBVIOUS
<1>1. ASSUME NEW t \in Tasks, Enqueue(t) PROVE TypeOK'
  BY <1>1, PgAssumption DEF Enqueue, TypeOK, Error
<1>2. ASSUME NEW t \in Tasks, Mature(t) PROVE TypeOK'
  BY <1>2 DEF Mature, TypeOK
<1>3. ASSUME NEW w \in Workers, Stop(w) PROVE TypeOK'
  BY <1>3, PgAssumption DEF Stop, TypeOK, Outage
<1>4. ASSUME NEW w \in Workers, Leave(w) PROVE TypeOK'
  BY <1>4 DEF Leave, TypeOK
<1>5. ASSUME NEW w \in Workers, ClaimNext(w) PROVE TypeOK'
  <2> PICK t \in Claimable : ClaimNext(w)!2!(t)
    BY <1>5 DEF ClaimNext
  <2>1. t \in Tasks /\ attempts[t] + 1 \in Nat
    BY DEF Claimable, TypeOK
  <2>2. [id |-> t, attempts |-> attempts[t] + 1] \in Claim
    BY <2>1 DEF Claim
  <2>3. status' \in [Tasks -> Statuses] /\ attempts' \in [Tasks -> Nat]
    BY <2>1 DEF TypeOK
  <2>4. UNCHANGED <<due, accepted, stopping, returned>>
    BY <1>5 DEF ClaimNext
  <2>5. CASE NoError /\ hand' = [hand EXCEPT ![w] = [id |-> t, attempts |-> attempts[t] + 1]]
             /\ Goto(w, "handle")
    BY <2>2, <2>3, <2>4, <2>5 DEF TypeOK
  <2>6. CASE Error /\ UNCHANGED <<hand, pc>>
    BY <2>3, <2>4, <2>6, PgAssumption DEF TypeOK, Error
  <2> QED
    BY <2>5, <2>6
<1>6. ASSUME NEW w \in Workers, Handle(w) PROVE TypeOK'
  <2>1. hand[w] \in Claim /\ hand[w].id \in Tasks
    BY <1>6 DEF Handle, TypeOK, Claim
  <2> QED
    BY <1>6, <2>1 DEF Handle, TypeOK
<1>7. ASSUME NEW w \in Workers, Complete(w) PROVE TypeOK'
  BY <1>7, WriteType DEF Complete
<1>8. ASSUME NEW w \in Workers, Fail(w) PROVE TypeOK'
  BY <1>8, WriteType DEF Fail
<1>9. ASSUME NEW w \in Workers, Crash(w) PROVE TypeOK'
  BY <1>9, PgAssumption DEF Crash, TypeOK, Outage, Release
<1>10. ASSUME NEW w \in Workers, Restart(w) PROVE TypeOK'
  BY <1>10 DEF Restart, TypeOK
<1>11. CASE UNCHANGED vars
  BY <1>11 DEF vars, TypeOK
<1> QED
  BY <1>1, <1>2, <1>3, <1>4, <1>5, <1>6, <1>7, <1>8, <1>9, <1>10, <1>11 DEF Next, Loop

\* Every variable keeps its type (the columns of task_queue and the locals of _run_loop).
THEOREM TypeCorrect == Spec => []TypeOK
<1> QED
  BY InitType, TypeStep, PTL DEF Spec
-----------------------------------------------------------------------------
(* The inductive invariant *)

\* A row waits only with attempts left, and unclaimed rows have none counted.
Budget ==
  \A t \in Tasks :
    /\ attempts[t] <= MaxAttempts
    /\ status[t] \in {"new", "pending"} => attempts[t] = 0
    /\ status[t] = "retry" => attempts[t] < MaxAttempts

IInv == TypeOK /\ Budget /\ ClaimsSound

\* A worker writes to a row only between its claim and the end of the operation.
LEMMA HandFacts ==
  ASSUME TypeOK, ClaimIsCurrent, NEW w \in Workers, pc[w] \in Holding
  PROVE  /\ hand[w].id \in Tasks
         /\ status[hand[w].id] = "running" /\ attempts[hand[w].id] = hand[w].attempts
         /\ \A v \in Workers : HeldBy(v, hand[w].id) => v = w
<1>1. hand[w].id \in Tasks
  BY DEF TypeOK, Claim
<1> QED
  BY <1>1 DEF ClaimIsCurrent, HeldBy

\* The end of an operation leaves the row it wrote, or could not write, without a worker,
\* and the others as they were.
LEMMA WriteSound ==
  ASSUME IInv, NEW w \in Workers, pc[w] \in Holding, NEW s \in Statuses,
         s \in {"completed", "failed", "retry"},
         s # "completed" => returned[hand[w].id] = 0,
         s = "retry" => hand[w].attempts < MaxAttempts,
         Write(w, s)
  PROVE  Budget' /\ ClaimsSound'
<1> DEFINE t == hand[w].id
<1>1. /\ t \in Tasks /\ status[t] = "running" /\ attempts[t] = hand[w].attempts
      /\ \A v \in Workers : HeldBy(v, t) => v = w
  BY HandFacts DEF IInv, ClaimsSound
<1>2. /\ pc' = [pc EXCEPT ![w] = "poll"] /\ hand' = [hand EXCEPT ![w] = NoTask]
      /\ UNCHANGED <<attempts, returned>>
      /\ status' = [status EXCEPT ![t] = s] \/ UNCHANGED status
  BY DEF Write, Release
<1>3. \A u \in Tasks : u # t => status'[u] = status[u]
  BY <1>2 DEF IInv, TypeOK
<1>4. status'[t] = s \/ status'[t] = "running"
  BY <1>1, <1>2 DEF IInv, TypeOK
<1>5. \A v \in Workers, u \in Tasks : HeldBy(v, u)' <=> (v # w /\ HeldBy(v, u))
  BY <1>2 DEF IInv, TypeOK, HeldBy
<1>6. Budget'
  BY <1>1, <1>2, <1>3, <1>4 DEF IInv, Budget, TypeOK
<1>7. ClaimIsCurrent'
  BY <1>1, <1>2, <1>3, <1>5 DEF IInv, ClaimsSound, ClaimIsCurrent, TypeOK, HeldBy
<1>8. ASSUME NEW u \in Tasks
      PROVE  /\ returned'[u] <= 1
             /\ returned'[u] = 1 => \/ status'[u] = "completed" \/ Stuck(u)'
                                    \/ \E v \in Workers : HeldBy(v, u)' /\ pc'[v] = "completing"
  <2>0. /\ returned[u] <= 1 /\ returned[u] \in Nat
        /\ returned[u] = 1 => \/ status[u] = "completed" \/ Stuck(u)
                              \/ \E v \in Workers : HeldBy(v, u) /\ pc[v] = "completing"
    BY DEF IInv, ClaimsSound, HandledOnce, TypeOK
  <2>1. CASE u = t
    <3>1. \A v \in Workers : ~HeldBy(v, u)'
      BY <1>1, <1>5, <2>1
    <3>2. CASE status'[t] = "running"
      BY <1>2, <2>0, <2>1, <3>1, <3>2 DEF Stuck
    <3>3. CASE status'[t] = s
      BY <1>2, <2>0, <2>1, <3>3
    <3> QED
      BY <1>4, <3>2, <3>3
  <2>2. CASE u # t
    <3>1. \A v \in Workers : HeldBy(v, u)' <=> HeldBy(v, u)
      BY <1>5, <2>2 DEF HeldBy
    <3>2. \A v \in Workers : HeldBy(v, u) => pc'[v] = pc[v]
      BY <1>2, <2>2 DEF HeldBy, IInv, TypeOK
    <3> QED
      BY <1>2, <1>3, <2>0, <2>2, <3>1, <3>2 DEF Stuck
  <2> QED
    BY <2>1, <2>2
<1> QED
  BY <1>6, <1>7, <1>8 DEF ClaimsSound, HandledOnce

\* The invariant holds at first.
LEMMA InitSound == Init => IInv
<1> SUFFICES ASSUME Init PROVE IInv
  OBVIOUS
<1>1. Budget /\ ClaimsSound
  BY PgAssumption DEF Init, Budget, ClaimsSound, ClaimIsCurrent, HandledOnce, HeldBy
<1> QED
  BY <1>1, InitType DEF IInv

\* Steps that write no claimed row and move no worker into an operation or out of one.
LEMMA ElsewhereSound ==
  ASSUME IInv, TypeOK', Budget', UNCHANGED <<attempts, hand, returned>>,
         \A t \in Tasks : status'[t] = status[t] \/ (status[t] = "new" /\ status'[t] = "pending"),
         \A w \in Workers : pc'[w] = pc[w] \/ (pc[w] \notin Holding /\ pc'[w] \notin Holding)
  PROVE  IInv'
<1>1. \A w \in Workers, t \in Tasks : HeldBy(w, t)' <=> HeldBy(w, t)
  BY DEF HeldBy, IInv, TypeOK
<1>2. ClaimIsCurrent'
  BY <1>1 DEF IInv, ClaimsSound, ClaimIsCurrent, TypeOK, HeldBy
<1>3. \A t \in Tasks : Stuck(t) => Stuck(t)'
  BY <1>1 DEF Stuck
<1>4. \A w \in Workers, t \in Tasks : HeldBy(w, t) => pc'[w] = pc[w]
  BY DEF HeldBy, IInv, TypeOK
<1>5. HandledOnce'
  BY <1>1, <1>3, <1>4 DEF IInv, ClaimsSound, HandledOnce, TypeOK
<1> QED
  BY <1>2, <1>5 DEF IInv, ClaimsSound

\* Every step preserves the invariant.
LEMMA SoundStep == IInv /\ [Next]_vars => IInv'
<1> SUFFICES ASSUME IInv, [Next]_vars PROVE IInv'
  OBVIOUS
<1>0. TypeOK /\ TypeOK' /\ Budget /\ ClaimIsCurrent /\ HandledOnce
  BY TypeStep DEF IInv, ClaimsSound
<1>1. ASSUME NEW t \in Tasks, Enqueue(t) PROVE IInv'
  <2>1. status[t] = "new" /\ status' = [status EXCEPT ![t] = "pending"]
        /\ UNCHANGED <<attempts, pc, hand, returned>>
    BY <1>1 DEF Enqueue
  <2>2. Budget'
    BY <1>0, <2>1 DEF Budget, TypeOK
  <2>3. \A u \in Tasks : status'[u] = status[u] \/ (status[u] = "new" /\ status'[u] = "pending")
    BY <1>0, <2>1 DEF TypeOK
  <2> QED
    BY <1>0, <2>1, <2>2, <2>3, ElsewhereSound
<1>2. ASSUME NEW t \in Tasks, Mature(t) PROVE IInv'
  <2>1. UNCHANGED <<status, attempts, pc, hand, returned>>
    BY <1>2 DEF Mature
  <2>2. Budget'
    BY <1>0, <2>1 DEF Budget
  <2> QED
    BY <1>0, <2>1, <2>2, ElsewhereSound
<1>3. ASSUME NEW w \in Workers, Stop(w) PROVE IInv'
  <2>1. UNCHANGED <<status, attempts, pc, hand, returned>>
    BY <1>3 DEF Stop
  <2>2. Budget'
    BY <1>0, <2>1 DEF Budget
  <2> QED
    BY <1>0, <2>1, <2>2, ElsewhereSound
<1>4. ASSUME NEW w \in Workers, Leave(w) PROVE IInv'
  <2>1. UNCHANGED <<status, attempts, hand, returned>> /\ pc[w] = "poll"
        /\ pc' = [pc EXCEPT ![w] = "down"]
    BY <1>4 DEF Leave
  <2>2. \A v \in Workers : pc'[v] = pc[v] \/ (pc[v] \notin Holding /\ pc'[v] \notin Holding)
    BY <1>0, <2>1 DEF TypeOK
  <2>3. Budget'
    BY <1>0, <2>1 DEF Budget
  <2> QED
    BY <1>0, <2>1, <2>2, <2>3, ElsewhereSound
<1>5. ASSUME NEW w \in Workers, ClaimNext(w) PROVE IInv'
  <2> PICK t \in Claimable : ClaimNext(w)!2!(t)
    BY <1>5 DEF ClaimNext
  <2>1. /\ t \in Tasks /\ status[t] \in {"pending", "retry"} /\ attempts[t] < MaxAttempts
        /\ pc[w] = "poll" /\ UNCHANGED returned
        /\ status' = [status EXCEPT ![t] = "running"]
        /\ attempts' = [attempts EXCEPT ![t] = @ + 1]
    BY <1>0, <1>5, PgAssumption DEF Claimable, TypeOK, Budget, ClaimNext
  <2>2. Budget'
    BY <1>0, <2>1, PgAssumption DEF Budget, TypeOK
  <2>3. \A v \in Workers : ~HeldBy(v, t)
    BY <1>0, <2>1 DEF ClaimIsCurrent
  <2>4. returned[t] = 0
    BY <1>0, <2>1, <2>3 DEF HandledOnce, Stuck, TypeOK
  <2>5. CASE /\ hand' = [hand EXCEPT ![w] = [id |-> t, attempts |-> attempts[t] + 1]]
             /\ pc' = [pc EXCEPT ![w] = "handle"]
    <3>1. \A v \in Workers, u \in Tasks :
            HeldBy(v, u)' <=> HeldBy(v, u) \/ (v = w /\ u = t)
      BY <1>0, <2>1, <2>5 DEF HeldBy, TypeOK
    <3>2. ~ \E u \in Tasks : HeldBy(w, u)
      BY <2>1 DEF HeldBy
    <3>3. ClaimIsCurrent'
      BY <1>0, <2>1, <2>3, <2>5, <3>1, <3>2 DEF ClaimIsCurrent, TypeOK
    <3>4. \A u \in Tasks : u # t /\ Stuck(u) => Stuck(u)'
      BY <1>0, <2>1, <3>1 DEF Stuck, TypeOK
    <3>5. \A v \in Workers, u \in Tasks : HeldBy(v, u) => pc'[v] = pc[v]
      BY <1>0, <2>1, <2>5, <3>2 DEF TypeOK
    <3>6. HandledOnce'
      BY <1>0, <2>1, <2>4, <3>1, <3>4, <3>5 DEF HandledOnce, TypeOK
    <3> QED
      BY <1>0, <2>2, <3>3, <3>6 DEF IInv, ClaimsSound
  <2>6. CASE UNCHANGED <<hand, pc>>
    <3>1. \A v \in Workers, u \in Tasks : HeldBy(v, u)' <=> HeldBy(v, u)
      BY <2>6 DEF HeldBy
    <3>2. ClaimIsCurrent'
      BY <1>0, <2>1, <2>3, <2>6, <3>1 DEF ClaimIsCurrent, TypeOK
    <3>3. \A u \in Tasks : u # t /\ Stuck(u) => Stuck(u)'
      BY <1>0, <2>1, <3>1 DEF Stuck, TypeOK
    <3>4. HandledOnce'
      BY <1>0, <2>1, <2>4, <2>6, <3>1, <3>3 DEF HandledOnce, TypeOK
    <3> QED
      BY <1>0, <2>2, <3>2, <3>4 DEF IInv, ClaimsSound
  <2> QED
    BY <2>5, <2>6
<1>6. ASSUME NEW w \in Workers, Handle(w) PROVE IInv'
  <2> DEFINE t == hand[w].id
  <2>1. /\ pc[w] = "handle" /\ UNCHANGED <<status, attempts, hand>>
        /\ t \in Tasks /\ HeldBy(w, t) /\ status[t] = "running"
        /\ \A v \in Workers : HeldBy(v, t) => v = w
    BY <1>0, <1>6, HandFacts DEF Handle, HeldBy
  <2>2. returned[t] = 0
    BY <1>0, <2>1 DEF HandledOnce, Stuck, TypeOK
  <2>3. \A v \in Workers, u \in Tasks :
          /\ HeldBy(v, u)' <=> HeldBy(v, u)
          /\ v # w => pc'[v] = pc[v]
    BY <1>0, <1>6, <2>1 DEF HeldBy, Handle, TypeOK
  <2>4. Budget' /\ ClaimIsCurrent'
    BY <1>0, <2>1, <2>3 DEF Budget, ClaimIsCurrent
  <2>5. \A u \in Tasks : Stuck(u) => Stuck(u)'
    BY <2>1, <2>3 DEF Stuck
  <2>6. \A u \in Tasks : u # t => returned'[u] = returned[u] /\ ~HeldBy(w, u)
    BY <1>0, <1>6, <2>1 DEF Handle, HeldBy, TypeOK
  <2>7. returned'[t] = 0 \/ (returned'[t] = 1 /\ pc'[w] = "completing")
    <3>1. CASE UNCHANGED returned
      BY <2>2, <3>1
    <3>2. CASE /\ returned' = [returned EXCEPT ![t] = @ + 1]
               /\ pc' = [pc EXCEPT ![w] = "completing"]
      BY <1>0, <2>1, <2>2, <3>2 DEF TypeOK
    <3> QED
      BY <1>6, <3>1, <3>2 DEF Handle
  <2>8. HandledOnce'
    BY <1>0, <2>1, <2>3, <2>5, <2>6, <2>7 DEF HandledOnce
  <2> QED
    BY <1>0, <2>4, <2>8 DEF IInv, ClaimsSound
<1>7. ASSUME NEW w \in Workers, Complete(w) PROVE IInv'
  BY <1>0, <1>7, WriteSound DEF Complete, IInv
<1>8. ASSUME NEW w \in Workers, Fail(w) PROVE IInv'
  <2>1. pc[w] = "failing"
    BY <1>8 DEF Fail
  <2>2. /\ hand[w].id \in Tasks /\ status[hand[w].id] = "running" /\ HeldBy(w, hand[w].id)
        /\ \A v \in Workers : HeldBy(v, hand[w].id) => v = w
    BY <1>0, <2>1, HandFacts DEF HeldBy
  <2>3. returned[hand[w].id] = 0
    BY <1>0, <2>1, <2>2 DEF HandledOnce, Stuck, TypeOK
  <2> QED
    BY <1>0, <1>8, <2>1, <2>3, WriteSound DEF Fail, RetriesRemain, IInv
<1>9. ASSUME NEW w \in Workers, Crash(w) PROVE IInv'
  <2>1. /\ pc' = [pc EXCEPT ![w] = "down"] /\ hand' = [hand EXCEPT ![w] = NoTask]
        /\ UNCHANGED <<status, attempts, returned>>
    BY <1>9 DEF Crash, Release
  <2>2. \A v \in Workers, u \in Tasks :
          /\ HeldBy(v, u)' <=> v # w /\ HeldBy(v, u)
          /\ v # w => pc'[v] = pc[v]
    BY <1>0, <2>1 DEF HeldBy, TypeOK
  <2>3. Budget' /\ ClaimIsCurrent'
    BY <1>0, <2>1, <2>2 DEF Budget, ClaimIsCurrent, HeldBy, TypeOK
  <2>4. \A u \in Tasks : Stuck(u) \/ HeldBy(w, u) => Stuck(u)'
    BY <1>0, <2>1, <2>2 DEF Stuck, ClaimIsCurrent
  <2>5. HandledOnce'
    BY <1>0, <2>1, <2>2, <2>4 DEF HandledOnce
  <2> QED
    BY <1>0, <2>3, <2>5 DEF IInv, ClaimsSound
<1>10. ASSUME NEW w \in Workers, Restart(w) PROVE IInv'
  <2>1. UNCHANGED <<status, attempts, hand, returned>> /\ pc[w] = "down"
        /\ pc' = [pc EXCEPT ![w] = "poll"]
    BY <1>10 DEF Restart
  <2>2. \A v \in Workers : pc'[v] = pc[v] \/ (pc[v] \notin Holding /\ pc'[v] \notin Holding)
    BY <1>0, <2>1 DEF TypeOK
  <2>3. Budget'
    BY <1>0, <2>1 DEF Budget
  <2> QED
    BY <1>0, <2>1, <2>2, <2>3, ElsewhereSound
<1>11. CASE UNCHANGED vars
  <2>1. UNCHANGED <<status, attempts, pc, hand, returned>>
    BY <1>11 DEF vars
  <2>2. Budget'
    BY <1>0, <2>1 DEF Budget
  <2> QED
    BY <1>0, <2>1, <2>2, ElsewhereSound
<1> QED
  BY <1>1, <1>2, <1>3, <1>4, <1>5, <1>6, <1>7, <1>8, <1>9, <1>10, <1>11 DEF Next, Loop

\* The invariant the theorems below follow from: what a worker knows of the row it claimed.
THEOREM Inductive == Spec => []IInv
<1> QED
  BY InitSound, SoundStep, PTL DEF Spec

\* However many replicas poll the table, and whatever fails or dies: a claimed row has one
\* owner, and a task is not handled again once its handler returned (claim_next, complete).
THEOREM ClaimsAreSound == Spec => []ClaimsSound
<1>1. IInv => ClaimsSound
  BY DEF IInv
<1> QED
  BY <1>1, Inductive, PTL

-----------------------------------------------------------------------------
(* The refinement *)

Lives == [t \in Tasks |-> Life(t)]
At(stage, tries) == Promise!At(stage, tries)

\* A write of one row moves the life of its task alone.
LEMMA LivesMove ==
  ASSUME TypeOK, NEW t \in Tasks, NEW s \in Statuses, NEW n \in Nat,
         status' = [status EXCEPT ![t] = s], attempts' = [attempts EXCEPT ![t] = n]
  PROVE  Promise!Becomes(t, Stage(s), IF Stage(s) = "settled" THEN 0 ELSE n)
<1>1. status'[t] = s /\ attempts'[t] = n
  BY DEF TypeOK
<1>2. Life(t)' = At(Stage(s), IF Stage(s) = "settled" THEN 0 ELSE n)
  BY <1>1 DEF Life, At, Promise!At
<1>3. ASSUME NEW u \in Tasks \ {t}
      PROVE  Life(u)' = Life(u)
  <2>1. status'[u] = status[u] /\ attempts'[u] = attempts[u]
    BY DEF TypeOK
  <2> QED
    BY <2>1 DEF Life
<1> QED
  BY <1>2, <1>3 DEF Promise!Becomes, At

\* Every transaction is a step of the promised life of one task, or of none.
LEMMA StepPromised ==
  ASSUME IInv, TypeOK', [Next]_vars
  PROVE  [Promise!Next]_Lives
<1>0. TypeOK /\ Budget /\ ClaimIsCurrent
  BY DEF IInv, ClaimsSound
<1>1. \A t \in Tasks : /\ status[t] \in Statuses /\ attempts[t] \in Nat
                       /\ Lives[t].stage = Stage(status[t])
                       /\ Stage(status[t]) # "settled" => Lives[t].tries = attempts[t]
  BY <1>0 DEF Lives, Life, TypeOK
<1>2. ASSUME UNCHANGED <<status, attempts>>
      PROVE  UNCHANGED Lives
  BY <1>2 DEF Lives, Life
<1>3. ASSUME NEW t \in Tasks, Enqueue(t) PROVE Promise!Submit(t)
  <2>1. status[t] = "new" /\ status' = [status EXCEPT ![t] = "pending"] /\ UNCHANGED attempts
    BY <1>3 DEF Enqueue
  <2>2. attempts' = [attempts EXCEPT ![t] = attempts[t]]
    BY <1>0, <2>1 DEF TypeOK
  <2>3. Promise!Becomes(t, Stage("pending"), IF Stage("pending") = "settled" THEN 0 ELSE attempts[t])
    BY <1>0, <1>1, <2>1, <2>2, LivesMove DEF Statuses
  <2> QED
    BY <1>1, <2>1, <2>3 DEF Promise!Submit, Stage, Lives
<1>4. ASSUME NEW w \in Workers, ClaimNext(w)
      PROVE  \E t \in Tasks : Promise!Take(t)
  <2> PICK t \in Claimable : ClaimNext(w)!2!(t)
    BY <1>4 DEF ClaimNext
  <2>1. /\ t \in Tasks /\ status[t] \in {"pending", "retry"} /\ attempts[t] < MaxAttempts
        /\ status' = [status EXCEPT ![t] = "running"]
        /\ attempts' = [attempts EXCEPT ![t] = @ + 1]
    BY <1>0, PgAssumption DEF Claimable, TypeOK, Budget
  <2>2. Promise!Becomes(t, Stage("running"),
                        IF Stage("running") = "settled" THEN 0 ELSE attempts[t] + 1)
    <3>1. attempts' = [attempts EXCEPT ![t] = attempts[t] + 1] /\ attempts[t] + 1 \in Nat
      BY <1>1, <2>1
    <3>2. \A n \in Nat : attempts' = [attempts EXCEPT ![t] = n] =>
            Promise!Becomes(t, Stage("running"), IF Stage("running") = "settled" THEN 0 ELSE n)
      BY <1>0, <2>1, LivesMove DEF Statuses
    <3> QED
      BY <3>1, <3>2
  <2>3. Promise!Take(t)
    BY <1>1, <2>1, <2>2 DEF Promise!Take, Stage, Lives
  <2> QED
    BY <2>1, <2>3
<1>5. ASSUME NEW w \in Workers, pc[w] \in Holding, NEW s \in {"completed", "failed", "retry"},
             s = "retry" => hand[w].attempts < MaxAttempts, Write(w, s)
      PROVE  Promise!Next \/ UNCHANGED Lives
  <2>0. PICK t \in Tasks : t = hand[w].id /\ status[t] = "running" /\ attempts[t] = hand[w].attempts
    BY <1>0, <1>5, HandFacts
  <2>1. UNCHANGED attempts /\ attempts' = [attempts EXCEPT ![t] = attempts[t]]
    BY <1>0, <1>5 DEF Write, TypeOK
  <2>2. CASE UNCHANGED status
    BY <1>2, <2>1, <2>2
  <2>3. CASE status' = [status EXCEPT ![t] = s]
    <3>1. Promise!Becomes(t, Stage(s), IF Stage(s) = "settled" THEN 0 ELSE attempts[t])
      BY <1>0, <1>1, <2>1, <2>3, LivesMove DEF Statuses
    <3>2. Promise!GiveBack(t) \/ Promise!Settle(t)
      BY <1>1, <1>5, <2>0, <3>1 DEF Promise!GiveBack, Promise!Settle, Stage, Lives
    <3> QED
      BY <3>2 DEF Promise!Next
  <2> QED
    BY <1>5, <2>0, <2>2, <2>3 DEF Write
<1>6. ASSUME NEW w \in Workers, Complete(w) \/ Fail(w)
      PROVE  Promise!Next \/ UNCHANGED Lives
  BY <1>5, <1>6 DEF Complete, Fail, RetriesRemain
<1>7. CASE \/ \E t \in Tasks : Mature(t)
           \/ \E w \in Workers : Stop(w) \/ Leave(w) \/ Handle(w) \/ Crash(w) \/ Restart(w)
           \/ UNCHANGED vars
  BY <1>2, <1>7 DEF Mature, Stop, Leave, Handle, Crash, Restart, vars
<1> QED
  BY <1>3, <1>4, <1>6, <1>7 DEF Next, Loop, Promise!Next

\* The table task_queue keeps what TaskQueue promises of each task's life, without a mishap:
\* handed out only while it waits, within its attempts, and left alone once it is settled.
THEOREM Refinement == Spec => ImplementsPromise
<1>1. Init => Promise!Init
  BY DEF Init, Promise!Init, Promise!At, Stage, Life
<1>2. IInv /\ [Next]_vars => [Promise!Next]_[t \in Tasks |-> Life(t)]
  BY StepPromised, TypeStep DEF IInv, Lives
<1> QED
  BY <1>1, <1>2, Inductive, PTL DEF Spec, ImplementsPromise, Promise!Spec
=============================================================================
