--------------------------- MODULE RedisTaskQueue ---------------------------
(***************************************************************************)
(* The Redis task queue of server/task_queue.py and the TaskWorker threads *)
(* that poll it.  One worker thread runs per server replica; all replicas  *)
(* share one Redis.  A worker's calls to Redis are separate steps, so that *)
(* a crash, a lost reply or another worker can come between any two.       *)
(*                                                                         *)
(* Redis holds three structures: the list "pending", the hash "running"    *)
(* (one entry per task id, stamped with claimed_at) and the sorted set     *)
(* "retry".  Lua scripts are single steps.  What Redis holds survives the  *)
(* crash of a replica; what a worker holds does not.                       *)
(***************************************************************************)
EXTENDS Naturals, Sequences, FiniteSets

CONSTANTS
  Workers,      \* the worker threads, one per replica
  Tasks,        \* the ids that enqueue may generate
  Handled,      \* the tasks whose type has a registered handler
  MaxAttempts,  \* max_attempts of every task
  MaxFaults     \* bound: shutdowns, crashes, failed calls, overrunning handlers

ASSUME QueueAssumption ==
  /\ IsFiniteSet(Tasks)
  /\ Handled \subseteq Tasks
  /\ MaxAttempts \in Nat \ {0}
  /\ MaxFaults \in Nat

VARIABLES
  pending,   \* Redis list: the tasks ready to be popped, oldest first
  running,   \* Redis hash: the in-flight entry of each task, or Absent
  retry,     \* Redis sorted set: failed tasks waiting for their back-off
  status,    \* what enqueue told the caller of each task
  pc,        \* the call each worker makes next
  hand,      \* the task each worker holds in memory
  stopping,  \* the workers whose stop event is set
  clock,     \* time.time() as a counter: each claim gets its own stamp
  faults,    \* faults so far
  reaped,    \* history: how often each task was taken from running by the reaper
  done,      \* history: the tasks whose handler returned
  dropped,   \* history: the tasks given up after their last attempt
  gapped     \* history: the tasks a fault hit while only a worker held them

redis == <<pending, running, retry>>
worker == <<pc, hand, stopping>>
history == <<reaped, done, dropped, gapped>>
vars == <<redis, status, worker, clock, faults, history>>

-----------------------------------------------------------------------------
(* Values *)

Absent == [attempts |-> 0, claimed_at |-> 0, stale |-> FALSE]  \* no entry
NoTask == <<>>                                                  \* an empty hand
Copy == [id : Tasks, attempts : Nat]
Claim == [id : Tasks, attempts : Nat, claimed_at : Nat]
Delayed == [id : Tasks, attempts : Nat, claimed_at : Nat, due : BOOLEAN]
Entry == [attempts : Nat, claimed_at : Nat, stale : BOOLEAN]

\* Between BLPOP and HSET, and between HDEL and ZADD, no Redis structure holds
\* the task of the worker.
InGap == {"popped", "rescheduling"}
\* HSET is done and neither complete nor fail has called HDEL yet.
InFlight == {"handle", "completing", "failing"}
Holding == InGap \cup InFlight
PCs == {"loop", "promote", "pop", "down"} \cup Holding

\* The orders in which a Lua loop may visit the members of a set.
Orderings(S) ==
  {s \in [1 .. Cardinality(S) -> S] :
     /\ \A x \in S : \E i \in 1 .. Cardinality(S) : s[i] = x
     /\ \A i, j \in 1 .. Cardinality(S) : s[i] = s[j] => i = j}

InPending(t) == \E i \in 1 .. Len(pending) : pending[i].id = t
InRetry(t) == \E r \in retry : r.id = t
Tracked(t) == running[t] # Absent
HeldBy(w, t) == pc[w] \in Holding /\ hand[w].id = t

Fault == faults < MaxFaults /\ faults' = faults + 1
NoFault == UNCHANGED faults

-----------------------------------------------------------------------------
Init ==
  /\ pending = <<>>
  /\ running = [t \in Tasks |-> Absent]
  /\ retry = {}
  /\ status = [t \in Tasks |-> "new"]
  /\ pc = [w \in Workers |-> "loop"]
  /\ hand = [w \in Workers |-> NoTask]
  /\ stopping = {}
  /\ clock = 0
  /\ faults = 0
  /\ reaped = [t \in Tasks |-> 0]
  /\ done = {} /\ dropped = {} /\ gapped = {}

-----------------------------------------------------------------------------
(* Callers of enqueue.  A lost reply leaves the task on the list although the *)
(* caller is told that nothing was queued.                                    *)

Enqueue(t) ==
  /\ status[t] = "new"
  /\ \/ /\ pending' = Append(pending, [id |-> t, attempts |-> 0])
        /\ \/ status' = [status EXCEPT ![t] = "accepted"] /\ NoFault
           \/ status' = [status EXCEPT ![t] = "refused"] /\ Fault
     \/ /\ status' = [status EXCEPT ![t] = "refused"] /\ Fault
        /\ UNCHANGED pending
  /\ UNCHANGED <<running, retry, worker, clock, history>>

-----------------------------------------------------------------------------
(* Time.  A back-off ends; an entry becomes older than stale_seconds, because *)
(* its worker is gone or because its handler takes that long (an overrun).    *)

Mature(r) ==
  /\ ~r.due
  /\ retry' = (retry \ {r}) \cup {[r EXCEPT !.due = TRUE]}
  /\ UNCHANGED <<pending, running, status, worker, clock, faults, history>>

Owned(t) == \E w \in Workers : /\ pc[w] \in InFlight /\ hand[w].id = t
                               /\ hand[w].claimed_at = running[t].claimed_at

Age(t) ==
  /\ Tracked(t) /\ ~running[t].stale
  /\ running' = [running EXCEPT ![t].stale = TRUE]
  /\ UNCHANGED <<pending, retry, status, worker, clock, history>>

GoStale(t) == Age(t) /\ ~Owned(t) /\ NoFault

Overrun(t) == Age(t) /\ Owned(t) /\ Fault

-----------------------------------------------------------------------------
(* TaskWorker._run: leave when the stop event is set, else reap, promote and  *)
(* pop.  The reaper's period only delays a reap, as the age in GoStale does.  *)

Goto(w, label) == pc' = [pc EXCEPT ![w] = label]

\* Variant: the worker keeps the task it has finished with.
Release_Never(w) == UNCHANGED hand

Release(w) == hand' = [hand EXCEPT ![w] = NoTask]

Stop(w) ==
  /\ w \notin stopping
  /\ Fault  \* a bounded number of shutdowns
  /\ stopping' = stopping \cup {w}
  /\ UNCHANGED <<redis, status, pc, hand, clock, history>>

Leave(w) ==
  /\ pc[w] = "loop" /\ w \in stopping
  /\ Goto(w, "down")
  /\ stopping' = stopping \ {w}
  /\ UNCHANGED <<redis, status, hand, clock, faults, history>>

\* Variant: there is no reaper.
Stale_Never == {}

Stale == {t \in Tasks : Tracked(t) /\ running[t].stale}

\* Variant: the script deletes the entries and pushes nothing.
Requeued_Nothing(order) == pending

\* The list after the reaper pushed the entries of these tasks, in this order.
Requeued(order) ==
  pending \o [i \in 1 .. Len(order) |->
                [id |-> order[i], attempts |-> running[order[i]].attempts]]

ReapStale(w) ==
  /\ pc[w] = "loop" /\ w \notin stopping
  /\ Goto(w, "promote")
  /\ \/ /\ NoFault
        /\ \E order \in Orderings(Stale) : pending' = Requeued(order)
        /\ running' = [t \in Tasks |-> IF t \in Stale THEN Absent ELSE running[t]]
        /\ reaped' = [t \in Tasks |-> IF t \in Stale THEN reaped[t] + 1 ELSE reaped[t]]
     \/ Fault /\ UNCHANGED <<pending, running, reaped>>
  /\ UNCHANGED <<retry, status, hand, stopping, clock, done, dropped, gapped>>

Due == {r \in retry : r.due}

\* The list after the promotion of these members, in this order.
Promoted(order) ==
  pending \o [i \in 1 .. Len(order) |->
                [id |-> order[i].id, attempts |-> order[i].attempts]]

\* Variant: the promotion leaves the members in the sorted set.
Unpromoted_All == retry

Unpromoted == retry \ Due

PromoteRetries(w) ==
  /\ pc[w] = "promote"
  /\ Goto(w, "pop")
  /\ \/ /\ NoFault
        /\ \E order \in Orderings(Due) : pending' = Promoted(order)
        /\ retry' = Unpromoted
     \/ Fault /\ UNCHANGED <<pending, retry>>
  /\ UNCHANGED <<running, status, hand, stopping, clock, history>>

\* BLPOP times out on an empty list; it may fail, before or after Redis popped.
Pop(w) ==
  /\ pc[w] = "pop"
  /\ IF pending = <<>>
     THEN Goto(w, "loop") /\ NoFault /\ UNCHANGED <<pending, hand, clock, gapped>>
     ELSE \/ /\ NoFault
             /\ pending' = Tail(pending)
             /\ clock' = clock + 1
             /\ hand' = [hand EXCEPT ![w] = [id |-> Head(pending).id,
                                             attempts |-> Head(pending).attempts + 1,
                                             claimed_at |-> clock + 1]]
             /\ Goto(w, "popped")
             /\ UNCHANGED gapped
          \/ /\ Fault /\ Goto(w, "loop")
             /\ UNCHANGED <<hand, clock>>
             /\ \/ UNCHANGED <<pending, gapped>>
                \/ pending' = Tail(pending) /\ gapped' = gapped \cup {Head(pending).id}
  /\ UNCHANGED <<running, retry, status, stopping, reaped, done, dropped>>

\* Variant: the claim is not written to the hash.
WithEntry_Missing(task) == running

WithEntry(task) ==
  [running EXCEPT ![task.id] =
     [attempts |-> task.attempts, claimed_at |-> task.claimed_at, stale |-> FALSE]]

\* HSET of the claim; when it raises, applied or not, claim_next returns None.
Track(w) ==
  /\ pc[w] = "popped"
  /\ \/ /\ NoFault
        /\ running' = WithEntry(hand[w])
        /\ Goto(w, "handle")
        /\ UNCHANGED <<hand, gapped>>
     \/ /\ Fault /\ Goto(w, "loop") /\ Release(w)
        /\ \/ running' = WithEntry(hand[w]) /\ UNCHANGED gapped
           \/ gapped' = gapped \cup {hand[w].id} /\ UNCHANGED running
  /\ UNCHANGED <<pending, retry, status, stopping, clock, reaped, done, dropped>>

-----------------------------------------------------------------------------
(* TaskWorker._dispatch, complete and fail *)

Handle(w) ==
  /\ pc[w] = "handle"
  /\ \/ /\ hand[w].id \in Handled
        /\ done' = done \cup {hand[w].id}
        /\ Goto(w, "completing")
     \/ Goto(w, "failing") /\ UNCHANGED done  \* it raised, or there is no handler
  /\ UNCHANGED <<redis, status, hand, stopping, clock, faults, reaped, dropped, gapped>>

\* HDEL is keyed by the task id alone; complete and fail swallow its errors.
Untrack(t) == \/ NoFault /\ running' = [running EXCEPT ![t] = Absent]
              \/ Fault /\ UNCHANGED running

Complete(w) ==
  /\ pc[w] = "completing"
  /\ Untrack(hand[w].id)
  /\ Goto(w, "loop") /\ Release(w)
  /\ UNCHANGED <<pending, retry, status, stopping, clock, history>>

\* Variant: one retry too many.
RetriesRemain_OffByOne(task) == task.attempts <= MaxAttempts

RetriesRemain(task) == task.attempts < MaxAttempts

Fail(w) ==
  /\ pc[w] = "failing"
  /\ Untrack(hand[w].id)
  /\ IF RetriesRemain(hand[w])
     THEN Goto(w, "rescheduling") /\ UNCHANGED <<hand, dropped>>
     ELSE Goto(w, "loop") /\ Release(w) /\ dropped' = dropped \cup {hand[w].id}
  /\ UNCHANGED <<pending, retry, status, stopping, clock, reaped, done, gapped>>

Reschedule(w) ==
  LET task == hand[w] IN
  /\ pc[w] = "rescheduling"
  /\ Goto(w, "loop") /\ Release(w)
  /\ \/ /\ NoFault
        /\ retry' = retry \cup {[id |-> task.id, attempts |-> task.attempts,
                                 claimed_at |-> task.claimed_at, due |-> FALSE]}
        /\ UNCHANGED gapped
     \/ Fault /\ gapped' = gapped \cup {task.id} /\ UNCHANGED retry
  /\ UNCHANGED <<pending, running, status, stopping, clock, reaped, done, dropped>>

-----------------------------------------------------------------------------
(* A replica dies (also at a shutdown: stop() does not join the daemon        *)
(* thread) and is started again.                                              *)

Crash(w) ==
  /\ pc[w] # "down"
  /\ Fault
  /\ gapped' = IF pc[w] \in InGap THEN gapped \cup {hand[w].id} ELSE gapped
  /\ Goto(w, "down") /\ Release(w)
  /\ stopping' = stopping \ {w}
  /\ UNCHANGED <<redis, status, clock, reaped, done, dropped>>

Restart(w) ==
  /\ pc[w] = "down"
  /\ Goto(w, "loop")
  /\ UNCHANGED <<redis, status, hand, stopping, clock, faults, history>>

-----------------------------------------------------------------------------
Loop(w) == \/ Leave(w) \/ ReapStale(w) \/ PromoteRetries(w) \/ Pop(w) \/ Track(w)
           \/ Handle(w) \/ Complete(w) \/ Fail(w) \/ Reschedule(w)

Next ==
  \/ \E t \in Tasks : Enqueue(t) \/ GoStale(t) \/ Overrun(t)
  \/ \E r \in retry : Mature(r)
  \/ \E w \in Workers : Stop(w) \/ Loop(w) \/ Crash(w) \/ Restart(w)

Spec == Init /\ [][Next]_vars

\* A started thread is scheduled, a stopped replica is started again, and time
\* passes.  Nothing obliges a caller to enqueue or a fault to happen.
Fairness ==
  /\ \A w \in Workers : WF_vars(Loop(w)) /\ WF_vars(Restart(w))
  /\ \A t \in Tasks : WF_vars(GoStale(t))
  /\ WF_vars(\E r \in retry : Mature(r))

FairSpec == Spec /\ Fairness

-----------------------------------------------------------------------------
(* Properties *)

\* Every structure holds what the code puts there; a worker holds a task exactly
\* between its BLPOP and the end of complete, fail or a failed claim.
TypeOK ==
  /\ pending \in Seq(Copy)
  /\ running \in [Tasks -> Entry]
  /\ retry \subseteq Delayed /\ IsFiniteSet(retry)
  /\ status \in [Tasks -> {"new", "accepted", "refused"}]
  /\ pc \in [Workers -> PCs]
  /\ hand \in [Workers -> Claim \cup {NoTask}]
  /\ \A w \in Workers : IF pc[w] \in Holding THEN hand[w] \in Claim ELSE hand[w] = NoTask
  /\ stopping \subseteq Workers
  /\ clock \in Nat /\ faults \in 0 .. MaxFaults
  /\ reaped \in [Tasks -> Nat]
  /\ done \subseteq Tasks /\ dropped \subseteq Tasks /\ gapped \subseteq Tasks

Settled(t) == t \in done \cup dropped \cup gapped
InRedis(t) == InPending(t) \/ Tracked(t) \/ InRetry(t)

\* No task that enqueue accepted is lost, whatever crashes and whichever calls
\* fail: it has been handled, was given up after its last attempt, is in Redis, or
\* is between BLPOP and HSET or between HDEL and ZADD of a live worker.  A task
\* that a fault catches in one of these two gaps is the only exception (gapped).
NoSilentLoss ==
  \A t \in Tasks : status[t] = "accepted" =>
    \/ Settled(t) \/ InRedis(t)
    \/ \E w \in Workers : pc[w] \in InGap /\ hand[w].id = t

\* The reaper requeues without looking at max_attempts, and every reap gives the
\* task at most one attempt more: no claim has a count beyond the budget plus the
\* reaps, and what waits in a list still has an attempt left under that bound.
RetryBudget ==
  /\ \A i \in 1 .. Len(pending) :
       pending[i].attempts < MaxAttempts + reaped[pending[i].id]
  /\ \A r \in retry : r.attempts < MaxAttempts + reaped[r.id]
  /\ \A t \in Tasks : running[t].attempts <= MaxAttempts + reaped[t]
  /\ \A w \in Workers : pc[w] \in Holding =>
       hand[w].attempts <= MaxAttempts + reaped[hand[w].id]
  /\ \A w \in Workers : pc[w] = "rescheduling" =>
       hand[w].attempts < MaxAttempts + reaped[hand[w].id]

\* As long as the reaper has not touched it, a task is in one place only, and nowhere
\* once it is settled by its handler or by its last attempt.
InOnePlace ==
  \A t \in Tasks : reaped[t] = 0 =>
    /\ \A i, j \in 1 .. Len(pending) : pending[i].id = t /\ pending[j].id = t => i = j
    /\ \A r, q \in retry : r.id = t /\ q.id = t => r = q
    /\ \A v, w \in Workers : HeldBy(v, t) /\ HeldBy(w, t) => v = w
    /\ InPending(t) => ~InRetry(t)
    /\ (\E w \in Workers : HeldBy(w, t)) => ~InPending(t) /\ ~InRetry(t)
    /\ t \in done \cup dropped => /\ ~InPending(t) /\ ~InRetry(t)
                                  /\ \A w \in Workers : HeldBy(w, t) => pc[w] = "completing"

\* What makes a crash recoverable: while a worker is between HSET and HDEL, the hash
\* has the entry of its very claim, unless the reaper took the task before (then the
\* HDEL of an earlier claim may delete the entry of a later one).
InFlightTracked ==
  \A w \in Workers :
    pc[w] \in InFlight /\ reaped[hand[w].id] = 0 =>
      running[hand[w].id].claimed_at = hand[w].claimed_at

\* Replicas share the queue without handing a task out twice.
Exclusive == InOnePlace /\ InFlightTracked

\* Where a task is in its life: the attempts counted of it in the lists, and in the hands
\* and the hash; a task that waits or is taken has one count only, while no reap touched it.
Waiting(t) ==
  {pending[i].attempts : i \in {j \in 1 .. Len(pending) : pending[j].id = t}}
    \cup {r.attempts : r \in {q \in retry : q.id = t}}
Taken(t) ==
  LET held == {hand[w].attempts : w \in {v \in Workers : HeldBy(v, t)}} IN
  IF held = {} /\ Tracked(t) THEN {running[t].attempts} ELSE held
Life(t) ==
  LET at(stage, tries) == [stage |-> stage, tries |-> CHOOSE n \in tries : TRUE] IN
  IF reaped[t] > 0 THEN at("reclaimed", {0})
  ELSE IF t \in done \cup dropped THEN at("settled", {0})
  ELSE IF t \in gapped THEN at("lost", {0})
  ELSE IF Waiting(t) # {} THEN at("waiting", Waiting(t))
  ELSE IF Taken(t) # {} THEN at("taken", Taken(t))
  ELSE at("new", {0})

Promise == INSTANCE TaskQueue WITH
  Mishaps <- {"lost", "reclaimed"}, life <- [t \in Tasks |-> Life(t)]

\* The queue implements the life of a task that TaskQueue promises: handed out only while
\* it waits, within its attempts, left alone once settled.  A task that a fault hits in a
\* gap and one that the reaper takes back leave that life, and nothing more is promised.
ImplementsPromise == Promise!Spec

\* Every accepted task is handled or given up in the end, through crashes, restarts,
\* failed calls and overrunning handlers, unless one of the gaps swallowed it.
EventuallySettled ==
  \A t \in Tasks : status[t] = "accepted" ~> Settled(t)

\* The queue becomes empty and stays so: no ghost entry in the hash, no copy in a
\* list outlives the tasks it was made for.
Drains == <>[](pending = <<>> /\ retry = {} /\ \A t \in Tasks : ~Tracked(t))

\* Fair workers settle every accepted task and leave nothing of it behind.
Settles == EventuallySettled /\ Drains

=============================================================================
