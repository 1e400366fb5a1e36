---------------------------- MODULE PgTaskQueue ----------------------------
(***************************************************************************)
(* The PostgreSQL task queue of server/task_queue.py, the fallback when no *)
(* Redis is configured or reachable, and the TaskWorker threads that poll  *)
(* it.  Each operation is one transaction on the table task_queue, so it   *)
(* is one step; the reply to a transaction that was committed may be lost. *)
(* Unlike the Redis queue this one has no reaper.                          *)
(***************************************************************************)
EXTENDS Naturals

CONSTANTS
  Workers,      \* the worker threads, one per replica
  Tasks,        \* the ids that enqueue may generate
  Handled,      \* the tasks whose type has a registered handler
  MaxAttempts,  \* max_attempts of every task
  MaxErrors,    \* bound: transactions that fail or whose reply is lost
  MaxOutages    \* bound: shutdowns and crashes of replicas

ASSUME PgAssumption ==
  /\ Handled \subseteq Tasks
  /\ MaxAttempts \in Nat \ {0}
  /\ MaxErrors \in Nat /\ MaxOutages \in Nat

VARIABLES
  status,    \* the status column of each row; "new" when there is no row
  attempts,  \* the attempts column
  due,       \* the rows whose scheduled_at is past
  accepted,  \* the tasks whose id enqueue returned to the caller
  pc,        \* what each worker does next
  hand,      \* the task and attempt each worker holds
  stopping,  \* the workers whose stop event is set
  errors,    \* failed transactions so far
  outages,   \* shutdowns and crashes so far
  returned   \* history: how often the handler of each task returned

rows == <<status, attempts, due>>
faults == <<errors, outages>>
vars == <<rows, accepted, pc, hand, stopping, faults, returned>>

NoTask == <<>>
Claim == [id : Tasks, attempts : Nat]
Statuses == {"new", "pending", "retry", "running", "completed", "failed"}
Holding == {"handle", "completing", "failing"}

Error == errors < MaxErrors /\ errors' = errors + 1 /\ UNCHANGED outages
Outage == outages < MaxOutages /\ outages' = outages + 1 /\ UNCHANGED errors
NoError == UNCHANGED faults
Goto(w, label) == pc' = [pc EXCEPT ![w] = label]

Init ==
  /\ status = [t \in Tasks |-> "new"]
  /\ attempts = [t \in Tasks |-> 0]
  /\ due = {}
  /\ accepted = {}
  /\ pc = [w \in Workers |-> "poll"]
  /\ hand = [w \in Workers |-> NoTask]
  /\ stopping = {}
  /\ errors = 0 /\ outages = 0
  /\ returned = [t \in Tasks |-> 0]

\* INSERT and commit, scheduled now.  On an error the caller gets None, although
\* the row may be there (an error without a row changes nothing).
Enqueue(t) ==
  /\ status[t] = "new" /\ t \notin accepted
  /\ \/ accepted' = accepted \cup {t} /\ NoError
     \/ UNCHANGED accepted /\ Error
  /\ status' = [status EXCEPT ![t] = "pending"]
  /\ due' = due \cup {t}
  /\ UNCHANGED <<attempts, pc, hand, stopping, returned>>

\* Variant: scheduled_at is never reached.
Mature_Never(t) == FALSE /\ UNCHANGED vars

\* The back-off of a row ends.
Mature(t) ==
  /\ status[t] = "retry" /\ t \notin due
  /\ due' = due \cup {t}
  /\ UNCHANGED <<status, attempts, accepted, pc, hand, stopping, faults, returned>>

Stop(w) ==
  /\ w \notin stopping
  /\ Outage
  /\ stopping' = stopping \cup {w}
  /\ UNCHANGED <<rows, accepted, pc, hand, returned>>

Leave(w) ==
  /\ pc[w] = "poll" /\ w \in stopping
  /\ Goto(w, "down")
  /\ stopping' = stopping \ {w}
  /\ UNCHANGED <<rows, accepted, hand, faults, returned>>

\* Variant: the subquery looks for what is not completed.
Claimable_AnyStatus == {t \in due : status[t] # "completed"}

\* The rows the subquery of claim_next may return.
Claimable == {t \in due : status[t] \in {"pending", "retry"}}

\* UPDATE ... FOR UPDATE SKIP LOCKED of one claimable row, and commit.  With none, or
\* when it fails without effect, the worker polls again.  It may also fail with the
\* row claimed, and then no worker knows.
ClaimNext(w) ==
  /\ pc[w] = "poll" /\ w \notin stopping
  /\ \E t \in Claimable :
       /\ status' = [status EXCEPT ![t] = "running"]
       /\ attempts' = [attempts EXCEPT ![t] = @ + 1]
       /\ \/ /\ NoError
             /\ hand' = [hand EXCEPT ![w] = [id |-> t, attempts |-> attempts[t] + 1]]
             /\ Goto(w, "handle")
          \/ Error /\ UNCHANGED <<hand, pc>>
  /\ UNCHANGED <<due, accepted, stopping, returned>>

Handle(w) ==
  /\ pc[w] = "handle"
  /\ \/ /\ hand[w].id \in Handled
        /\ returned' = [returned EXCEPT ![hand[w].id] = @ + 1]
        /\ Goto(w, "completing")
     \/ Goto(w, "failing") /\ UNCHANGED returned  \* it raised, or there is no handler
  /\ UNCHANGED <<rows, accepted, hand, stopping, faults>>

\* Variant: the worker keeps the task it has finished with.
Release_Never(w) == UNCHANGED hand

Release(w) == hand' = [hand EXCEPT ![w] = NoTask]

\* The end of an operation of the worker: its UPDATE by id, which schedules a retry
\* for later, or an error swallowed.
Write(w, newStatus) ==
  /\ \/ /\ NoError
        /\ status' = [status EXCEPT ![hand[w].id] = newStatus]
        /\ due' = IF newStatus = "retry" THEN due \ {hand[w].id} ELSE due
     \/ Error /\ UNCHANGED <<status, due>>
  /\ Goto(w, "poll")
  /\ Release(w)
  /\ UNCHANGED <<attempts, accepted, stopping, returned>>

\* Variant: a completed task is left for a later retry.
Complete_AsRetry(w) == pc[w] = "completing" /\ Write(w, "retry")

Complete(w) == pc[w] = "completing" /\ Write(w, "completed")

\* Variant: one attempt too many.
RetriesRemain_OffByOne(claim) == claim.attempts <= MaxAttempts

RetriesRemain(claim) == claim.attempts < MaxAttempts

Fail(w) ==
  /\ pc[w] = "failing"
  /\ Write(w, IF RetriesRemain(hand[w]) THEN "retry" ELSE "failed")

\* The process dies; PostgreSQL keeps the rows.
Crash(w) ==
  /\ pc[w] # "down"
  /\ Outage
  /\ Goto(w, "down") /\ Release(w)
  /\ stopping' = stopping \ {w}
  /\ UNCHANGED <<rows, accepted, returned>>

Restart(w) ==
  /\ pc[w] = "down"
  /\ Goto(w, "poll")
  /\ UNCHANGED <<rows, accepted, hand, stopping, faults, returned>>

Loop(w) == Leave(w) \/ ClaimNext(w) \/ Handle(w) \/ Complete(w) \/ Fail(w)

Next ==
  \/ \E t \in Tasks : Enqueue(t) \/ Mature(t)
  \/ \E w \in Workers : Stop(w) \/ Loop(w) \/ Crash(w) \/ Restart(w)

Spec == Init /\ [][Next]_vars

\* Threads are scheduled, replicas restarted, time passes; nobody has to enqueue.
Fairness ==
  /\ \A w \in Workers : WF_vars(Loop(w)) /\ WF_vars(Restart(w))
  /\ \A t \in Tasks : WF_vars(Mature(t))

FairSpec == Spec /\ Fairness

-----------------------------------------------------------------------------
(* Properties *)

TypeOK ==
  /\ status \in [Tasks -> Statuses]
  /\ attempts \in [Tasks -> Nat]
  /\ due \subseteq Tasks /\ accepted \subseteq Tasks
  /\ pc \in [Workers -> {"poll", "down"} \cup Holding]
  /\ hand \in [Workers -> Claim \cup {NoTask}]
  /\ \A w \in Workers : IF pc[w] \in Holding THEN hand[w] \in Claim ELSE hand[w] = NoTask
  /\ stopping \subseteq Workers
  /\ errors \in 0 .. MaxErrors /\ outages \in 0 .. MaxOutages
  /\ returned \in [Tasks -> Nat]

HeldBy(w, t) == pc[w] \in Holding /\ hand[w].id = t

\* A row that was claimed and that no worker will ever write again.
Stuck(t) == status[t] = "running" /\ \A w \in Workers : ~HeldBy(w, t)

\* A claim is exclusive: complete and fail write by id alone and check neither
\* status nor locked_by, so they rely on the row still being the one that was claimed.
ClaimIsCurrent ==
  \A w \in Workers, t \in Tasks : HeldBy(w, t) =>
    /\ status[t] = "running" /\ attempts[t] = hand[w].attempts
    /\ \A v \in Workers : HeldBy(v, t) => v = w

\* No task is handled again after its handler returned, not even when the write of
\* "completed" fails or the replica dies before it.
HandledOnce ==
  \A t \in Tasks :
    /\ returned[t] <= 1
    /\ returned[t] = 1 => \/ status[t] = "completed" \/ Stuck(t)
                          \/ \E w \in Workers : HeldBy(w, t) /\ pc[w] = "completing"

\* Replicas share the table without a second owner or a second execution.
ClaimsSound == ClaimIsCurrent /\ HandledOnce

\* Every accepted task ends as completed or failed, unless its row is stuck.
EventuallySettled ==
  \A t \in Tasks : t \in accepted ~> status[t] \in {"completed", "failed"} \/ Stuck(t)

\* No data is lost on a server restart: every task that was accepted has been handled
\* in the end, or has failed for good.
SurvivesRestart ==
  \A t \in Tasks : t \in accepted ~> returned[t] > 0 \/ status[t] = "failed"

\* Where a task is in its life, by the columns status and attempts of its row.
Stage(s) ==
  CASE s = "new" -> "new"
    [] s \in {"pending", "retry"} -> "waiting"
    [] s = "running" -> "taken"
    [] s \in {"completed", "failed"} -> "settled"
Life(t) == [stage |-> Stage(status[t]),
            tries |-> IF Stage(status[t]) = "settled" THEN 0 ELSE attempts[t]]

Promise == INSTANCE TaskQueue WITH Mishaps <- {}, life <- [t \in Tasks |-> Life(t)]

\* The table implements the life of a task that TaskQueue promises, and no task is lost or
\* taken back from its worker.
ImplementsPromise == Promise!Spec

=============================================================================
