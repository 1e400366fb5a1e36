------------------------------ MODULE Analysis ------------------------------
(***************************************************************************)
(* The analysis of telemetry: the handlers TaskWorker runs for the tasks   *)
(* ml_inference (ModelBridge.process_payload) and webhook_alert            *)
(* (_send_webhook), the verdict of RiskAggregator and the running          *)
(* statistics of BaselineEngine.                                           *)
(*                                                                         *)
(* Each replica has one worker, the queue delivers a task at least once    *)
(* (RedisTaskQueue and PgTaskQueue say how), and all share one database.   *)
(* A baseline is an append-only table of snapshots of which the one with   *)
(* the latest window_end counts; it is read, extended and saved in two     *)
(* transactions, for the user and then for the user's role.                *)
(***************************************************************************)
EXTENDS Naturals, FiniteSets

CONSTANTS
  Workers,       \* one TaskWorker per replica
  Tasks,         \* the payloads to analyse
  Users, Roles, UserOf, RoleOf,  \* whose baselines a payload belongs to
  Idle,          \* the payloads whose features may show no activity
  RawOf,         \* what the weighted detectors may give for each payload
  Corroborated,  \* the payloads whose score _verify_critical_corroboration confirms
  HasClickHouse, \* whether risk events go to ClickHouse as well
  Skew,          \* what the clock of each replica is ahead of the true time
  MaxAttempts,   \* max_attempts of each ml_inference task
  AlertAttempts, \* max_attempts of a webhook_alert task
  MaxFaults      \* bound: failed calls, crashes and repeated deliveries

Full == 10000  \* a score of 100; scores are in hundredths

ASSUME AnalysisAssumption ==
  /\ UserOf \in [Tasks -> Users] /\ RoleOf \in [Users -> Roles]
  /\ Users \cap Roles = {}
  /\ Idle \subseteq Tasks /\ Corroborated \subseteq Tasks
  /\ RawOf \in [Tasks -> SUBSET (0 .. Full)]
  /\ HasClickHouse \in BOOLEAN
  /\ Skew \in [Workers -> Nat]
  /\ MaxAttempts \in [Tasks -> Nat \ {0}] /\ AlertAttempts \in Nat \ {0}
  /\ MaxFaults \in Nat

VARIABLES
  queue,      \* the ml_inference tasks waiting
  runs,       \* how often each was started
  done, dead, \* the tasks completed and given up
  pc, job,    \* where each worker is, with which run
  entity,     \* whose baseline it is updating
  held,       \* the sample_count and window_end it is about to save
  verdict,    \* its verdict
  ready,      \* set_task_queue was called in its process
  now,        \* the true time
  snapshots,  \* the table baseline_snapshots
  events,     \* the table risk_events of PostgreSQL
  copied,     \* the runs whose event was given to ClickHouse
  published,  \* the runs whose event was broadcast to the dashboards
  alerts,     \* the webhook_alert tasks waiting: a run and the attempts made
  notified,   \* the runs whose alert the webhook accepted
  faults,
  lost,       \* history: the runs without an alert, and why
  unsaved,    \* history: the runs whose event could not be stored
  excused     \* history: the baselines that were updated by two at a time, after a
              \* failed read or with an earlier window_end than the last one

worker == <<pc, job, entity, held, verdict>>
tables == <<snapshots, events, copied>>
alerting == <<alerts, notified, published>>
history == <<lost, unsaved, excused>>
vars == <<queue, runs, done, dead, worker, ready, now, tables, alerting, faults, history>>

Run == [task : Tasks, k : 1 .. 1 + MaxFaults]
NoJob == [task |-> "none", k |-> 0]
Nobody == "nobody"
NoHeld == [count |-> 0, stamp |-> 0]
NoVerdict == [raw |-> 0, score |-> 0, seen |-> {}]
Reasons == {"unqueued", "send failed", "refused", "abandoned", "store reply", "crash"}

Init ==
  /\ queue = Tasks /\ runs = [t \in Tasks |-> 0]
  /\ done = {} /\ dead = {}
  /\ pc = [w \in Workers |-> "idle"]
  /\ job = [w \in Workers |-> NoJob]
  /\ entity = [w \in Workers |-> Nobody]
  /\ held = [w \in Workers |-> NoHeld]
  /\ verdict = [w \in Workers |-> NoVerdict]
  /\ ready = [w \in Workers |-> FALSE]
  /\ now = 0
  /\ snapshots = {} /\ events = {} /\ copied = {}
  /\ alerts = {} /\ notified = {} /\ published = {}
  /\ faults = 0
  /\ lost = {} /\ unsaved = {} /\ excused = {}

Fault == faults < MaxFaults /\ faults' = faults + 1
NoFault == UNCHANGED faults
Goto(w, label) == pc' = [pc EXCEPT ![w] = label]
User(w) == UserOf[job[w].task]
Lose(w, why) == lost' = lost \cup {[run |-> job[w], why |-> why]}

-----------------------------------------------------------------------------
(* The verdict *)

Maximum(S) == IF S = {} THEN 0 ELSE CHOOSE x \in S : \A y \in S : x >= y
Minimum(S) == IF S = {} THEN 0 ELSE CHOOSE x \in S : \A y \in S : x <= y

\* Variant: the mildest recent event counts.
PastScore_Mildest(seen) == Minimum({e.score : e \in seen})

\* get_max_risk_score_in_window.
PastScore(seen) == Maximum({e.score : e \in seen})

\* Leaky-bucket smoothing with the worst recent score, if there is one above zero.
Smoothed(raw, past) == IF past = 0 THEN raw ELSE (85 * raw + 15 * past) \div 100

\* A score of 35 or more that nothing corroborates is capped at 10.
Capped(t, score) == IF score >= 3500 /\ t \notin Corroborated THEN 1000 ELSE score

Final(t, raw, seen) == Capped(t, Smoothed(raw, PastScore(seen)))

Level(score) ==
  CASE score >= 8500 -> "critical"
    [] score >= 6000 /\ score < 8500 -> "high"
    [] score >= 3500 /\ score < 6000 -> "medium"
    [] score < 3500 -> "low"

Malicious(score) == Level(score) \in {"critical", "high"}

\* Variant: only a critical payload is kept out of the baseline.
Excluded_Critical(score) == Level(score) = "critical"

\* The safety exclusion: no update of the baseline.
Excluded(score) == Malicious(score)

-----------------------------------------------------------------------------
(* The queue, seen from the handlers *)

\* The worker is through with its task.
Free(w) ==
  /\ Goto(w, "idle")
  /\ job' = [job EXCEPT ![w] = NoJob]
  /\ entity' = [entity EXCEPT ![w] = Nobody]
  /\ held' = [held EXCEPT ![w] = NoHeld]
  /\ verdict' = [verdict EXCEPT ![w] = NoVerdict]

Start(w) ==
  /\ pc[w] = "idle"
  /\ \E t \in queue :
       /\ queue' = queue \ {t}
       /\ runs' = [runs EXCEPT ![t] = @ + 1]
       /\ job' = [job EXCEPT ![w] = [task |-> t, k |-> runs[t] + 1]]
  /\ Goto(w, "analyse")
  /\ UNCHANGED <<done, dead, entity, held, verdict, ready, now, tables, alerting, faults, history>>

\* Variant: a task that failed is not tried again.
Retried_Never(t) == queue' = queue /\ UNCHANGED dead

\* The queue's fail(): another attempt, or none is left.
Retried(t) ==
  IF runs[t] < MaxAttempts[t] THEN queue' = queue \cup {t} /\ UNCHANGED dead
                           ELSE dead' = dead \cup {t} /\ UNCHANGED queue

\* process_payload raises.
Raise(w) == Fault /\ Retried(job[w].task) /\ Free(w)

Complete(w) ==
  /\ pc[w] = "complete"
  /\ done' = done \cup {job[w].task}
  /\ Free(w)
  /\ UNCHANGED <<queue, runs, dead, ready, now, tables, alerting, faults, history>>

\* The task was reaped while it ran, or completing it failed.
Redeliver(t) ==
  /\ Fault
  /\ t \in done \/ \E w \in Workers : job[w].task = t
  /\ t \notin queue /\ queue' = queue \cup {t}
  /\ UNCHANGED <<runs, done, dead, worker, ready, now, tables, alerting, history>>

\* lifespan calls set_task_queue some time after the worker was started; only its
\* dispatch_alert looks at it, so it is soon enough to do it just before.
SetQueue(w) ==
  /\ pc[w] = "alert"
  /\ ~ready[w] /\ ready' = [ready EXCEPT ![w] = TRUE]
  /\ UNCHANGED <<queue, runs, done, dead, worker, now, tables, alerting, faults, history>>

\* The process dies and starts again; its task is delivered once more.
CrashRestart(w) ==
  /\ Fault
  /\ queue' = IF pc[w] = "idle" THEN queue ELSE queue \cup {job[w].task}
  /\ IF pc[w] = "alert" THEN Lose(w, "crash") ELSE UNCHANGED lost
  /\ Free(w)
  /\ ready' = [ready EXCEPT ![w] = FALSE]
  /\ UNCHANGED <<runs, done, dead, now, tables, alerting, unsaved, excused>>

-----------------------------------------------------------------------------
(* process_payload *)

Recent(user) == {e \in events : UserOf[e.run.task] = user}

\* Features, detectors and RiskAggregator.aggregate_detectors: only the read of the
\* baseline can make it raise, a failed read of the recent events counts as none.
Judge(w) ==
  LET t == job[w].task IN
  /\ \E raw \in RawOf[t] : \E seen \in {Recent(User(w)), {}} :
       /\ IF seen = Recent(User(w)) THEN NoFault ELSE Fault
       /\ LET score == Final(t, raw, seen) IN
          /\ verdict' = [verdict EXCEPT
                           ![w] = [raw |-> raw, score |-> score, seen |-> {e.run : e \in seen}]]
          /\ IF Excluded(score)
             THEN Goto(w, "save") /\ UNCHANGED entity
             ELSE Goto(w, "load") /\ entity' = [entity EXCEPT ![w] = User(w)]
  /\ UNCHANGED <<queue, dead, job, held>>

\* A payload without activity gets an event of score 0 and nothing else.
JudgeIdle(w) ==
  /\ job[w].task \in Idle
  /\ NoFault
  /\ Goto(w, "note")
  /\ UNCHANGED <<queue, dead, job, entity, held, verdict>>

Analyse(w) ==
  /\ pc[w] = "analyse"
  /\ JudgeIdle(w) \/ Judge(w) \/ Raise(w)
  /\ UNCHANGED <<runs, done, ready, now, tables, alerting, history>>

Of(e) == {s \in snapshots : s.entity = e}

\* Variant: the snapshots are read oldest first.
Latest_Oldest(e) == {s \in Of(e) : \A other \in Of(e) : s.stamp <= other.stamp}

\* load_baseline: ORDER BY window_end DESC LIMIT 1.
Latest(e) == {s \in Of(e) : \A other \in Of(e) : s.stamp >= other.stamp}

Counts(e) == IF Of(e) = {} THEN {0} ELSE {s.count : s \in Latest(e)}

Updating(e) == {w \in Workers : pc[w] = "keep" /\ entity[w] = e}

\* _update_single_baseline up to save_baseline: an SQL error is read as "no baseline
\* yet", so that the next snapshot starts anew; without a connection the task fails.
Load(w) ==
  /\ pc[w] = "load"
  /\ \/ /\ \E found \in Counts(entity[w]) \cup {0} :
             /\ IF found \in Counts(entity[w]) THEN NoFault ELSE Fault
             /\ held' = [held EXCEPT ![w] = [count |-> found + 1, stamp |-> now + 1 + Skew[w]]]
             /\ excused' = IF Updating(entity[w]) # {} \/ found \notin Counts(entity[w])
                           THEN excused \cup {entity[w]} ELSE excused
        /\ now' = now + 1
        /\ Goto(w, "keep")
        /\ UNCHANGED <<queue, dead, job, entity, verdict>>
     \/ Raise(w) /\ UNCHANGED <<now, excused>>
  /\ UNCHANGED <<runs, done, ready, tables, alerting, lost, unsaved>>

Snapshot(w) ==
  [entity |-> entity[w], run |-> job[w], count |-> held[w].count, stamp |-> held[w].stamp]

\* Variant: the name of the entity is not dropped at the end.
AfterKeep_KeepsEntity(w) ==
  IF entity[w] = User(w)
  THEN Goto(w, "load") /\ entity' = [entity EXCEPT ![w] = RoleOf[User(w)]]
  ELSE Goto(w, "save") /\ UNCHANGED entity

\* Variant: what was learned needs no risk event.
AfterKeep_Completes(w) ==
  IF entity[w] = User(w)
  THEN Goto(w, "load") /\ entity' = [entity EXCEPT ![w] = RoleOf[User(w)]]
  ELSE Goto(w, "complete") /\ entity' = [entity EXCEPT ![w] = Nobody]

\* The user's baseline is followed by the role's.
AfterKeep(w) ==
  IF entity[w] = User(w)
  THEN Goto(w, "load") /\ entity' = [entity EXCEPT ![w] = RoleOf[User(w)]]
  ELSE Goto(w, "save") /\ entity' = [entity EXCEPT ![w] = Nobody]

\* save_baseline; on an error it raises, whether the insert was committed or not.
Keep(w) ==
  /\ pc[w] = "keep"
  /\ \/ /\ NoFault
        /\ snapshots' = snapshots \cup {Snapshot(w)}
        /\ AfterKeep(w)
        /\ held' = [held EXCEPT ![w] = NoHeld]
        /\ UNCHANGED <<queue, dead, job, verdict>>
     \/ /\ Raise(w)
        /\ snapshots' \in {snapshots, snapshots \cup {Snapshot(w)}}
  /\ excused' = IF \E s \in Of(entity[w]) : s.stamp >= held[w].stamp
                THEN excused \cup {entity[w]} ELSE excused
  /\ UNCHANGED <<runs, done, ready, now, events, copied, alerting, lost, unsaved>>

Event(w) ==
  [run |-> job[w], raw |-> verdict[w].raw, score |-> verdict[w].score, seen |-> verdict[w].seen]

\* What follows a stored event: an alert if it is critical, and the broadcast.
AfterSave(w) == Goto(w, IF Level(verdict[w].score) = "critical" THEN "alert" ELSE "publish")

\* Variant: only the storing is guarded, the alert follows anyhow.
SaveFails_Alerts(w) ==
  /\ Fault
  /\ unsaved' = unsaved \cup {job[w]}
  /\ AfterSave(w)
  /\ UNCHANGED events

SaveFails(w) ==
  /\ Fault
  /\ unsaved' = unsaved \cup {job[w]}
  /\ Goto(w, "complete")
  /\ UNCHANGED events

\* save_risk_event, to ClickHouse first; its error is swallowed, and with it the
\* alert and the broadcast, although PostgreSQL may have committed the event.
Save(w) ==
  /\ pc[w] \in {"save", "note"}
  /\ copied' = IF HasClickHouse THEN copied \cup {job[w]} ELSE copied
  /\ \/ /\ NoFault
        /\ events' = events \cup {Event(w)}
        /\ IF pc[w] = "note" THEN Goto(w, "complete") ELSE AfterSave(w)
        /\ UNCHANGED <<lost, unsaved>>
     \/ SaveFails(w) /\ UNCHANGED lost
     \/ /\ Fault
        /\ events' = events \cup {Event(w)}
        /\ Lose(w, "store reply")
        /\ Goto(w, "complete")
        /\ UNCHANGED unsaved
  /\ UNCHANGED <<queue, runs, done, dead, job, entity, held, verdict, ready, now,
                 snapshots, alerting, excused>>

-----------------------------------------------------------------------------
(* Alerts *)

\* dispatch_alert with the task queue: enqueue reports a failure by returning None,
\* which is taken for success.
AlertByQueue(w) ==
  /\ ready[w]
  /\ Goto(w, "publish")
  /\ UNCHANGED notified
  /\ \/ NoFault /\ alerts' = alerts \cup {[run |-> job[w], tries |-> 0]} /\ UNCHANGED lost
     \/ Fault /\ Lose(w, "unqueued") /\ UNCHANGED alerts

\* dispatch_alert before set_task_queue: the webhook is called at once; an exception
\* skips the broadcast.  An answer with an error status counts as sent.
AlertDirectly(w) ==
  /\ ~ready[w]
  /\ UNCHANGED alerts
  /\ \/ NoFault /\ notified' = notified \cup {job[w]} /\ Goto(w, "publish") /\ UNCHANGED lost
     \/ Fault /\ Lose(w, "refused") /\ Goto(w, "publish") /\ UNCHANGED notified
     \/ Fault /\ Lose(w, "send failed") /\ Goto(w, "complete")
        /\ notified' \in {notified, notified \cup {job[w]}}

Alert(w) ==
  /\ pc[w] = "alert"
  /\ AlertByQueue(w) \/ AlertDirectly(w)
  /\ UNCHANGED <<queue, runs, done, dead, job, entity, held, verdict, ready, now, tables,
                 published, unsaved, excused>>

\* dispatch_threat_event.
Publish(w) ==
  /\ pc[w] = "publish"
  /\ published' = published \cup {job[w]}
  /\ Goto(w, "complete")
  /\ UNCHANGED <<queue, runs, done, dead, job, entity, held, verdict, ready, now, tables,
                 alerts, notified, faults, history>>

\* Variant: the failed send of an alert is swallowed by the handler.
SendFails_Swallowed(alert) == alerts' = alerts \ {alert} /\ UNCHANGED lost

\* _send_webhook raises: another attempt, or none is left.
SendFails(alert) ==
  IF alert.tries + 1 < AlertAttempts
  THEN /\ alerts' = (alerts \ {alert}) \cup {[alert EXCEPT !.tries = @ + 1]}
       /\ UNCHANGED lost
  ELSE /\ alerts' = alerts \ {alert}
       /\ lost' = lost \cup {[run |-> alert.run, why |-> "abandoned"]}

\* The handler of webhook_alert.  Completing the task may fail after the webhook
\* accepted the alert, a timeout may hide that it did, an answer with an error status
\* is not looked at.
SendAlert(w) ==
  /\ pc[w] = "idle"
  /\ \E alert \in alerts :
       \/ /\ NoFault
          /\ notified' = notified \cup {alert.run} /\ alerts' = alerts \ {alert}
          /\ UNCHANGED lost
       \/ /\ Fault
          /\ notified' = notified \cup {alert.run}
          /\ UNCHANGED <<alerts, lost>>
       \/ /\ Fault
          /\ alerts' = alerts \ {alert}
          /\ lost' = lost \cup {[run |-> alert.run, why |-> "refused"]}
          /\ UNCHANGED notified
       \/ /\ Fault
          /\ SendFails(alert)
          /\ notified' \in {notified, notified \cup {alert.run}}
  /\ UNCHANGED <<queue, runs, done, dead, worker, ready, now, tables, published, unsaved, excused>>

-----------------------------------------------------------------------------

Work(w) ==
  \/ Start(w) \/ Analyse(w) \/ Load(w) \/ Keep(w) \/ Save(w)
  \/ Alert(w) \/ Publish(w) \/ Complete(w) \/ SendAlert(w)

Next ==
  \/ \E w \in Workers : Work(w) \/ SetQueue(w) \/ CrashRestart(w)
  \/ \E t \in Tasks : Redeliver(t)

Spec == Init /\ [][Next]_vars

\* The worker's thread keeps polling and running.
FairSpec == Spec /\ \A w \in Workers : WF_vars(Work(w))

-----------------------------------------------------------------------------
(* Properties *)

TypeOK ==
  /\ queue \subseteq Tasks /\ done \subseteq Tasks /\ dead \subseteq Tasks
  /\ runs \in [Tasks -> 0 .. 1 + MaxFaults]
  /\ pc \in [Workers -> {"idle", "analyse", "load", "keep", "save", "note", "alert", "publish", "complete"}]
  /\ \A w \in Workers :
       /\ job[w] \in IF pc[w] = "idle" THEN {NoJob} ELSE Run
       /\ entity[w] \in IF pc[w] \in {"load", "keep"} THEN {User(w), RoleOf[User(w)]} ELSE {Nobody}
       /\ pc[w] # "keep" => held[w] = NoHeld
       /\ verdict[w].score \in 0 .. Full
       /\ held[w].count \in Nat /\ held[w].stamp \in Nat
  /\ ready \in [Workers -> BOOLEAN]
  /\ snapshots \subseteq [entity : Users \cup Roles, run : Run, count : Nat \ {0}, stamp : Nat]
  /\ \A e \in events : e.run \in Run /\ e.raw \in 0 .. Full /\ e.score \in 0 .. Full /\ e.seen \subseteq Run
  /\ copied \subseteq Run /\ published \subseteq Run /\ notified \subseteq Run /\ unsaved \subseteq Run
  /\ alerts \subseteq [run : Run, tries : 0 .. AlertAttempts - 1]
  /\ lost \subseteq [run : Run, why : Reasons]
  /\ faults \in 0 .. MaxFaults
  /\ excused \subseteq Users \cup Roles

\* No update of a baseline is forgotten: sample_count of the snapshot that counts is
\* the number of updates saved, unless two workers updated the baseline at the same
\* time, a read of it failed, or the clocks of the replicas disagree on their order.
UpdatesCounted ==
  \A e \in (Users \cup Roles) \ excused : Counts(e) = {Cardinality(Of(e))}

\* What an execution judges critical or high is in no baseline, not even for a
\* moment, whatever the other executions of the same payload came to.
MaliciousNotLearned ==
  \A s \in snapshots :
    /\ \A e \in events : e.run = s.run => ~Malicious(e.score)
    /\ \A w \in Workers : job[w] = s.run => ~Malicious(verdict[w].score)

\* No critical event is passed over in silence: it is alerted or about to be, or the
\* alert was lost in one of the known ways.
CriticalNotForgotten ==
  \A e \in events : Level(e.score) = "critical" =>
    \/ e.run \in notified
    \/ \E alert \in alerts : alert.run = e.run
    \/ \E w \in Workers : job[w] = e.run /\ pc[w] = "alert"
    \/ \E l \in lost : l.run = e.run

\* Who is alerted, or sees an event on the dashboard, finds it in the database, with
\* the level the alert claims, and in ClickHouse's batcher if there is one.
AlertsBacked ==
  /\ \A r \in notified \cup {alert.run : alert \in alerts} :
       /\ \E e \in events : e.run = r /\ Level(e.score) = "critical"
       /\ HasClickHouse => r \in copied
  /\ \A r \in published : \E e \in events : e.run = r

\* A payload that is analysed again, after what came of the first analysis is on
\* record, is not judged milder than before if it is corroborated and the detectors
\* say the same: its own event is among the recent ones.
RerunNotMilder ==
  \A d, e \in events :
    /\ d.run.task = e.run.task /\ d.raw = e.raw /\ d.run.task \in Corroborated
    /\ d.run \in e.seen /\ d.seen \subseteq e.seen
    => e.score >= d.score

\* A completed task has left its verdict in the database, or the error was swallowed.
CompletedIsRecorded ==
  \A t \in done : \/ \E e \in events : e.run.task = t
                  \/ \E r \in unsaved : r.task = t

\* Every payload is analysed or given up, and no alert waits for ever.
EventuallyHandled == <>[](done \cup dead = Tasks /\ alerts = {})

\* "Falls back to a direct synchronous send if the task queue is unavailable."
FallbackSends == \A l \in lost : l.why # "unqueued"

=============================================================================
