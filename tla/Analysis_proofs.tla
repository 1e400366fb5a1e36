--------------------------- MODULE Analysis_proofs ---------------------------
(***************************************************************************)
(* Proofs about Analysis, for every set of workers and payloads and every  *)
(* bound of attempts and faults: what is judged malicious is not learned,  *)
(* no critical event is forgotten, who is alerted finds the event, and     *)
(* what is completed is on record.                                         *)
(***************************************************************************)
EXTENDS Analysis, FiniteSetTheorems, WellFoundedInduction, TLAPS

-----------------------------------------------------------------------------
(* The verdict *)

\* A bounded set of natural numbers has a largest one, which Maximum chooses.
LEMMA HasLargest ==
  ASSUME NEW S, S \subseteq 0 .. Full, S # {}
  PROVE  \E m \in S : \A y \in S : m >= y
<1> DEFINE R == {ss \in Nat \X Nat : ss[1] < ss[2]}
           Left == {Full - x : x \in S}
<1>1. IsWellFoundedOn(R, Nat)
  BY NatLessThanWellFounded, Zenon DEF OpToRel
<1>2. Left \subseteq Nat /\ Left # {}
  <2>1. \A x \in S : Full - x \in Nat
    BY DEF Full
  <2> QED
    BY <2>1
<1> HIDE DEF R
<1>3. PICK l \in Left : \A y \in Left : ~ (<<y, l>> \in R)
  BY <1>1, <1>2, WFMin, Zenon
<1>4. \A y \in Left : ~ (y < l)
  BY <1>2, <1>3 DEF R
<1>5. PICK m \in S : l = Full - m
  BY <1>3
<1>6. ASSUME NEW y \in S PROVE m >= y
  <2>1. ~ (Full - y < Full - m)
    BY <1>4, <1>5
  <2> QED
    BY <2>1 DEF Full
<1> QED
  BY <1>6

\* The largest of some scores is one of them.
LEMMA MaximumMember ==
  ASSUME NEW S, S \subseteq 0 .. Full, S # {}
  PROVE  Maximum(S) \in S /\ \A x \in S : Maximum(S) >= x
BY HasLargest DEF Maximum

\* The largest of some scores is a score, and no score is above it.
LEMMA MaximumFacts ==
  ASSUME NEW S, S \subseteq 0 .. Full
  PROVE  Maximum(S) \in 0 .. Full
<1>1. CASE S = {}
  BY <1>1 DEF Maximum, Full
<1>2. CASE S # {}
  BY <1>2, MaximumMember
<1> QED
  BY <1>1, <1>2

\* From which score on a verdict is critical, or malicious.
LEMMA LevelFacts ==
  ASSUME NEW score \in 0 .. Full
  PROVE  /\ Level(score) = "critical" <=> score >= 8500
         /\ Malicious(score) <=> score >= 6000
<1>1. score \in Int
  BY DEF Full
<1>2. CASE score >= 8500
  BY <1>1, <1>2 DEF Level, Malicious
<1>3. CASE score >= 6000 /\ score < 8500
  BY <1>1, <1>3 DEF Level, Malicious
<1>4. CASE score >= 3500 /\ score < 6000
  BY <1>1, <1>4 DEF Level, Malicious
<1>5. CASE score < 3500
  BY <1>1, <1>5 DEF Level, Malicious
<1> QED
  BY <1>1, <1>2, <1>3, <1>4, <1>5

\* A hundredth of a number up to 1000000 is a score.
LEMMA Hundredth ==
  ASSUME NEW x \in Int, 0 <= x, x <= 1000000
  PROVE  x \div 100 \in 0 .. Full
<1>1. x \div 100 \in Int /\ 0 <= x \div 100 /\ x \div 100 <= 10000
  BY SMTT(60)
<1> QED
  BY <1>1 DEF Full

\* A smoothed score is a score.
LEMMA WeighedScore ==
  ASSUME NEW raw \in 0 .. Full, NEW past \in 0 .. Full
  PROVE  (85 * raw + 15 * past) \div 100 \in 0 .. Full
<1>1. raw \in Int /\ 0 <= raw /\ raw <= 10000 /\ past \in Int /\ 0 <= past /\ past <= 10000
  BY DEF Full
<1>2. PICK x \in Int : x = 85 * raw /\ 0 <= x /\ x <= 850000
  BY <1>1, SMTT(30)
<1>3. PICK y \in Int : y = 15 * past /\ 0 <= y /\ y <= 150000
  BY <1>1, SMTT(30)
<1>4. x + y \in Int /\ 0 <= x + y /\ x + y <= 1000000
  BY <1>2, <1>3
<1>5. (x + y) \div 100 \in 0 .. Full
  BY <1>4, Hundredth
<1> QED
  BY <1>2, <1>3, <1>5

\* What the verdict of an analysis comes to is a score.
LEMMA FinalType ==
  ASSUME NEW t, NEW raw \in 0 .. Full, NEW seen, \A e \in seen : e.score \in 0 .. Full
  PROVE  Final(t, raw, seen) \in 0 .. Full
<1>1. PastScore(seen) \in 0 .. Full
  <2>1. {e.score : e \in seen} \subseteq 0 .. Full
    OBVIOUS
  <2> QED
    BY <2>1, MaximumFacts DEF PastScore
<1>2. ASSUME NEW past \in 0 .. Full PROVE Smoothed(raw, past) \in 0 .. Full
  <2>1. (85 * raw + 15 * past) \div 100 \in 0 .. Full
    BY <1>2, WeighedScore
  <2> QED
    BY <2>1 DEF Smoothed
<1>3. ASSUME NEW score \in 0 .. Full PROVE Capped(t, score) \in 0 .. Full
  BY DEF Capped, Full
<1> QED
  BY <1>1, <1>2, <1>3 DEF Final

-----------------------------------------------------------------------------
(* The inductive invariant *)

USE AnalysisAssumption

Labels == {"idle", "analyse", "load", "keep", "save", "note", "alert", "publish", "complete"}
Held == [count : Nat, stamp : Nat]
Verdict == [raw : 0 .. Full, score : 0 .. Full, seen : SUBSET Run]

WorkersType ==
  /\ pc \in [Workers -> Labels]
  /\ job \in [Workers -> {NoJob} \cup Run]
  /\ entity \in [Workers -> {Nobody} \cup Users \cup Roles]
  /\ held \in [Workers -> Held]
  /\ verdict \in [Workers -> Verdict]
  /\ ready \in [Workers -> BOOLEAN]

\* A task is started once more than there were faults at most.
QueueType ==
  /\ queue \subseteq Tasks /\ done \subseteq Tasks /\ dead \subseteq Tasks
  /\ runs \in [Tasks -> Nat] /\ faults \in 0 .. MaxFaults /\ now \in Nat
  /\ \A t \in Tasks : runs[t] <= 1 + faults /\ (t \in queue => runs[t] <= faults)

TablesType ==
  /\ snapshots \subseteq [entity : Users \cup Roles, run : Run, count : Nat \ {0}, stamp : Nat]
  /\ \A e \in events : e.run \in Run /\ e.raw \in 0 .. Full /\ e.score \in 0 .. Full /\ e.seen \subseteq Run
  /\ copied \subseteq Run /\ published \subseteq Run /\ notified \subseteq Run /\ unsaved \subseteq Run
  /\ alerts \subseteq [run : Run, tries : 0 .. AlertAttempts - 1]
  /\ lost \subseteq [run : Run, why : Reasons]
  /\ excused \subseteq Users \cup Roles

Started(r) == r \in Run /\ r.k <= runs[r.task]

\* Whatever there is of a run, it was started.
Known ==
  /\ \A s \in snapshots : Started(s.run)
  /\ \A e \in events : Started(e.run)

\* Each run has one worker, which knows what is on record of it.
Sound(w) ==
  /\ pc[w] = "idle" => job[w] = NoJob
  /\ pc[w] # "idle" => Started(job[w])
  /\ entity[w] \in IF pc[w] \in {"load", "keep"} THEN {User(w), RoleOf[User(w)]} ELSE {Nobody}
  /\ pc[w] # "keep" => held[w] = NoHeld
  /\ pc[w] = "keep" => held[w].count > 0
  /\ pc[w] \in {"idle", "analyse", "note"} => verdict[w] = NoVerdict
  /\ pc[w] \in {"load", "keep"} => ~Malicious(verdict[w].score)
  /\ pc[w] \in {"analyse", "note"} => \A s \in snapshots : s.run # job[w]
  /\ \A s \in snapshots : s.run = job[w] => ~Malicious(verdict[w].score)
  /\ pc[w] \in {"analyse", "load", "keep", "save", "note"} => \A e \in events : e.run # job[w]
  /\ pc[w] = "alert" => /\ \E e \in events : e.run = job[w] /\ Level(e.score) = "critical"
                        /\ HasClickHouse => job[w] \in copied
  /\ pc[w] = "publish" => \E e \in events : e.run = job[w]
  /\ pc[w] \in {"alert", "publish", "complete"} =>
       (\E e \in events : e.run.task = job[w].task) \/ (\E r \in unsaved : r.task = job[w].task)

Unique == \A v, w \in Workers : pc[v] # "idle" /\ job[v] = job[w] => v = w

Learned == \A s \in snapshots : \A e \in events : e.run = s.run => ~Malicious(e.score)

Promised == Learned /\ CriticalNotForgotten /\ AlertsBacked /\ CompletedIsRecorded

IInv ==
  /\ WorkersType /\ QueueType /\ TablesType
  /\ Known /\ Unique /\ (\A w \in Workers : Sound(w))
  /\ Promised

\* The values that stand for nothing are of the right type, and harmless.
LEMMA JobFacts ==
  /\ NoJob \notin Run /\ NoHeld \in Held /\ NoVerdict \in Verdict /\ NoVerdict.score = 0
  /\ Level(0) # "critical" /\ ~Malicious(0)
<1>1. NoJob \notin Run
  BY DEF NoJob, Run
<1>2. NoHeld \in Held
  BY DEF NoHeld, Held
<1>3. NoVerdict \in Verdict /\ NoVerdict.score = 0
  BY DEF NoVerdict, Verdict, Full
<1>4. 0 \in 0 .. Full
  BY DEF Full
<1>5. Level(0) # "critical" /\ ~Malicious(0)
  BY <1>4, LevelFacts
<1> QED
  BY <1>1, <1>2, <1>3, <1>5

\* The invariant holds at first.
LEMMA InitInv == Init => IInv
<1> SUFFICES ASSUME Init PROVE IInv
  OBVIOUS
<1>1. WorkersType
  BY JobFacts DEF Init, WorkersType, Labels
<1>2. QueueType /\ TablesType
  BY DEF Init, QueueType, TablesType
<1>3. Known /\ Unique /\ Promised
  BY DEF Init, Known, Unique, Promised, Learned, CriticalNotForgotten, AlertsBacked, CompletedIsRecorded
<1>4. ASSUME NEW w \in Workers PROVE Sound(w)
  <2>1. /\ pc[w] = "idle" /\ job[w] = NoJob /\ entity[w] = Nobody /\ held[w] = NoHeld
        /\ verdict[w] = NoVerdict /\ snapshots = {}
    BY DEF Init
  <2> QED
    BY <2>1 DEF Sound
<1> QED
  BY <1>1, <1>2, <1>3, <1>4 DEF IInv

\* The invariant contains the type.
LEMMA InvTypeOK == IInv => TypeOK
<1> SUFFICES ASSUME IInv PROVE TypeOK
  OBVIOUS
<1>1. WorkersType /\ QueueType /\ TablesType
  BY DEF IInv
<1>2. runs \in [Tasks -> 0 .. 1 + MaxFaults]
  BY <1>1 DEF QueueType
<1>3. ASSUME NEW w \in Workers
      PROVE  /\ job[w] \in IF pc[w] = "idle" THEN {NoJob} ELSE Run
             /\ entity[w] \in IF pc[w] \in {"load", "keep"} THEN {User(w), RoleOf[User(w)]} ELSE {Nobody}
             /\ pc[w] # "keep" => held[w] = NoHeld
             /\ verdict[w].score \in 0 .. Full
             /\ held[w].count \in Nat /\ held[w].stamp \in Nat
  <2>1. Sound(w)
    BY DEF IInv
  <2>2. verdict[w] \in Verdict /\ held[w] \in Held
    BY <1>1 DEF WorkersType
  <2> QED
    BY <2>1, <2>2 DEF Sound, Started, Verdict, Held
<1> QED
  BY <1>1, <1>2, <1>3 DEF WorkersType, QueueType, TablesType, TypeOK, Labels

-----------------------------------------------------------------------------
(* What the steps have in common *)

Others(w) ==
  \A v \in Workers : v # w => UNCHANGED <<pc[v], job[v], entity[v], held[v], verdict[v]>>

\* What is on record grows by the run of one worker.
Grows(w) ==
  /\ \A t \in Tasks : runs'[t] >= runs[t] /\ runs'[t] \in Nat
  /\ \A s \in snapshots' : s \in snapshots \/ (pc[w] # "idle" /\ s.run = job[w])
  /\ \A e \in events' : e \in events \/ (pc[w] # "idle" /\ e.run = job[w])
  /\ snapshots \subseteq snapshots' /\ events \subseteq events'
  /\ copied \subseteq copied' /\ unsaved \subseteq unsaved'

\* What a worker has started stays started.
LEMMA StartedKept ==
  ASSUME QueueType, NEW w, Grows(w), NEW r, Started(r)
  PROVE  Started(r)'
<1>1. r.task \in Tasks /\ r.k \in Nat
  BY DEF Started, Run, QueueType
<1> QED
  BY <1>1 DEF Started, Grows, QueueType

\* A step of one worker leaves what the others know true.
LEMMA OthersKept ==
  ASSUME IInv, NEW w \in Workers, Others(w), Grows(w)
  PROVE  /\ \A v \in Workers : v # w => Sound(v)'
         /\ Known'
<1>t. WorkersType /\ QueueType /\ TablesType
  BY DEF IInv
<1>1. ASSUME NEW v \in Workers, v # w PROVE Sound(v)'
  <2>1. UNCHANGED <<pc[v], job[v], entity[v], held[v], verdict[v]>> /\ Sound(v)
    BY <1>1 DEF Others, IInv
  <2>2. pc[w] # "idle" => job[w] # job[v]
    BY <1>1 DEF IInv, Unique
  <2>3. UNCHANGED User(v)
    BY <2>1 DEF User
  <2>4. Started(job[v]) => Started(job[v])'
    BY <2>1, <1>t, StartedKept
  <2>5. /\ \A s \in snapshots' : s.run = job[v] => s \in snapshots
        /\ \A e \in events' : e.run = job[v] => e \in events
    BY <2>2 DEF Grows
  <2> QED
    BY <2>1, <2>3, <2>4, <2>5 DEF Sound, Grows
<1>2. Known'
  <2>1. pc[w] # "idle" => Started(job[w])
    BY DEF IInv, Sound
  <2>2. \A s \in snapshots' : Started(s.run)
    BY <2>1 DEF IInv, Known, Grows
  <2>3. \A e \in events' : Started(e.run)
    BY <2>1 DEF IInv, Known, Grows
  <2> QED
    BY <1>t, <2>2, <2>3, StartedKept DEF Known
<1> QED
  BY <1>1, <1>2

\* A worker that keeps its job or gives it up keeps the runs apart.
LEMMA UniqueKept ==
  ASSUME IInv, NEW w \in Workers, Others(w), pc'[w] # "idle" => pc[w] # "idle" /\ job'[w] = job[w],
         pc'[w] = "idle" => job'[w] = NoJob
  PROVE  Unique'
<1> SUFFICES ASSUME NEW u \in Workers, NEW v \in Workers, pc'[u] # "idle", job'[u] = job'[v], u # v
             PROVE  FALSE
  BY DEF Unique
<1>1. pc[u] # "idle" /\ job'[u] = job[u] /\ job[u] \in Run
  BY DEF Others, IInv, Sound, Started
<1>2. job'[v] = job[v]
  BY <1>1, JobFacts DEF Others
<1> QED
  BY <1>1, <1>2 DEF IInv, Unique

\* Nothing more is on record, and no worker left its alert behind.
LEMMA PromisedKept ==
  ASSUME IInv, NEW w \in Workers, Others(w), pc[w] # "alert" \/ (pc'[w] = "alert" /\ job'[w] = job[w]),
         UNCHANGED <<snapshots, events, copied, alerts, notified, published, unsaved, done>>,
         lost \subseteq lost'
  PROVE  Promised'
<1>1. Learned' /\ AlertsBacked' /\ CompletedIsRecorded'
  BY DEF IInv, Promised, Learned, AlertsBacked, CompletedIsRecorded
<1>2. ASSUME NEW e \in events, Level(e.score) = "critical"
      PROVE  \/ e.run \in notified'
             \/ \E alert \in alerts' : alert.run = e.run
             \/ \E v \in Workers : job'[v] = e.run /\ pc'[v] = "alert"
             \/ \E l \in lost' : l.run = e.run
  <2>1. \/ e.run \in notified
        \/ \E alert \in alerts : alert.run = e.run
        \/ \E v \in Workers : job[v] = e.run /\ pc[v] = "alert"
        \/ \E l \in lost : l.run = e.run
    BY <1>2 DEF IInv, Promised, CriticalNotForgotten
  <2>2. ASSUME NEW v \in Workers, job[v] = e.run, pc[v] = "alert"
        PROVE  job'[v] = e.run /\ pc'[v] = "alert"
    BY <2>2 DEF Others
  <2> QED
    BY <2>1, <2>2
<1>3. CriticalNotForgotten'
  BY <1>2 DEF CriticalNotForgotten
<1> QED
  BY <1>1, <1>3 DEF Promised

\* The worker is through with its task.
LEMMA FreeFacts ==
  ASSUME WorkersType, NEW w \in Workers, Free(w), UNCHANGED ready \/ ready' = [ready EXCEPT ![w] = FALSE]
  PROVE  WorkersType' /\ Others(w) /\ pc'[w] = "idle" /\ job'[w] = NoJob
<1>1. NoHeld \in Held /\ NoVerdict \in Verdict
  BY JobFacts
<1>2. /\ pc' = [pc EXCEPT ![w] = "idle"] /\ job' = [job EXCEPT ![w] = NoJob]
      /\ entity' = [entity EXCEPT ![w] = Nobody] /\ held' = [held EXCEPT ![w] = NoHeld]
      /\ verdict' = [verdict EXCEPT ![w] = NoVerdict]
  BY DEF Free, Goto
<1>3. WorkersType'
  BY <1>1, <1>2 DEF WorkersType, Labels
<1> QED
  BY <1>2, <1>3 DEF WorkersType, Others

\* A worker without a task is sound whatever there is on record.
LEMMA FreeSound ==
  ASSUME IInv, NEW w \in Workers, Free(w), \A s \in snapshots' : s.run \in Run
  PROVE  Sound(w)'
<1>1. /\ pc'[w] = "idle" /\ job'[w] = NoJob /\ entity'[w] = Nobody /\ held'[w] = NoHeld
      /\ verdict'[w] = NoVerdict
  BY DEF Free, Goto, IInv, WorkersType
<1> QED
  BY <1>1, JobFacts DEF Sound

\* Where a worker that moves on is, and that the others stay.
LEMMA GotoFacts ==
  ASSUME WorkersType, NEW w \in Workers, NEW label \in Labels, Goto(w, label)
  PROVE  /\ pc' \in [Workers -> Labels] /\ pc'[w] = label
         /\ \A v \in Workers : v # w => pc'[v] = pc[v]
BY DEF WorkersType, Goto

\* The budget of faults keeps its type.
LEMMA FaultFacts ==
  ASSUME faults \in 0 .. MaxFaults
  PROVE  /\ Fault => faults' \in 0 .. MaxFaults /\ faults' = faults + 1
         /\ NoFault => faults' = faults
         /\ Fault \/ NoFault => faults' \in 0 .. MaxFaults /\ faults' >= faults
BY DEF Fault, NoFault

-----------------------------------------------------------------------------
(* The queue *)

\* Taking a task over preserves the invariant.
LEMMA StartInv == ASSUME IInv, NEW w \in Workers, Start(w) PROVE IInv'
<1>t. WorkersType /\ QueueType /\ TablesType /\ Sound(w)
  BY DEF IInv
<1>1. PICK t \in queue :
        /\ queue' = queue \ {t} /\ runs' = [runs EXCEPT ![t] = @ + 1]
        /\ job' = [job EXCEPT ![w] = [task |-> t, k |-> runs[t] + 1]]
  BY DEF Start
<1>2. /\ pc[w] = "idle" /\ Goto(w, "analyse")
      /\ UNCHANGED <<done, dead, entity, held, verdict, ready, now, snapshots, events, copied, alerts,
                     notified, published, faults, lost, unsaved, excused>>
  BY DEF Start, tables, alerting, history
<1>n. PICK new : new = [task |-> t, k |-> runs[t] + 1]
  OBVIOUS
<1>3. t \in Tasks /\ runs[t] \in Nat /\ runs[t] <= faults /\ faults \in 0 .. MaxFaults
  BY <1>t DEF QueueType
<1>4. new \in Run /\ new.task = t /\ new.k = runs[t] + 1
  BY <1>3, <1>n DEF Run
<1>5. pc' \in [Workers -> Labels] /\ pc'[w] = "analyse" /\ \A v \in Workers : v # w => pc'[v] = pc[v]
  BY <1>t, <1>2, GotoFacts DEF Labels
<1>6. job' \in [Workers -> {NoJob} \cup Run] /\ job'[w] = new /\ \A v \in Workers : v # w => job'[v] = job[v]
  BY <1>t, <1>1, <1>4, <1>n DEF WorkersType
<1>7. runs'[t] = runs[t] + 1 /\ \A u \in Tasks : u # t => runs'[u] = runs[u]
  BY <1>t, <1>1, <1>3 DEF QueueType
<1>8. WorkersType'
  BY <1>t, <1>2, <1>5, <1>6 DEF WorkersType
<1>9. QueueType'
  <2>1. runs' \in [Tasks -> Nat] /\ queue' \subseteq Tasks
    BY <1>t, <1>1, <1>3 DEF QueueType
  <2>2. ASSUME NEW u \in Tasks
        PROVE  runs'[u] <= 1 + faults' /\ (u \in queue' => runs'[u] <= faults')
    BY <1>t, <1>1, <1>2, <1>3, <1>7 DEF QueueType
  <2> QED
    BY <1>t, <1>2, <2>1, <2>2 DEF QueueType
<1>10. TablesType'
  BY <1>t, <1>2 DEF TablesType
<1>11. Others(w) /\ Grows(w)
  <2>1. \A u \in Tasks : runs'[u] >= runs[u] /\ runs'[u] \in Nat
    BY <1>t, <1>3, <1>7 DEF QueueType
  <2> QED
    BY <1>2, <1>5, <1>6, <2>1 DEF Others, Grows
<1>12. \A r : Started(r) => r # new
  BY <1>3, <1>4 DEF Started
<1>13. Unique'
  <2> SUFFICES ASSUME NEW u \in Workers, NEW v \in Workers, pc'[u] # "idle", job'[u] = job'[v], u # v
               PROVE  FALSE
    BY DEF Unique
  <2>1. ASSUME NEW x \in Workers PROVE job[x] # new
    <3>1. Sound(x)
      BY DEF IInv
    <3>2. job[x] = NoJob \/ Started(job[x])
      BY <3>1 DEF Sound
    <3> QED
      BY <1>4, <1>12, <3>2, JobFacts
  <2> QED
    BY <1>5, <1>6, <2>1 DEF IInv, Unique
<1>14. Sound(w)'
  <2>1. Started(new)'
    BY <1>4, <1>3, <1>7 DEF Started
  <2>2. \A s \in snapshots : s.run # new
    BY <1>12 DEF IInv, Known
  <2>3. \A e \in events : e.run # new
    BY <1>12 DEF IInv, Known
  <2> QED
    BY <1>t, <1>2, <1>5, <1>6, <2>1, <2>2, <2>3 DEF Sound
<1>15. Promised'
  BY <1>2, <1>11, PromisedKept
<1> QED
  BY <1>8, <1>9, <1>10, <1>11, <1>13, <1>14, <1>15, OthersKept DEF IInv

\* A fault puts a task back, or gives it up.
LEMMA BackInv ==
  ASSUME QueueType, NEW t \in Tasks, Fault,
         queue' \subseteq queue \cup {t}, dead' \subseteq dead \cup {t}, now' \in Nat,
         UNCHANGED <<runs, done>>
  PROVE  QueueType'
<1>1. faults' = faults + 1 /\ faults' \in 0 .. MaxFaults /\ faults \in 0 .. MaxFaults
  BY FaultFacts DEF QueueType
<1>2. ASSUME NEW u \in Tasks
      PROVE  runs'[u] <= 1 + faults' /\ (u \in queue' => runs'[u] <= faults')
  BY <1>1 DEF QueueType
<1> QED
  BY <1>1, <1>2 DEF QueueType

\* process_payload raises: the tables are as they were, or have one more snapshot.
LEMMA RaiseFacts ==
  ASSUME IInv, NEW w \in Workers, pc[w] # "idle", Raise(w), now' \in Nat,
         UNCHANGED <<runs, done, ready>>
  PROVE  /\ WorkersType' /\ QueueType' /\ Others(w) /\ pc'[w] = "idle" /\ job'[w] = NoJob /\ Free(w)
<1>1. Fault /\ Free(w) /\ Retried(job[w].task)
  BY DEF Raise
<1>2. job[w].task \in Tasks
  BY DEF IInv, Sound, Started, Run
<1>3. QueueType'
  BY <1>1, <1>2, BackInv DEF IInv, Retried
<1> QED
  BY <1>1, <1>3, FreeFacts DEF IInv

\* Completing a task preserves the invariant.
LEMMA CompleteInv == ASSUME IInv, NEW w \in Workers, Complete(w) PROVE IInv'
<1>t. WorkersType /\ QueueType /\ TablesType /\ Sound(w)
  BY DEF IInv
<1>1. /\ pc[w] = "complete" /\ done' = done \cup {job[w].task} /\ Free(w)
      /\ UNCHANGED <<queue, runs, dead, ready, now, snapshots, events, copied, alerts, notified, published,
                     faults, lost, unsaved, excused>>
  BY DEF Complete, tables, alerting, history
<1>2. WorkersType' /\ Others(w) /\ pc'[w] = "idle" /\ job'[w] = NoJob
  BY <1>t, <1>1, FreeFacts
<1>3. job[w].task \in Tasks
  BY <1>t, <1>1 DEF Sound, Started, Run
<1>4. QueueType' /\ TablesType'
  BY <1>t, <1>1, <1>3 DEF QueueType, TablesType
<1>5. Grows(w)
  BY <1>t, <1>1 DEF Grows, QueueType
<1>6. Sound(w)'
  BY <1>t, <1>1, FreeSound DEF TablesType
<1>7. CompletedIsRecorded'
  BY <1>t, <1>1 DEF IInv, Promised, CompletedIsRecorded, Sound
<1>8. Learned' /\ AlertsBacked'
  BY <1>1 DEF IInv, Promised, Learned, AlertsBacked
<1>9. CriticalNotForgotten'
  <2>1. \A v \in Workers : pc[v] = "alert" => pc'[v] = "alert" /\ job'[v] = job[v]
    BY <1>1, <1>2 DEF Others
  <2> QED
    BY <1>1, <2>1 DEF IInv, Promised, CriticalNotForgotten
<1> QED
  BY <1>2, <1>4, <1>5, <1>6, <1>7, <1>8, <1>9, OthersKept, UniqueKept DEF IInv, Promised

\* A second delivery of a task preserves the invariant.
LEMMA RedeliverInv == ASSUME IInv, NEW t \in Tasks, Redeliver(t) PROVE IInv'
<1>1. /\ Fault /\ queue' = queue \cup {t}
      /\ UNCHANGED <<runs, done, dead, pc, job, entity, held, verdict, ready, now, snapshots, events, copied,
                     alerts, notified, published, lost, unsaved, excused>>
  BY DEF Redeliver, worker, tables, alerting, history
<1>2. QueueType'
  BY <1>1, BackInv DEF IInv, QueueType
<1>3. WorkersType' /\ TablesType'
  BY <1>1 DEF IInv, WorkersType, TablesType
<1>4. Known' /\ Unique' /\ Promised'
  BY <1>1 DEF IInv, Known, Unique, Promised, Learned, CriticalNotForgotten, AlertsBacked,
              CompletedIsRecorded, Started
<1>5. ASSUME NEW v \in Workers PROVE Sound(v)'
  BY <1>1 DEF IInv, Sound, Started, User
<1> QED
  BY <1>2, <1>3, <1>4, <1>5 DEF IInv

\* Wiring the queue up preserves the invariant.
LEMMA SetQueueInv == ASSUME IInv, NEW w \in Workers, SetQueue(w) PROVE IInv'
<1>1. /\ ready' = [ready EXCEPT ![w] = TRUE]
      /\ UNCHANGED <<queue, runs, done, dead, pc, job, entity, held, verdict, now, snapshots, events, copied,
                     alerts, notified, published, faults, lost, unsaved, excused>>
  BY DEF SetQueue, worker, tables, alerting, history
<1>2. WorkersType' /\ TablesType' /\ QueueType'
  BY <1>1 DEF IInv, WorkersType, TablesType, QueueType
<1>3. Known' /\ Unique' /\ Promised'
  BY <1>1 DEF IInv, Known, Unique, Promised, Learned, CriticalNotForgotten, AlertsBacked,
              CompletedIsRecorded, Started
<1>4. ASSUME NEW v \in Workers PROVE Sound(v)'
  BY <1>1 DEF IInv, Sound, Started, User
<1> QED
  BY <1>2, <1>3, <1>4 DEF IInv

\* A crash of a worker's process preserves the invariant.
LEMMA CrashInv == ASSUME IInv, NEW w \in Workers, CrashRestart(w) PROVE IInv'
<1>t. WorkersType /\ QueueType /\ TablesType /\ Sound(w)
  BY DEF IInv
<1>1. /\ Fault /\ Free(w) /\ ready' = [ready EXCEPT ![w] = FALSE]
      /\ queue' = IF pc[w] = "idle" THEN queue ELSE queue \cup {job[w].task}
      /\ IF pc[w] = "alert" THEN Lose(w, "crash") ELSE UNCHANGED lost
      /\ UNCHANGED <<runs, done, dead, now, snapshots, events, copied, alerts, notified, published,
                     unsaved, excused>>
  BY DEF CrashRestart, tables, alerting
<1>2. WorkersType' /\ Others(w) /\ pc'[w] = "idle" /\ job'[w] = NoJob
  BY <1>t, <1>1, FreeFacts
<1>3. pc[w] # "idle" => job[w] \in Run /\ job[w].task \in Tasks
  BY <1>t DEF Sound, Started, Run
<1>4. QueueType'
  <2>1. CASE pc[w] = "idle"
    <3>1. faults' = faults + 1 /\ faults' \in 0 .. MaxFaults
      BY <1>t, <1>1, FaultFacts DEF QueueType
    <3> QED
      BY <1>t, <1>1, <2>1, <3>1 DEF QueueType
  <2>2. CASE pc[w] # "idle"
    <3>1. now' \in Nat /\ queue' \subseteq queue \cup {job[w].task} /\ dead' \subseteq dead \cup {job[w].task}
      BY <1>t, <1>1, <2>2 DEF QueueType
    <3> QED
      BY <1>t, <1>1, <1>3, <2>2, <3>1, BackInv
  <2> QED
    BY <2>1, <2>2
<1>5. lost' \subseteq [run : Run, why : Reasons] /\ lost \subseteq lost'
  <2>1. pc[w] = "alert" => lost' = lost \cup {[run |-> job[w], why |-> "crash"]}
    BY <1>1 DEF Lose
  <2>2. pc[w] # "alert" => lost' = lost
    BY <1>1
  <2>3. pc[w] = "alert" => [run |-> job[w], why |-> "crash"] \in [run : Run, why : Reasons]
    BY <1>3 DEF Reasons
  <2> QED
    BY <1>t, <2>1, <2>2, <2>3 DEF TablesType
<1>6. TablesType'
  BY <1>t, <1>1, <1>5 DEF TablesType
<1>7. Grows(w)
  BY <1>t, <1>1 DEF Grows, QueueType
<1>8. Sound(w)'
  BY <1>t, <1>1, FreeSound DEF TablesType
<1>9. Promised'
  <2>1. CASE pc[w] # "alert"
    BY <1>1, <1>2, <1>5, <2>1, PromisedKept
  <2>2. CASE pc[w] = "alert"
    <3>1. \E l \in lost' : l.run = job[w]
      <4>1. [run |-> job[w], why |-> "crash"] \in lost'
        BY <1>1, <2>2 DEF Lose
      <4> QED
        BY <4>1
    <3>2. \A v \in Workers : pc[v] = "alert" => v = w \/ (pc'[v] = "alert" /\ job'[v] = job[v])
      BY <1>2 DEF Others
    <3>3. CriticalNotForgotten'
      BY <1>1, <1>5, <3>1, <3>2 DEF IInv, Promised, CriticalNotForgotten
    <3> QED
      BY <1>1, <3>3 DEF IInv, Promised, Learned, AlertsBacked, CompletedIsRecorded
  <2> QED
    BY <2>1, <2>2
<1> QED
  BY <1>2, <1>4, <1>6, <1>7, <1>8, <1>9, OthersKept, UniqueKept DEF IInv

-----------------------------------------------------------------------------
(* process_payload *)

\* A step that ends with the task raised, and at most one snapshot more.
LEMMA RaiseInv ==
  ASSUME IInv, NEW w \in Workers, pc[w] \notin {"idle", "alert"}, Raise(w), now' \in Nat,
         UNCHANGED <<runs, done, ready, snapshots, events, copied, alerts, notified, published, lost, unsaved>>,
         excused' \subseteq Users \cup Roles
  PROVE  IInv'
<1>t. TablesType /\ QueueType
  BY DEF IInv
<1>1. WorkersType' /\ QueueType' /\ Others(w) /\ pc'[w] = "idle" /\ job'[w] = NoJob /\ Free(w)
  BY RaiseFacts
<1>2. TablesType'
  BY <1>t DEF TablesType
<1>3. Grows(w)
  BY <1>t DEF Grows, QueueType
<1>4. Sound(w)'
  BY <1>t, <1>1, FreeSound DEF TablesType
<1>5. Promised'
  BY <1>1, PromisedKept
<1> QED
  BY <1>1, <1>2, <1>3, <1>4, <1>5, OthersKept, UniqueKept DEF IInv

\* A step after which the worker goes on with its task, and nothing more is on record.
LEMMA GoOnInv ==
  ASSUME IInv, NEW w \in Workers, pc[w] \notin {"idle", "alert"}, NEW label \in Labels \ {"idle"}, Goto(w, label),
         QueueType', WorkersType', Others(w), UNCHANGED <<job, runs>>,
         UNCHANGED <<snapshots, events, copied, alerts, notified, published, lost, unsaved, done>>,
         excused' \subseteq Users \cup Roles, Sound(w)'
  PROVE  IInv'
<1>t. TablesType /\ QueueType /\ WorkersType
  BY DEF IInv
<1>1. pc'[w] = label
  BY <1>t, GotoFacts
<1>2. TablesType'
  BY <1>t DEF TablesType
<1>3. Grows(w)
  BY <1>t DEF Grows, QueueType
<1>4. Promised'
  BY PromisedKept
<1> QED
  BY <1>1, <1>2, <1>3, <1>4, OthersKept, UniqueKept DEF IInv

\* Analysing a payload preserves the invariant.
LEMMA AnalyseInv == ASSUME IInv, NEW w \in Workers, Analyse(w) PROVE IInv'
<1>t. WorkersType /\ QueueType /\ TablesType /\ Sound(w)
  BY DEF IInv
<1>1. /\ pc[w] = "analyse"
      /\ UNCHANGED <<runs, done, ready, now, snapshots, events, copied, alerts, notified, published,
                     lost, unsaved, excused>>
  BY DEF Analyse, tables, alerting, history
<1>x. excused' \subseteq Users \cup Roles /\ now' \in Nat
  BY <1>t, <1>1 DEF TablesType, QueueType
<1>j. /\ job[w] \in Run /\ job[w].task \in Tasks /\ Started(job[w]) /\ verdict[w] = NoVerdict
      /\ entity[w] = Nobody /\ held[w] = NoHeld
      /\ \A s \in snapshots : s.run # job[w]
      /\ \A e \in events : e.run # job[w]
  BY <1>t, <1>1 DEF Sound, Started, Run
<1>2. CASE Raise(w)
  BY <1>1, <1>2, <1>x, RaiseInv
<1>3. CASE JudgeIdle(w)
  <2>1. Goto(w, "note") /\ UNCHANGED <<queue, dead, job, entity, held, verdict, faults>>
    BY <1>3 DEF JudgeIdle, NoFault
  <2>2. /\ pc' \in [Workers -> Labels] /\ pc'[w] = "note" /\ \A v \in Workers : v # w => pc'[v] = pc[v]
    BY <1>t, <2>1, GotoFacts DEF Labels
  <2>3. WorkersType' /\ QueueType' /\ Others(w)
    BY <1>t, <1>1, <2>1, <2>2 DEF WorkersType, QueueType, Others
  <2>4. Sound(w)'
    <3>1. Started(job[w])'
      BY <1>1, <1>j, <2>1 DEF Started
    <3> QED
      BY <1>1, <1>j, <2>1, <2>2, <3>1 DEF Sound
  <2> QED
    BY <1>1, <1>x, <2>1, <2>3, <2>4, GoOnInv DEF Labels
<1>4. CASE Judge(w)
  <2> DEFINE t == job[w].task
  <2>1. PICK raw \in RawOf[t], seen \in {Recent(User(w)), {}} :
          /\ IF seen = Recent(User(w)) THEN NoFault ELSE Fault
          /\ verdict' = [verdict EXCEPT ![w] = [raw |-> raw, score |-> Final(t, raw, seen),
                                                seen |-> {e.run : e \in seen}]]
          /\ IF Excluded(Final(t, raw, seen))
             THEN Goto(w, "save") /\ UNCHANGED entity
             ELSE Goto(w, "load") /\ entity' = [entity EXCEPT ![w] = User(w)]
    BY <1>4 DEF Judge
  <2>2. UNCHANGED <<queue, dead, job, held>>
    BY <1>4 DEF Judge
  <2>3. PICK score : score = Final(t, raw, seen)
    OBVIOUS
  <2>4. score \in 0 .. Full /\ raw \in 0 .. Full /\ {e.run : e \in seen} \in SUBSET Run
    <3>1. raw \in 0 .. Full
      BY <1>j
    <3>2. \A e \in seen : e \in events
      BY <2>1 DEF Recent
    <3>3. \A e \in seen : e.score \in 0 .. Full /\ e.run \in Run
      BY <1>t, <3>2 DEF TablesType
    <3> QED
      BY <2>3, <3>1, <3>3, FinalType
  <2>5. PICK new : new = [raw |-> raw, score |-> score, seen |-> {e.run : e \in seen}]
    OBVIOUS
  <2>6. new \in Verdict /\ new.score = score
    BY <2>4, <2>5 DEF Verdict
  <2>7. /\ verdict' \in [Workers -> Verdict] /\ verdict'[w] = new
        /\ \A v \in Workers : v # w => verdict'[v] = verdict[v]
    BY <1>t, <2>1, <2>3, <2>5, <2>6 DEF WorkersType
  <2>8. QueueType'
    <3>1. faults \in 0 .. MaxFaults
      BY <1>t DEF QueueType
    <3>2. faults' \in 0 .. MaxFaults /\ faults' >= faults
      BY <2>1, <3>1, FaultFacts
    <3>3. \A u \in Tasks : runs[u] <= 1 + faults' /\ (u \in queue => runs[u] <= faults')
      BY <1>t, <3>1, <3>2 DEF QueueType
    <3> QED
      BY <1>t, <1>1, <2>2, <3>2, <3>3 DEF QueueType
  <2>9. User(w) \in Users
    BY <1>j DEF User
  <2>10. Started(job[w])'
    BY <1>1, <1>j, <2>2 DEF Started
  <2>11. CASE Malicious(score) /\ Goto(w, "save") /\ UNCHANGED entity
    <3>1. /\ pc' \in [Workers -> Labels] /\ pc'[w] = "save" /\ \A v \in Workers : v # w => pc'[v] = pc[v]
      BY <1>t, <2>11, GotoFacts DEF Labels
    <3>2. WorkersType' /\ Others(w)
      BY <1>t, <1>1, <2>2, <2>7, <2>11, <3>1 DEF WorkersType, Others
    <3>3. Sound(w)'
      BY <1>1, <1>j, <2>2, <2>10, <2>11, <3>1 DEF Sound
    <3> QED
      BY <1>1, <1>x, <2>2, <2>8, <2>11, <3>2, <3>3, GoOnInv DEF Labels
  <2>12. CASE ~Malicious(score) /\ Goto(w, "load") /\ entity' = [entity EXCEPT ![w] = User(w)]
    <3>1. /\ pc' \in [Workers -> Labels] /\ pc'[w] = "load" /\ \A v \in Workers : v # w => pc'[v] = pc[v]
      BY <1>t, <2>12, GotoFacts DEF Labels
    <3>2. /\ entity' \in [Workers -> {Nobody} \cup Users \cup Roles] /\ entity'[w] = User(w)
          /\ \A v \in Workers : v # w => entity'[v] = entity[v]
      BY <1>t, <2>9, <2>12 DEF WorkersType
    <3>3. WorkersType' /\ Others(w)
      BY <1>t, <1>1, <2>2, <2>7, <3>1, <3>2 DEF WorkersType, Others
    <3>4. Sound(w)'
      <4>1. User(w)' = User(w)
        BY <2>2 DEF User
      <4> QED
        BY <1>1, <1>j, <2>2, <2>6, <2>7, <2>10, <2>12, <3>1, <3>2, <4>1 DEF Sound
    <3> QED
      BY <1>1, <1>x, <2>2, <2>8, <2>12, <3>3, <3>4, GoOnInv DEF Labels
  <2> QED
    BY <2>1, <2>3, <2>11, <2>12 DEF Excluded
<1> QED
  BY <1>2, <1>3, <1>4 DEF Analyse

\* The counts of earlier events are numbers.
LEMMA CountFacts == ASSUME TablesType, NEW e PROVE Counts(e) \subseteq Nat
BY DEF TablesType, Counts, Latest, Of

\* Loading a baseline preserves the invariant.
LEMMA LoadInv == ASSUME IInv, NEW w \in Workers, Load(w) PROVE IInv'
<1>t. WorkersType /\ QueueType /\ TablesType /\ Sound(w)
  BY DEF IInv
<1>1. /\ pc[w] = "load"
      /\ UNCHANGED <<runs, done, ready, snapshots, events, copied, alerts, notified, published, lost, unsaved>>
  BY DEF Load, tables, alerting
<1>j. /\ job[w] \in Run /\ job[w].task \in Tasks /\ Started(job[w])
      /\ entity[w] \in {User(w), RoleOf[User(w)]} /\ entity[w] \in Users \cup Roles
  BY <1>t, <1>1 DEF Sound, Started, Run, User
<1>2. CASE Raise(w) /\ UNCHANGED <<now, excused>>
  BY <1>t, <1>1, <1>2, RaiseInv DEF QueueType, TablesType
<1>3. ASSUME NEW found \in Counts(entity[w]) \cup {0},
             IF found \in Counts(entity[w]) THEN NoFault ELSE Fault,
             held' = [held EXCEPT ![w] = [count |-> found + 1, stamp |-> now + 1 + Skew[w]]],
             excused' \in {excused, excused \cup {entity[w]}},
             now' = now + 1, Goto(w, "keep"), UNCHANGED <<queue, dead, job, entity, verdict>>
      PROVE  IInv'
  <2>1. found \in Nat
    BY <1>t, <1>3, CountFacts
  <2>2. PICK new : new = [count |-> found + 1, stamp |-> now + 1 + Skew[w]]
    OBVIOUS
  <2>3. new \in Held /\ new.count > 0
    BY <1>t, <2>1, <2>2 DEF Held, QueueType
  <2>4. held' \in [Workers -> Held] /\ held'[w] = new /\ \A v \in Workers : v # w => held'[v] = held[v]
    BY <1>t, <1>3, <2>2, <2>3 DEF WorkersType
  <2>5. /\ pc' \in [Workers -> Labels] /\ pc'[w] = "keep" /\ \A v \in Workers : v # w => pc'[v] = pc[v]
    BY <1>t, <1>3, GotoFacts DEF Labels
  <2>6. WorkersType' /\ Others(w)
    BY <1>t, <1>1, <1>3, <2>4, <2>5 DEF WorkersType, Others
  <2>7. QueueType'
    <3>1. faults \in 0 .. MaxFaults
      BY <1>t DEF QueueType
    <3>2. faults' \in 0 .. MaxFaults /\ faults' >= faults
      BY <1>3, <3>1, FaultFacts
    <3>3. \A u \in Tasks : runs[u] <= 1 + faults' /\ (u \in queue => runs[u] <= faults')
      BY <1>t, <3>1, <3>2 DEF QueueType
    <3> QED
      BY <1>t, <1>1, <1>3, <3>2, <3>3 DEF QueueType
  <2>8. excused' \subseteq Users \cup Roles
    BY <1>t, <1>3, <1>j DEF TablesType
  <2>9. Sound(w)'
    <3>1. Started(job[w])' /\ User(w)' = User(w)
      BY <1>1, <1>3, <1>j DEF Started, User
    <3> QED
      BY <1>t, <1>1, <1>3, <1>j, <2>3, <2>4, <2>5, <3>1 DEF Sound
  <2> QED
    BY <1>1, <1>3, <2>6, <2>7, <2>8, <2>9, GoOnInv DEF Labels
<1>4. CASE ~(Raise(w) /\ UNCHANGED <<now, excused>>)
  <2>1. PICK found \in Counts(entity[w]) \cup {0} :
          /\ IF found \in Counts(entity[w]) THEN NoFault ELSE Fault
          /\ held' = [held EXCEPT ![w] = [count |-> found + 1, stamp |-> now + 1 + Skew[w]]]
          /\ excused' = IF Updating(entity[w]) # {} \/ found \notin Counts(entity[w])
                        THEN excused \cup {entity[w]} ELSE excused
    BY <1>4 DEF Load
  <2>2. excused' \in {excused, excused \cup {entity[w]}}
    BY <2>1
  <2>3. now' = now + 1 /\ Goto(w, "keep") /\ UNCHANGED <<queue, dead, job, entity, verdict>>
    BY <1>4 DEF Load
  <2> QED
    BY <1>3, <2>1, <2>2, <2>3
<1> QED
  BY <1>2, <1>4 DEF Load

\* Saving a baseline preserves the invariant.
LEMMA KeepInv == ASSUME IInv, NEW w \in Workers, Keep(w) PROVE IInv'
<1>t. WorkersType /\ QueueType /\ TablesType /\ Sound(w)
  BY DEF IInv
<1>1. /\ pc[w] = "keep"
      /\ snapshots' \in {snapshots, snapshots \cup {Snapshot(w)}}
      /\ excused' \in {excused, excused \cup {entity[w]}}
      /\ UNCHANGED <<runs, done, ready, now, events, copied, alerts, notified, published, lost, unsaved>>
  BY DEF Keep, alerting
<1>j. /\ job[w] \in Run /\ job[w].task \in Tasks /\ Started(job[w]) /\ User(w) \in Users
      /\ entity[w] \in {User(w), RoleOf[User(w)]} /\ ~Malicious(verdict[w].score)
      /\ \A e \in events : e.run # job[w]
  BY <1>t, <1>1 DEF Sound, Started, Run, User
<1>2. Snapshot(w).run = job[w]
      /\ Snapshot(w) \in [entity : Users \cup Roles, run : Run, count : Nat \ {0}, stamp : Nat]
  <2>1. held[w].count \in Nat /\ held[w].count > 0 /\ held[w].stamp \in Nat
    BY <1>t, <1>1 DEF WorkersType, Held, Sound
  <2> QED
    BY <1>j, <2>1 DEF Snapshot
<1>3. TablesType'
  BY <1>t, <1>1, <1>2, <1>j DEF TablesType
<1>4. Grows(w)
  BY <1>t, <1>1, <1>2 DEF Grows, QueueType
<1>5. Learned'
  BY <1>1, <1>2, <1>j DEF IInv, Promised, Learned
<1>6. ASSUME Others(w) PROVE Promised'
  <2>1. AlertsBacked' /\ CompletedIsRecorded'
    BY <1>1 DEF IInv, Promised, AlertsBacked, CompletedIsRecorded
  <2>2. \A v \in Workers : pc[v] = "alert" => pc'[v] = "alert" /\ job'[v] = job[v]
    BY <1>1, <1>6 DEF Others
  <2>3. CriticalNotForgotten'
    BY <1>1, <2>2 DEF IInv, Promised, CriticalNotForgotten
  <2> QED
    BY <1>5, <2>1, <2>3 DEF Promised
<1>7. CASE Raise(w)
  <2>1. WorkersType' /\ QueueType' /\ Others(w) /\ pc'[w] = "idle" /\ job'[w] = NoJob /\ Free(w)
    BY <1>t, <1>1, <1>7, RaiseFacts DEF QueueType
  <2>2. Sound(w)'
    BY <1>3, <2>1, FreeSound DEF TablesType
  <2> QED
    BY <1>3, <1>4, <1>6, <2>1, <2>2, OthersKept, UniqueKept DEF IInv
<1>8. CASE /\ AfterKeep(w) /\ held' = [held EXCEPT ![w] = NoHeld]
           /\ UNCHANGED <<queue, dead, job, verdict, faults>>
  <2>1. PICK label \in {"load", "save"}, next \in {Nobody, RoleOf[User(w)]} :
          /\ Goto(w, label) /\ entity' = [entity EXCEPT ![w] = next]
          /\ label = "load" <=> next = RoleOf[User(w)] /\ entity[w] = User(w)
          /\ label = "save" => next = Nobody
    BY <1>8 DEF AfterKeep
  <2>2. /\ pc' \in [Workers -> Labels] /\ pc'[w] = label /\ \A v \in Workers : v # w => pc'[v] = pc[v]
    BY <1>t, <2>1, GotoFacts DEF Labels
  <2>3. /\ entity' \in [Workers -> {Nobody} \cup Users \cup Roles] /\ entity'[w] = next
        /\ \A v \in Workers : v # w => entity'[v] = entity[v]
    BY <1>t, <1>j, <2>1 DEF WorkersType
  <2>4. held' \in [Workers -> Held] /\ held'[w] = NoHeld /\ \A v \in Workers : v # w => held'[v] = held[v]
    BY <1>t, <1>8, JobFacts DEF WorkersType
  <2>5. WorkersType' /\ QueueType' /\ Others(w)
    BY <1>t, <1>1, <1>8, <2>2, <2>3, <2>4 DEF WorkersType, QueueType, Others
  <2>6. Sound(w)'
    <3>1. Started(job[w])' /\ User(w)' = User(w)
      BY <1>1, <1>8, <1>j DEF Started, User
    <3> QED
      BY <1>1, <1>8, <1>j, <2>1, <2>2, <2>3, <2>4, <3>1 DEF Sound
  <2> QED
    BY <1>1, <1>3, <1>4, <1>6, <1>8, <2>2, <2>5, <2>6, OthersKept, UniqueKept DEF IInv
<1> QED
  BY <1>7, <1>8 DEF Keep, NoFault

\* What becomes of the one event a run has.
Saved(w, label, new) ==
  LET loss == [run |-> job[w], why |-> "store reply"] IN
  /\ Goto(w, label)
  /\ events' \in {events, events \cup {new}}
  /\ lost' \in {lost, lost \cup {loss}}
  /\ unsaved' \in {unsaved, unsaved \cup {job[w]}}
  /\ new \in events' \/ (job[w] \in unsaved' /\ label = "complete")
  /\ label = "alert" => new \in events' /\ Level(new.score) = "critical"
  /\ label = "publish" => new \in events'
  /\ new \in events' /\ Level(new.score) = "critical" => label = "alert" \/ loss \in lost'

\* Storing a risk event preserves the invariant.
LEMMA SaveInv == ASSUME IInv, NEW w \in Workers, Save(w) PROVE IInv'
<1>t. WorkersType /\ QueueType /\ TablesType /\ Sound(w)
  BY DEF IInv
<1>1. /\ pc[w] \in {"save", "note"}
      /\ copied' = IF HasClickHouse THEN copied \cup {job[w]} ELSE copied
      /\ UNCHANGED <<queue, runs, done, dead, job, entity, held, verdict, ready, now,
                     snapshots, alerts, notified, published, excused>>
  BY DEF Save, alerting
<1>j. /\ job[w] \in Run /\ Started(job[w]) /\ entity[w] = Nobody /\ held[w] = NoHeld
      /\ verdict[w] \in Verdict
  BY <1>t, <1>1 DEF Sound, Started, WorkersType
<1>2. PICK new : new = Event(w)
  OBVIOUS
<1>3. /\ new.run = job[w] /\ new.score = verdict[w].score /\ new.raw \in 0 .. Full /\ new.score \in 0 .. Full
      /\ new.seen \subseteq Run
  BY <1>2, <1>j DEF Event, Verdict
<1>f. faults' \in 0 .. MaxFaults /\ faults' >= faults
  BY <1>t, FaultFacts DEF Save, SaveFails, QueueType
<1>s. PICK label \in {"complete", "alert", "publish"} : Saved(w, label, new)
  <2>1. CASE /\ events' = events \cup {new} /\ UNCHANGED <<lost, unsaved>>
             /\ IF pc[w] = "note" THEN Goto(w, "complete") ELSE AfterSave(w)
    <3>1. CASE pc[w] = "note"
      <4>1. Level(new.score) # "critical"
        BY <1>t, <1>3, <3>1, JobFacts DEF Sound
      <4>2. Saved(w, "complete", new)
        BY <2>1, <3>1, <4>1 DEF Saved
      <4> QED
        BY <4>2
    <3>2. CASE pc[w] # "note" /\ Level(new.score) = "critical"
      <4>1. Goto(w, "alert")
        BY <1>3, <2>1, <3>2 DEF AfterSave
      <4>2. Saved(w, "alert", new)
        BY <2>1, <3>2, <4>1 DEF Saved
      <4> QED
        BY <4>2
    <3>3. CASE pc[w] # "note" /\ Level(new.score) # "critical"
      <4>1. Goto(w, "publish")
        BY <1>3, <2>1, <3>3 DEF AfterSave
      <4>2. Saved(w, "publish", new)
        BY <2>1, <3>3, <4>1 DEF Saved
      <4> QED
        BY <4>2
    <3> QED
      BY <3>1, <3>2, <3>3
  <2>2. CASE SaveFails(w) /\ UNCHANGED lost
    <3>1. new \notin events
      BY <1>t, <1>1, <1>3 DEF Sound
    <3>2. Saved(w, "complete", new)
      BY <2>2, <3>1 DEF Saved, SaveFails
    <3> QED
      BY <3>2
  <2>3. CASE /\ events' = events \cup {new} /\ Lose(w, "store reply") /\ Goto(w, "complete")
             /\ UNCHANGED unsaved
    <3>1. Saved(w, "complete", new)
      BY <2>3 DEF Saved, Lose
    <3> QED
      BY <3>1
  <2> QED
    BY <1>2, <2>1, <2>2, <2>3 DEF Save
<1>4. /\ Goto(w, label)
      /\ events' \in {events, events \cup {new}}
      /\ lost' \in {lost, lost \cup {[run |-> job[w], why |-> "store reply"]}}
      /\ unsaved' \in {unsaved, unsaved \cup {job[w]}}
      /\ new \in events' \/ (job[w] \in unsaved' /\ label = "complete")
      /\ label = "alert" => new \in events' /\ Level(new.score) = "critical"
      /\ label = "publish" => new \in events'
      /\ new \in events' /\ Level(new.score) = "critical" =>
           label = "alert" \/ [run |-> job[w], why |-> "store reply"] \in lost'
  BY <1>s DEF Saved
<1>5. /\ pc' \in [Workers -> Labels] /\ pc'[w] = label /\ \A v \in Workers : v # w => pc'[v] = pc[v]
  BY <1>t, <1>4, GotoFacts DEF Labels
<1>6. WorkersType' /\ Others(w)
  BY <1>t, <1>1, <1>5 DEF WorkersType, Others
<1>7. QueueType'
  <2>1. \A u \in Tasks : runs[u] <= 1 + faults' /\ (u \in queue => runs[u] <= faults')
    BY <1>t, <1>f DEF QueueType
  <2> QED
    BY <1>t, <1>1, <1>f, <2>1 DEF QueueType
<1>8. TablesType'
  <2>1. copied' \subseteq Run /\ unsaved' \subseteq Run
    BY <1>t, <1>1, <1>4, <1>j DEF TablesType
  <2>2. lost' \subseteq [run : Run, why : Reasons]
    <3>1. [run |-> job[w], why |-> "store reply"] \in [run : Run, why : Reasons]
      BY <1>j DEF Reasons
    <3> QED
      BY <1>t, <1>4, <3>1 DEF TablesType
  <2>3. \A e \in events' : e.run \in Run /\ e.raw \in 0 .. Full /\ e.score \in 0 .. Full /\ e.seen \subseteq Run
    BY <1>t, <1>3, <1>4, <1>j DEF TablesType
  <2> QED
    BY <1>t, <1>1, <2>1, <2>2, <2>3 DEF TablesType
<1>9. Grows(w)
  <2>1. pc[w] # "idle" /\ new.run = job[w]
    BY <1>1, <1>3
  <2>2. copied \subseteq copied' /\ \A u \in Tasks : runs'[u] >= runs[u] /\ runs'[u] \in Nat
    BY <1>t, <1>1 DEF QueueType
  <2> QED
    BY <1>1, <1>4, <2>1, <2>2 DEF Grows
<1>10. Sound(w)'
  <2>1. Started(job[w])'
    BY <1>1, <1>j DEF Started
  <2>2. label = "alert" => /\ \E e \in events' : e.run = job[w] /\ Level(e.score) = "critical"
                           /\ HasClickHouse => job[w] \in copied'
    BY <1>1, <1>3, <1>4
  <2>3. label = "publish" => \E e \in events' : e.run = job[w]
    BY <1>3, <1>4
  <2>4. (\E e \in events' : e.run.task = job[w].task) \/ (\E r \in unsaved' : r.task = job[w].task)
    BY <1>3, <1>4
  <2> QED
    BY <1>t, <1>1, <1>4, <1>5, <1>j, <2>1, <2>2, <2>3, <2>4 DEF Sound
<1>11. Promised'
  <2>1. Learned'
    <3>1. \A s \in snapshots : s.run = new.run => ~Malicious(new.score)
      BY <1>t, <1>3 DEF Sound
    <3> QED
      BY <1>1, <1>4, <3>1 DEF IInv, Promised, Learned
  <2>2. AlertsBacked'
    BY <1>1, <1>4 DEF IInv, Promised, AlertsBacked
  <2>3. CompletedIsRecorded'
    BY <1>1, <1>4 DEF IInv, Promised, CompletedIsRecorded
  <2>4. CriticalNotForgotten'
    <3>1. ASSUME NEW v \in Workers, pc[v] = "alert" PROVE pc'[v] = "alert" /\ job'[v] = job[v]
      BY <1>1, <1>5, <3>1
    <3>2. Level(new.score) = "critical" /\ new \in events' =>
            \/ job'[w] = new.run /\ pc'[w] = "alert"
            \/ \E l \in lost' : l.run = new.run
      <4>1. [run |-> job[w], why |-> "store reply"].run = job[w]
        OBVIOUS
      <4> QED
        BY <1>1, <1>3, <1>4, <1>5, <4>1
    <3>3. \A e \in events : Level(e.score) = "critical" =>
            \/ e.run \in notified'
            \/ \E alert \in alerts' : alert.run = e.run
            \/ \E v \in Workers : job'[v] = e.run /\ pc'[v] = "alert"
            \/ \E l \in lost' : l.run = e.run
      BY <1>1, <1>4, <3>1 DEF IInv, Promised, CriticalNotForgotten
    <3> QED
      BY <1>4, <3>2, <3>3 DEF CriticalNotForgotten
  <2> QED
    BY <2>1, <2>2, <2>3, <2>4 DEF Promised
<1> QED
  BY <1>1, <1>4, <1>5, <1>6, <1>7, <1>8, <1>9, <1>10, <1>11, OthersKept, UniqueKept DEF IInv

-----------------------------------------------------------------------------
(* Alerts *)

\* What becomes of the alert of a run.
Alerted(w, label, new, loss) ==
  /\ Goto(w, label)
  /\ alerts' \in {alerts, alerts \cup {new}}
  /\ notified' \in {notified, notified \cup {job[w]}}
  /\ lost' \in {lost, lost \cup {loss}}
  /\ new \in alerts' \/ job[w] \in notified' \/ loss \in lost'

\* Deciding on an alert preserves the invariant.
LEMMA AlertInv == ASSUME IInv, NEW w \in Workers, Alert(w) PROVE IInv'
<1>t. WorkersType /\ QueueType /\ TablesType /\ Sound(w)
  BY DEF IInv
<1>1. /\ pc[w] = "alert"
      /\ UNCHANGED <<queue, runs, done, dead, job, entity, held, verdict, ready, now, snapshots, events,
                     copied, published, unsaved, excused>>
  BY DEF Alert, tables
<1>j. /\ job[w] \in Run /\ Started(job[w])
      /\ \E e \in events : e.run = job[w] /\ Level(e.score) = "critical"
      /\ HasClickHouse => job[w] \in copied
  BY <1>t, <1>1 DEF Sound, Started
<1>2. PICK new : new = [run |-> job[w], tries |-> 0]
  OBVIOUS
<1>f. faults' \in 0 .. MaxFaults /\ faults' >= faults
  BY <1>t, FaultFacts DEF Alert, AlertByQueue, AlertDirectly, QueueType
<1>s. PICK label \in {"publish", "complete"}, why \in Reasons : Alerted(w, label, new, [run |-> job[w], why |-> why])
  <2>r. {"unqueued", "refused", "send failed"} \subseteq Reasons
    BY DEF Reasons
  <2>1. CASE AlertByQueue(w)
    <3>1. Alerted(w, "publish", new, [run |-> job[w], why |-> "unqueued"])
      BY <1>2, <2>1 DEF AlertByQueue, Alerted, Lose
    <3> QED
      BY <2>r, <3>1
  <2>2. CASE AlertDirectly(w)
    <3>1. CASE notified' = notified \cup {job[w]} /\ Goto(w, "publish") /\ UNCHANGED lost
      <4>1. Alerted(w, "publish", new, [run |-> job[w], why |-> "unqueued"])
        BY <2>2, <3>1 DEF AlertDirectly, Alerted
      <4> QED
        BY <2>r, <4>1
    <3>2. CASE Lose(w, "refused") /\ Goto(w, "publish") /\ UNCHANGED notified
      <4>1. Alerted(w, "publish", new, [run |-> job[w], why |-> "refused"])
        BY <2>2, <3>2 DEF AlertDirectly, Alerted, Lose
      <4> QED
        BY <2>r, <4>1
    <3>3. CASE /\ Lose(w, "send failed") /\ Goto(w, "complete")
               /\ notified' \in {notified, notified \cup {job[w]}}
      <4>1. Alerted(w, "complete", new, [run |-> job[w], why |-> "send failed"])
        BY <2>2, <3>3 DEF AlertDirectly, Alerted, Lose
      <4> QED
        BY <2>r, <4>1
    <3> QED
      BY <2>2, <3>1, <3>2, <3>3 DEF AlertDirectly
  <2> QED
    BY <2>1, <2>2 DEF Alert
<1>3. /\ Goto(w, label)
      /\ alerts' \in {alerts, alerts \cup {new}}
      /\ notified' \in {notified, notified \cup {job[w]}}
      /\ lost' \in {lost, lost \cup {[run |-> job[w], why |-> why]}}
      /\ new \in alerts' \/ job[w] \in notified' \/ [run |-> job[w], why |-> why] \in lost'
  BY <1>s DEF Alerted
<1>4. /\ pc' \in [Workers -> Labels] /\ pc'[w] = label /\ \A v \in Workers : v # w => pc'[v] = pc[v]
  BY <1>t, <1>3, GotoFacts DEF Labels
<1>5. WorkersType' /\ Others(w)
  BY <1>t, <1>1, <1>4 DEF WorkersType, Others
<1>6. QueueType'
  <2>1. \A u \in Tasks : runs[u] <= 1 + faults' /\ (u \in queue => runs[u] <= faults')
    BY <1>t, <1>f DEF QueueType
  <2> QED
    BY <1>t, <1>1, <1>f, <2>1 DEF QueueType
<1>7. new.run = job[w] /\ [run |-> job[w], why |-> why].run = job[w]
  BY <1>2
<1>8. TablesType'
  <2>1. new \in [run : Run, tries : 0 .. AlertAttempts - 1]
    BY <1>2, <1>j
  <2>2. [run |-> job[w], why |-> why] \in [run : Run, why : Reasons]
    BY <1>j
  <2> QED
    BY <1>t, <1>1, <1>3, <1>j, <2>1, <2>2 DEF TablesType
<1>9. Grows(w)
  BY <1>t, <1>1 DEF Grows, QueueType
<1>10. Sound(w)'
  <2>1. Started(job[w])'
    BY <1>1, <1>j DEF Started
  <2> QED
    BY <1>t, <1>1, <1>3, <1>4, <1>j, <2>1 DEF Sound
<1>11. Promised'
  <2>1. Learned' /\ CompletedIsRecorded'
    BY <1>1 DEF IInv, Promised, Learned, CompletedIsRecorded
  <2>2. AlertsBacked'
    <3>1. \A r \in notified' \cup {alert.run : alert \in alerts'} :
            r = job[w] \/ r \in notified \cup {alert.run : alert \in alerts}
      BY <1>3, <1>7
    <3> QED
      BY <1>1, <1>j, <3>1 DEF IInv, Promised, AlertsBacked
  <2>3. ASSUME NEW e \in events, Level(e.score) = "critical"
        PROVE  \/ e.run \in notified'
               \/ \E alert \in alerts' : alert.run = e.run
               \/ \E v \in Workers : job'[v] = e.run /\ pc'[v] = "alert"
               \/ \E l \in lost' : l.run = e.run
    <3>1. CASE e.run = job[w]
      BY <1>3, <1>7, <3>1
    <3>2. CASE e.run # job[w]
      <4>1. ASSUME NEW v \in Workers, job[v] = e.run, pc[v] = "alert"
            PROVE  job'[v] = e.run /\ pc'[v] = "alert"
        BY <1>1, <1>4, <3>2, <4>1
      <4> QED
        BY <1>3, <2>3, <4>1 DEF IInv, Promised, CriticalNotForgotten
    <3> QED
      BY <3>1, <3>2
  <2>4. CriticalNotForgotten'
    BY <1>1, <2>3 DEF CriticalNotForgotten
  <2> QED
    BY <2>1, <2>2, <2>4 DEF Promised
<1> QED
  BY <1>1, <1>3, <1>4, <1>5, <1>6, <1>8, <1>9, <1>10, <1>11, OthersKept, UniqueKept DEF IInv

\* Publishing an event preserves the invariant.
LEMMA PublishInv == ASSUME IInv, NEW w \in Workers, Publish(w) PROVE IInv'
<1>t. WorkersType /\ QueueType /\ TablesType /\ Sound(w)
  BY DEF IInv
<1>1. /\ pc[w] = "publish" /\ published' = published \cup {job[w]} /\ Goto(w, "complete")
      /\ UNCHANGED <<queue, runs, done, dead, job, entity, held, verdict, ready, now, snapshots, events,
                     copied, alerts, notified, faults, lost, unsaved, excused>>
  BY DEF Publish, tables, history
<1>j. job[w] \in Run /\ Started(job[w]) /\ \E e \in events : e.run = job[w]
  BY <1>t, <1>1 DEF Sound, Started
<1>2. /\ pc' \in [Workers -> Labels] /\ pc'[w] = "complete" /\ \A v \in Workers : v # w => pc'[v] = pc[v]
  BY <1>t, <1>1, GotoFacts DEF Labels
<1>3. WorkersType' /\ Others(w)
  BY <1>t, <1>1, <1>2 DEF WorkersType, Others
<1>4. QueueType' /\ TablesType'
  BY <1>t, <1>1, <1>j DEF QueueType, TablesType
<1>5. Grows(w)
  BY <1>t, <1>1 DEF Grows, QueueType
<1>6. Sound(w)'
  <2>1. Started(job[w])'
    BY <1>1, <1>j DEF Started
  <2> QED
    BY <1>t, <1>1, <1>2, <1>j, <2>1 DEF Sound
<1>7. Promised'
  <2>1. Learned' /\ CompletedIsRecorded' /\ AlertsBacked'
    BY <1>1, <1>j DEF IInv, Promised, Learned, CompletedIsRecorded, AlertsBacked
  <2>2. \A v \in Workers : pc[v] = "alert" => pc'[v] = "alert" /\ job'[v] = job[v]
    BY <1>1, <1>2
  <2>3. CriticalNotForgotten'
    BY <1>1, <2>2 DEF IInv, Promised, CriticalNotForgotten
  <2> QED
    BY <2>1, <2>3 DEF Promised
<1> QED
  BY <1>1, <1>2, <1>3, <1>4, <1>5, <1>6, <1>7, OthersKept, UniqueKept DEF IInv

\* What becomes of an alert that was waiting.
Sent(alert, next, loss) ==
  /\ notified' \in {notified, notified \cup {alert.run}}
  /\ lost' \in {lost, lost \cup {loss}}
  /\ alerts' \in {alerts, alerts \ {alert}, (alerts \ {alert}) \cup {next}}
  /\ next \in alerts' => next \in alerts \/ next.tries < AlertAttempts
  /\ alert.run \in notified' \/ alerts' = alerts \/ loss \in lost' \/ next \in alerts'

\* Sending an alert preserves the invariant.
LEMMA SendInv == ASSUME IInv, NEW w \in Workers, SendAlert(w) PROVE IInv'
<1>t. WorkersType /\ QueueType /\ TablesType
  BY DEF IInv
<1>1. UNCHANGED <<queue, runs, done, dead, pc, job, entity, held, verdict, ready, now, snapshots, events,
                  copied, published, unsaved, excused>>
  BY DEF SendAlert, worker, tables
<1>0. faults \in 0 .. MaxFaults
  BY <1>t DEF QueueType
<1>f. faults' \in 0 .. MaxFaults /\ faults' >= faults
  BY <1>0, FaultFacts DEF SendAlert
<1>a. PICK alert \in alerts :
       \/ notified' = notified \cup {alert.run} /\ alerts' = alerts \ {alert} /\ UNCHANGED lost
       \/ notified' = notified \cup {alert.run} /\ UNCHANGED <<alerts, lost>>
       \/ /\ alerts' = alerts \ {alert} /\ UNCHANGED notified
          /\ lost' = lost \cup {[run |-> alert.run, why |-> "refused"]}
       \/ SendFails(alert) /\ notified' \in {notified, notified \cup {alert.run}}
  BY DEF SendAlert
<1>n. PICK next : next = [alert EXCEPT !.tries = @ + 1]
  OBVIOUS
<1>s. PICK why \in Reasons : Sent(alert, next, [run |-> alert.run, why |-> why])
  <2>r. {"refused", "abandoned"} \subseteq Reasons
    BY DEF Reasons
  <2>1. alert \in [run : Run, tries : 0 .. AlertAttempts - 1]
    BY <1>t DEF TablesType
  <2>2. next.tries = alert.tries + 1
    BY <1>n, <2>1
  <2>3. CASE notified' = notified \cup {alert.run} /\ alerts' = alerts \ {alert} /\ UNCHANGED lost
    <3>1. Sent(alert, next, [run |-> alert.run, why |-> "refused"])
      BY <2>3 DEF Sent
    <3> QED
      BY <2>r, <3>1
  <2>4. CASE notified' = notified \cup {alert.run} /\ UNCHANGED <<alerts, lost>>
    <3>1. Sent(alert, next, [run |-> alert.run, why |-> "refused"])
      BY <2>4 DEF Sent
    <3> QED
      BY <2>r, <3>1
  <2>5. CASE /\ alerts' = alerts \ {alert} /\ UNCHANGED notified
             /\ lost' = lost \cup {[run |-> alert.run, why |-> "refused"]}
    <3>1. Sent(alert, next, [run |-> alert.run, why |-> "refused"])
      BY <2>5 DEF Sent
    <3> QED
      BY <2>r, <3>1
  <2>6. CASE SendFails(alert) /\ notified' \in {notified, notified \cup {alert.run}}
    <3>1. CASE alert.tries + 1 < AlertAttempts
      <4>1. Sent(alert, next, [run |-> alert.run, why |-> "abandoned"])
        BY <1>n, <2>2, <2>6, <3>1 DEF Sent, SendFails
      <4> QED
        BY <2>r, <4>1
    <3>2. CASE ~(alert.tries + 1 < AlertAttempts)
      <4>1. Sent(alert, next, [run |-> alert.run, why |-> "abandoned"])
        BY <2>6, <3>2 DEF Sent, SendFails
      <4> QED
        BY <2>r, <4>1
    <3> QED
      BY <3>1, <3>2
  <2> QED
    BY <1>a, <2>3, <2>4, <2>5, <2>6
<1>2. /\ notified' \in {notified, notified \cup {alert.run}}
      /\ lost' \in {lost, lost \cup {[run |-> alert.run, why |-> why]}}
      /\ alerts' \in {alerts, alerts \ {alert}, (alerts \ {alert}) \cup {next}}
      /\ next \in alerts' => next \in alerts \/ next.tries < AlertAttempts
      /\ \/ alert.run \in notified' \/ alerts' = alerts
         \/ [run |-> alert.run, why |-> why] \in lost'
         \/ next \in alerts'
  BY <1>s DEF Sent
<1>3. alert \in [run : Run, tries : 0 .. AlertAttempts - 1]
  BY <1>t DEF TablesType
<1>4. next.run = alert.run /\ next.tries = alert.tries + 1 /\ next \in [run : Run, tries : Nat]
  BY <1>n, <1>3
<1>5. WorkersType' /\ Others(w) /\ Known' /\ Unique'
  BY <1>1 DEF IInv, WorkersType, Others, Known, Unique, Started
<1>6. QueueType'
  <2>1. \A u \in Tasks : runs[u] <= 1 + faults' /\ (u \in queue => runs[u] <= faults')
    BY <1>t, <1>f DEF QueueType
  <2> QED
    BY <1>t, <1>1, <1>f, <2>1 DEF QueueType
<1>7. TablesType'
  <2>1. next \in alerts' => next \in [run : Run, tries : 0 .. AlertAttempts - 1]
    BY <1>t, <1>2, <1>3, <1>4 DEF TablesType
  <2>2. \A other \in alerts' : other \in alerts \/ other = next
    BY <1>2
  <2>3. alerts' \subseteq [run : Run, tries : 0 .. AlertAttempts - 1]
    BY <1>t, <2>1, <2>2 DEF TablesType
  <2>4. [run |-> alert.run, why |-> why] \in [run : Run, why : Reasons]
    BY <1>3
  <2> QED
    BY <1>t, <1>1, <1>2, <1>3, <2>3, <2>4 DEF TablesType
<1>8. ASSUME NEW v \in Workers PROVE Sound(v)'
  BY <1>1 DEF IInv, Sound, Started, User
<1>9. Promised'
  <2>1. Learned' /\ CompletedIsRecorded'
    BY <1>1 DEF IInv, Promised, Learned, CompletedIsRecorded
  <2>2. AlertsBacked'
    <3>1. \A r \in notified' \cup {other.run : other \in alerts'} :
            r \in notified \cup {other.run : other \in alerts}
      BY <1>2, <1>4
    <3> QED
      BY <1>1, <3>1 DEF IInv, Promised, AlertsBacked
  <2>3. ASSUME NEW e \in events, Level(e.score) = "critical"
        PROVE  \/ e.run \in notified'
               \/ \E other \in alerts' : other.run = e.run
               \/ \E v \in Workers : job'[v] = e.run /\ pc'[v] = "alert"
               \/ \E l \in lost' : l.run = e.run
    <3>1. CASE e.run \in notified \/ \E l \in lost : l.run = e.run
      BY <1>2, <3>1
    <3>2. CASE \E v \in Workers : job[v] = e.run /\ pc[v] = "alert"
      BY <1>1, <3>2
    <3>3. ASSUME NEW other \in alerts, other.run = e.run
          PROVE  \/ e.run \in notified'
                 \/ \E a \in alerts' : a.run = e.run
                 \/ \E l \in lost' : l.run = e.run
      <4>1. CASE other # alert
        BY <1>2, <3>3, <4>1
      <4>2. CASE other = alert
        <5>1. [run |-> alert.run, why |-> why].run = alert.run
          OBVIOUS
        <5> QED
          BY <1>2, <1>4, <3>3, <4>2, <5>1
      <4> QED
        BY <4>1, <4>2
    <3> QED
      BY <2>3, <3>1, <3>2, <3>3 DEF IInv, Promised, CriticalNotForgotten
  <2>4. CriticalNotForgotten'
    BY <1>1, <2>3 DEF CriticalNotForgotten
  <2> QED
    BY <2>1, <2>2, <2>4 DEF Promised
<1> QED
  BY <1>5, <1>6, <1>7, <1>8, <1>9 DEF IInv

-----------------------------------------------------------------------------
\* Every step preserves the invariant.
LEMMA StepInv == IInv /\ [Next]_vars => IInv'
<1> SUFFICES ASSUME IInv, [Next]_vars PROVE IInv'
  OBVIOUS
<1>1. CASE UNCHANGED vars
  <2>1. UNCHANGED <<queue, runs, done, dead, pc, job, entity, held, verdict, ready, now, snapshots, events,
                    copied, alerts, notified, published, faults, lost, unsaved, excused>>
    BY <1>1 DEF vars, worker, tables, alerting, history
  <2>2. WorkersType' /\ TablesType' /\ QueueType'
    BY <2>1 DEF IInv, WorkersType, TablesType, QueueType
  <2>3. Known' /\ Unique' /\ Promised'
    BY <2>1 DEF IInv, Known, Unique, Promised, Learned, CriticalNotForgotten, AlertsBacked,
                CompletedIsRecorded, Started
  <2>4. ASSUME NEW v \in Workers PROVE Sound(v)'
    BY <2>1 DEF IInv, Sound, Started, User
  <2> QED
    BY <2>2, <2>3, <2>4 DEF IInv
<1>2. ASSUME NEW w \in Workers, Work(w) PROVE IInv'
  BY <1>2, StartInv, AnalyseInv, LoadInv, KeepInv, SaveInv, AlertInv, PublishInv, CompleteInv, SendInv
     DEF Work
<1> QED
  BY <1>1, <1>2, SetQueueInv, CrashInv, RedeliverInv DEF Next

\* The invariant the theorems below follow from: what the queue, the records, the locals of
\* ModelBridge.process_payload and the alerts have to do with each other.
THEOREM Inductive == Spec => []IInv
BY InitInv, StepInv, PTL DEF Spec

\* Type correctness.
THEOREM TypeCorrect == Spec => []TypeOK
BY Inductive, InvTypeOK, PTL

\* However many workers judge the same payloads, what one of them judges critical or high is
\* in no baseline (ModelBridge.process_payload, the safety exclusion).
THEOREM MaliciousStaysOut == Spec => []MaliciousNotLearned
<1>1. IInv => MaliciousNotLearned
  BY DEF IInv, Promised, Learned, Sound, MaliciousNotLearned
<1> QED
  BY <1>1, Inductive, PTL

\* No critical event is passed over in silence, whatever fails between storing and alerting
\* (dispatch_alert, _send_webhook).
THEOREM CriticalIsAlerted == Spec => []CriticalNotForgotten
<1>1. IInv => CriticalNotForgotten
  BY DEF IInv, Promised
<1> QED
  BY <1>1, Inductive, PTL

\* No alert and no broadcast is about an event that the database does not have.
THEOREM AlertsAreBacked == Spec => []AlertsBacked
<1>1. IInv => AlertsBacked
  BY DEF IInv, Promised
<1> QED
  BY <1>1, Inductive, PTL

\* A completed task has left its verdict, or an error that was swallowed.
THEOREM CompletionIsOnRecord == Spec => []CompletedIsRecorded
<1>1. IInv => CompletedIsRecorded
  BY DEF IInv, Promised
<1> QED
  BY <1>1, Inductive, PTL

-----------------------------------------------------------------------------
(* A repeated analysis *)

Judging == {"load", "keep", "save"}

\* The events a verdict took into account, and that it did.
Past(seen) == {d \in events : d.run \in seen}
Judged(v, t) ==
  /\ v.seen \subseteq {d.run : d \in events}
  /\ v.score = Final(t, v.raw, Past(v.seen))

Scored ==
  /\ \A e \in events : Judged(e, e.run.task)
  /\ \A w \in Workers : pc[w] \in Judging => Judged(verdict[w], job[w].task)
  /\ \A d, e \in events : d.run = e.run => d = e

\* A worker that judges goes on with what it had.
GoesOn(w) ==
  pc'[w] \in Judging => pc[w] \in Judging /\ UNCHANGED <<verdict[w], job[w]>>

\* A step that stores no event leaves the scores explained.
LEMMA ScoredKept ==
  ASSUME Scored, UNCHANGED events, \A w \in Workers : GoesOn(w)
  PROVE  Scored'
<1>1. ASSUME NEW v, NEW t, Judged(v, t) PROVE Judged(v, t)'
  BY <1>1 DEF Judged, Past
<1>2. ASSUME NEW w \in Workers, pc'[w] \in Judging PROVE Judged(verdict[w], job[w].task)'
  <2>1. UNCHANGED <<verdict[w], job[w]>> /\ Judged(verdict[w], job[w].task)
    BY <1>2 DEF Scored, GoesOn
  <2>2. PICK x, u : x = verdict[w] /\ u = job[w].task
    OBVIOUS
  <2>3. Judged(x, u)'
    BY <1>1, <2>1, <2>2
  <2> QED
    BY <2>1, <2>2, <2>3
<1>3. \A e \in events' : Judged(e, e.run.task)'
  BY <1>1 DEF Scored
<1> QED
  BY <1>2, <1>3 DEF Scored

\* One worker steps to another label, or gives up what it has.
LEMMA GotoKept ==
  ASSUME WorkersType, Scored, UNCHANGED events, NEW w \in Workers, NEW label \in Labels, Goto(w, label),
         label \in Judging => pc[w] \in Judging /\ UNCHANGED <<verdict, job>>,
         \A v \in Workers : v # w => UNCHANGED <<verdict[v], job[v]>>
  PROVE  Scored'
<1>1. pc'[w] = label /\ \A v \in Workers : v # w => pc'[v] = pc[v]
  BY GotoFacts DEF WorkersType
<1>2. ASSUME NEW v \in Workers PROVE GoesOn(v)
  BY <1>1 DEF GoesOn
<1> QED
  BY <1>2, ScoredKept

\* A step of a worker that holds no verdict leaves the scores explained.
LEMMA FreeKept ==
  ASSUME WorkersType, Scored, UNCHANGED events, NEW w \in Workers, Free(w)
  PROVE  Scored'
<1>1. "idle" \in Labels /\ "idle" \notin Judging /\ Goto(w, "idle")
  BY DEF Labels, Judging, Free
<1>2. \A v \in Workers : v # w => UNCHANGED <<verdict[v], job[v]>>
  BY DEF Free, WorkersType
<1> QED
  BY <1>1, <1>2, GotoKept

\* The verdict takes the recent events, or none, and is about those.
LEMMA JudgeScored ==
  ASSUME IInv, Scored, NEW w \in Workers, pc[w] = "analyse", Judge(w), UNCHANGED events
  PROVE  Scored'
<1> DEFINE t == job[w].task
<1>1. PICK raw \in RawOf[t], seen \in {Recent(User(w)), {}} :
        /\ verdict' = [verdict EXCEPT ![w] = [raw |-> raw, score |-> Final(t, raw, seen),
                                              seen |-> {e.run : e \in seen}]]
        /\ Goto(w, "save") \/ Goto(w, "load")
  BY DEF Judge
<1>2. UNCHANGED job /\ WorkersType
  BY DEF Judge, IInv
<1>3. PICK new : new = [raw |-> raw, score |-> Final(t, raw, seen), seen |-> {e.run : e \in seen}]
  OBVIOUS
<1>4. verdict'[w] = new /\ \A v \in Workers : v # w => verdict'[v] = verdict[v]
  BY <1>1, <1>2, <1>3 DEF WorkersType
<1>5. \A v \in Workers : v # w => pc'[v] = pc[v]
  BY <1>1, <1>2 DEF Goto, WorkersType
<1>6. seen \subseteq events
  BY <1>1 DEF Recent
<1>7. new.seen = {e.run : e \in seen} /\ new.raw = raw /\ new.score = Final(t, raw, seen)
  BY <1>3
<1>8. Past(new.seen) = seen
  BY <1>6, <1>7 DEF Past, Scored
<1>9. Judged(new, t)
  BY <1>6, <1>7, <1>8 DEF Judged
<1>10. ASSUME NEW v, NEW u, Judged(v, u) PROVE Judged(v, u)'
  BY <1>10 DEF Judged, Past
<1>11. ASSUME NEW v \in Workers, pc'[v] \in Judging PROVE Judged(verdict[v], job[v].task)'
  <2>1. CASE v = w
    <3>1. Judged(verdict'[w], job'[w].task)
      BY <1>2, <1>4, <1>9
    <3> QED
      BY <2>1, <3>1 DEF Judged, Past
  <2>2. CASE v # w
    <3>1. Judged(verdict'[v], job'[v].task)
      BY <1>2, <1>4, <1>5, <1>11, <2>2 DEF Scored
    <3> QED
      BY <3>1 DEF Judged, Past
  <2> QED
    BY <2>1, <2>2
<1> QED
  BY <1>10, <1>11 DEF Scored, Judged, Past

\* An event of a run that has none yet is in nobody's past.
LEMMA SaveScored ==
  ASSUME IInv, Scored, NEW w \in Workers, Save(w)
  PROVE  Scored'
<1>1. pc[w] \in {"save", "note"} /\ UNCHANGED <<job, verdict>>
  BY DEF Save
<1>t. WorkersType /\ Sound(w)
  BY DEF IInv
<1>2. PICK new : new = Event(w)
  OBVIOUS
<1>3. events' \in {events, events \cup {new}}
  BY <1>2 DEF Save, SaveFails
<1>4. /\ new.run = job[w] /\ new.raw = verdict[w].raw /\ new.score = verdict[w].score
      /\ new.seen = verdict[w].seen
  BY <1>2 DEF Event
<1>5. \A e \in events : e.run # new.run
  BY <1>t, <1>1, <1>4 DEF Sound
<1>6. Judged(verdict[w], job[w].task)
  <2>1. CASE pc[w] = "save"
    BY <2>1 DEF Scored, Judging
  <2>2. CASE pc[w] = "note"
    <3>1. verdict[w].raw = 0 /\ verdict[w].score = 0 /\ verdict[w].seen = {}
      BY <1>t, <2>2 DEF Sound, NoVerdict
    <3>2. Past({}) = {} /\ PastScore({}) = 0
      BY DEF Past, PastScore, Maximum
    <3>3. Final(job[w].task, 0, {}) = 0
      BY <3>2 DEF Final, Smoothed, Capped
    <3> QED
      BY <3>1, <3>2, <3>3 DEF Judged
  <2> QED
    BY <1>1, <2>1, <2>2
<1>7. Judged(new, new.run.task)
  BY <1>4, <1>6 DEF Judged
<1>8. ASSUME NEW v, NEW u, Judged(v, u) PROVE Judged(v, u)'
  <2>1. {d \in events' : d.run \in v.seen} = {d \in events : d.run \in v.seen}
    BY <1>3, <1>5, <1>8 DEF Judged
  <2>2. v.seen \subseteq {d.run : d \in events'}
    BY <1>3, <1>8 DEF Judged
  <2>3. v.score = Final(u, v.raw, {d \in events' : d.run \in v.seen})
    BY <1>8, <2>1 DEF Judged, Past
  <2> QED
    BY <2>2, <2>3 DEF Judged, Past
<1>9. \A e \in events' : Judged(e, e.run.task)'
  BY <1>3, <1>7, <1>8 DEF Scored
<1>10. ASSUME NEW v \in Workers, pc'[v] \in Judging PROVE Judged(verdict[v], job[v].task)'
  <2>1. pc' \in {[pc EXCEPT ![w] = "complete"], [pc EXCEPT ![w] = "alert"], [pc EXCEPT ![w] = "publish"]}
    BY DEF Save, SaveFails, AfterSave, Goto
  <2>2. v # w /\ pc'[v] = pc[v]
    BY <1>t, <1>10, <2>1 DEF WorkersType, Judging
  <2>3. Judged(verdict[v], job[v].task)
    BY <1>10, <2>2 DEF Scored
  <2>4. PICK x, u : x = verdict[v] /\ u = job[v].task
    OBVIOUS
  <2>5. Judged(x, u)'
    BY <1>8, <2>3, <2>4
  <2> QED
    BY <1>1, <2>4, <2>5
<1>11. \A d, e \in events' : d.run = e.run => d = e
  BY <1>3, <1>5 DEF Scored
<1> QED
  BY <1>9, <1>10, <1>11 DEF Scored

\* Every step leaves the scores explained.
LEMMA ScoredStep == IInv /\ Scored /\ [Next]_vars => Scored'
<1> SUFFICES ASSUME IInv, Scored, [Next]_vars PROVE Scored'
  OBVIOUS
<1>t. WorkersType
  BY DEF IInv
<1>1. ASSUME NEW w \in Workers, Raise(w), UNCHANGED events PROVE Scored'
  BY <1>t, <1>1, FreeKept DEF Raise
<1>2. ASSUME NEW w \in Workers, Start(w) PROVE Scored'
  <2>1. Goto(w, "analyse") /\ UNCHANGED <<verdict, events>> /\ \A v \in Workers : v # w => job'[v] = job[v]
    BY <1>t, <1>2 DEF Start, WorkersType, tables
  <2> QED
    BY <1>t, <2>1, GotoKept DEF Labels, Judging
<1>3. ASSUME NEW w \in Workers, Analyse(w) PROVE Scored'
  <2>1. pc[w] = "analyse" /\ UNCHANGED events
    BY <1>3 DEF Analyse, tables
  <2>2. CASE JudgeIdle(w)
    <3>1. Goto(w, "note") /\ UNCHANGED <<verdict, job>>
      BY <2>2 DEF JudgeIdle
    <3> QED
      BY <1>t, <2>1, <3>1, GotoKept DEF Labels, Judging
  <2> QED
    BY <1>1, <1>3, <2>1, <2>2, JudgeScored DEF Analyse
<1>4. ASSUME NEW w \in Workers, Load(w) PROVE Scored'
  <2>1. pc[w] = "load" /\ UNCHANGED events
    BY <1>4 DEF Load, tables
  <2>2. CASE Goto(w, "keep") /\ UNCHANGED <<verdict, job>>
    BY <1>t, <2>1, <2>2, GotoKept DEF Labels, Judging
  <2> QED
    BY <1>1, <1>4, <2>1, <2>2 DEF Load
<1>5. ASSUME NEW w \in Workers, Keep(w) PROVE Scored'
  <2>1. pc[w] = "keep" /\ UNCHANGED events
    BY <1>5 DEF Keep
  <2>2. CASE AfterKeep(w) /\ UNCHANGED <<verdict, job>>
    <3>1. PICK label \in {"load", "save"} : Goto(w, label)
      BY <2>2 DEF AfterKeep
    <3> QED
      BY <1>t, <2>1, <2>2, <3>1, GotoKept DEF Labels, Judging
  <2> QED
    BY <1>1, <1>5, <2>1, <2>2 DEF Keep
<1>6. ASSUME NEW w \in Workers, Alert(w) \/ Publish(w) PROVE Scored'
  <2>1. UNCHANGED <<verdict, job, events>>
    BY <1>6 DEF Alert, Publish, tables
  <2>2. PICK label \in {"publish", "complete"} : Goto(w, label)
    BY <1>6 DEF Alert, AlertByQueue, AlertDirectly, Publish
  <2> QED
    BY <1>t, <2>1, <2>2, GotoKept DEF Labels, Judging
<1>7. ASSUME NEW w \in Workers, Complete(w) \/ CrashRestart(w) PROVE Scored'
  BY <1>t, <1>7, FreeKept DEF Complete, CrashRestart, tables
<1>8. ASSUME UNCHANGED <<pc, verdict, job, events>> PROVE Scored'
  <2>1. \A w \in Workers : GoesOn(w)
    BY <1>8 DEF GoesOn
  <2> QED
    BY <1>8, <2>1, ScoredKept
<1>9. ASSUME NEW w \in Workers, SendAlert(w) \/ SetQueue(w) PROVE Scored'
  BY <1>8, <1>9 DEF SendAlert, SetQueue, worker, tables
<1>10. ASSUME NEW t \in Tasks, Redeliver(t) PROVE Scored'
  BY <1>8, <1>10 DEF Redeliver, worker, tables
<1>11. CASE UNCHANGED vars
  BY <1>8, <1>11 DEF vars, worker, tables
<1> QED
  BY <1>2, <1>3, <1>4, <1>5, <1>6, <1>7, <1>9, <1>10, <1>11, SaveScored DEF Next, Work

\* A score is not below that of less of a past, nor below a past score it was raised with.
LEMMA SmoothedGrows ==
  ASSUME NEW raw \in 0 .. Full, NEW past \in 0 .. Full, NEW more \in 0 .. Full,
         past <= more, Smoothed(raw, past) <= more
  PROVE  Smoothed(raw, past) <= Smoothed(raw, more)
<1>0. /\ raw \in Int /\ past \in Int /\ more \in Int /\ 0 <= raw /\ 0 <= past /\ 0 <= more
      /\ raw <= 10000 /\ past <= 10000 /\ more <= 10000
  BY DEF Full
<1>1. CASE more = 0
  BY <1>0, <1>1 DEF Smoothed
<1>2. CASE more # 0 /\ past = 0
  <2>1. raw <= more
    BY <1>2 DEF Smoothed
  <2>2. PICK x \in Int : x = 85 * raw + 15 * more /\ 100 * raw <= x
    <3>1. 15 * raw <= 15 * more
      BY <1>0, <2>1
    <3> QED
      BY <1>0, <3>1
  <2>3. raw <= x \div 100
    BY <1>0, <2>2
  <2> QED
    BY <1>2, <2>2, <2>3 DEF Smoothed
<1>3. CASE more # 0 /\ past # 0
  <2>1. PICK x \in Int, y \in Int : x = 85 * raw + 15 * past /\ y = 85 * raw + 15 * more /\ x <= y
    BY <1>0
  <2>2. x \div 100 <= y \div 100
    BY <2>1
  <2> QED
    BY <1>3, <2>1, <2>2 DEF Smoothed
<1> QED
  BY <1>1, <1>2, <1>3

\* Explained scores are not milder in a rerun.
LEMMA ScoredMeans == IInv /\ Scored => RerunNotMilder
<1> SUFFICES ASSUME IInv, Scored, NEW d \in events, NEW e \in events,
                    d.run.task = e.run.task, d.raw = e.raw, d.run.task \in Corroborated,
                    d.run \in e.seen, d.seen \subseteq e.seen
             PROVE  e.score >= d.score
  BY DEF RerunNotMilder
<1> DEFINE scores(seen) == {x.score : x \in Past(seen)}
<1>1. \A seen : scores(seen) \subseteq 0 .. Full
  BY DEF IInv, TablesType, Past
<1>2. PICK past \in 0 .. Full : past = PastScore(Past(d.seen))
  BY <1>1, MaximumFacts DEF PastScore
<1>3. PICK more \in 0 .. Full : more = PastScore(Past(e.seen))
  BY <1>1, MaximumFacts DEF PastScore
<1>4. \A x \in scores(e.seen) : x <= more
  BY <1>1, <1>3, MaximumMember DEF PastScore
<1>5. d.score \in scores(e.seen) /\ scores(d.seen) \subseteq scores(e.seen)
  BY DEF Past
<1>6. past <= more
  <2>1. CASE scores(d.seen) = {}
    <3>1. past = 0
      BY <1>2, <2>1 DEF PastScore, Maximum
    <3> QED
      BY <3>1
  <2>2. CASE scores(d.seen) # {}
    <3>1. past \in scores(d.seen)
      BY <1>1, <1>2, <2>2, MaximumMember DEF PastScore
    <3> QED
      BY <1>4, <1>5, <3>1
  <2> QED
    BY <2>1, <2>2
<1>7. d.score = Smoothed(d.raw, past) /\ e.score = Smoothed(d.raw, more)
  BY <1>2, <1>3 DEF Scored, Judged, Final, Capped
<1>8. d.raw \in 0 .. Full /\ d.score \in 0 .. Full /\ e.score \in 0 .. Full
  BY DEF IInv, TablesType
<1>9. d.score <= more
  BY <1>4, <1>5
<1>10. Smoothed(d.raw, past) <= Smoothed(d.raw, more)
  BY <1>6, <1>7, <1>8, <1>9, SmoothedGrows
<1>11. d.score <= e.score
  BY <1>7, <1>10
<1>12. Full \in Int
  BY DEF Full
<1> HIDE DEF scores
<1>13. d.score \in Int /\ e.score \in Int
  BY <1>8, <1>12
<1> QED
  BY <1>11, <1>13

\* A payload analysed again, with what came of the first analysis on record, is not judged
\* milder when it is corroborated and the detectors say the same (aggregate_detectors).
THEOREM RerunsAreNotMilder == Spec => []RerunNotMilder
<1>1. Init => Scored
  BY DEF Init, Scored, Judging
<1>2. IInv /\ IInv' /\ Scored /\ [Next]_vars => Scored'
  BY ScoredStep
<1>3. Spec => []Scored
  BY <1>1, <1>2, Inductive, PTL DEF Spec
<1> QED
  BY <1>3, Inductive, ScoredMeans, PTL

-----------------------------------------------------------------------------
(* The count of updates *)

\* A baseline nothing happened to has as many snapshots as its newest one says, and who
\* updates it does so alone and is about to save the next number.
CountSound(e) ==
  /\ IsFiniteSet(Of(e)) /\ Counts(e) = {Cardinality(Of(e))}
  /\ \A w \in Updating(e) : held[w].count = Cardinality(Of(e)) + 1
  /\ \A v, w \in Updating(e) : v = w

Counted == \A e \in (Users \cup Roles) \ excused : CountSound(e)

\* A step that saves no snapshot and begins no update leaves the counts sound.
LEMMA CountedKept ==
  ASSUME Counted, UNCHANGED snapshots, excused \subseteq excused',
         \A w \in Workers : pc'[w] = "keep" => pc[w] = "keep" /\ UNCHANGED <<entity[w], held[w]>>
  PROVE  Counted'
<1> SUFFICES ASSUME NEW e \in (Users \cup Roles) \ excused' PROVE CountSound(e)'
  BY DEF Counted
<1>1. CountSound(e)
  BY DEF Counted
<1>2. UNCHANGED <<Of(e), Counts(e)>>
  BY DEF Of, Counts, Latest
<1>3. Updating(e)' \subseteq Updating(e) /\ \A w \in Updating(e)' : UNCHANGED held[w]
  BY DEF Updating
<1> QED
  BY <1>1, <1>2, <1>3 DEF CountSound

\* A worker that goes elsewhere than to save a baseline leaves the counts sound.
LEMMA CountedGoto ==
  ASSUME WorkersType, Counted, UNCHANGED snapshots, excused \subseteq excused',
         NEW w \in Workers, NEW label \in Labels \ {"keep"}, Goto(w, label),
         \A v \in Workers : v # w => UNCHANGED <<entity[v], held[v]>>
  PROVE  Counted'
<1>1. pc'[w] = label /\ \A v \in Workers : v # w => pc'[v] = pc[v]
  BY GotoFacts DEF WorkersType
<1> QED
  BY <1>1, CountedKept

\* So does one that is through with its task.
LEMMA CountedFree ==
  ASSUME WorkersType, Counted, UNCHANGED snapshots, excused \subseteq excused',
         NEW w \in Workers, Free(w)
  PROVE  Counted'
<1>1. Goto(w, "idle") /\ "idle" \in Labels \ {"keep"}
  BY DEF Free, Labels
<1>2. \A v \in Workers : v # w => UNCHANGED <<entity[v], held[v]>>
  BY DEF Free, WorkersType
<1> QED
  BY <1>1, <1>2, CountedGoto

\* An update begins with the number that counts, unless that excuses the baseline.
LEMMA LoadCounted ==
  ASSUME IInv, Counted, NEW w \in Workers, Load(w)
  PROVE  Counted'
<1>0. WorkersType /\ pc[w] = "load" /\ UNCHANGED snapshots
  BY DEF IInv, Load, tables
<1>1. CASE Raise(w) /\ UNCHANGED <<now, excused>>
  BY <1>0, <1>1, CountedFree DEF Raise
<1>2. ASSUME NEW found \in Counts(entity[w]) \cup {0}, Goto(w, "keep"), UNCHANGED entity,
             held' = [held EXCEPT ![w] = [count |-> found + 1, stamp |-> now + 1 + Skew[w]]],
             excused' = IF Updating(entity[w]) # {} \/ found \notin Counts(entity[w])
                        THEN excused \cup {entity[w]} ELSE excused
      PROVE  Counted'
  <2>1. /\ pc'[w] = "keep" /\ held'[w].count = found + 1
        /\ \A v \in Workers : v # w => pc'[v] = pc[v] /\ held'[v] = held[v]
    BY <1>0, <1>2, GotoFacts DEF WorkersType, Labels
  <2>2. SUFFICES ASSUME NEW e \in (Users \cup Roles) \ excused' PROVE CountSound(e)'
    BY DEF Counted
  <2>3. CountSound(e)
    BY <1>2 DEF Counted
  <2>4. UNCHANGED <<Of(e), Counts(e)>>
    BY <1>0 DEF Of, Counts, Latest
  <2>5. CASE entity[w] = e
    <3>1. Updating(e) = {} /\ found \in Counts(e)
      BY <1>2, <2>5
    <3>2. found = Cardinality(Of(e))
      BY <2>3, <3>1 DEF CountSound
    <3>3. Updating(e)' = {w}
      BY <1>2, <2>1, <2>5, <3>1 DEF Updating
    <3> QED
      BY <2>1, <2>3, <2>4, <3>2, <3>3 DEF CountSound
  <2>6. CASE entity[w] # e
    <3>1. Updating(e)' = Updating(e) /\ w \notin Updating(e)
      BY <1>0, <1>2, <2>1, <2>6 DEF Updating
    <3>2. \A v \in Updating(e) : held'[v] = held[v]
      BY <2>1, <3>1 DEF Updating
    <3> QED
      BY <2>3, <2>4, <3>1, <3>2 DEF CountSound
  <2> QED
    BY <2>5, <2>6
<1> QED
  BY <1>1, <1>2 DEF Load

\* A snapshot that is the newest of its baseline takes over the count.
LEMMA SnapshotCounts ==
  ASSUME NEW e, NEW s, s.entity = e, s.count = Cardinality(Of(e)) + 1, s.stamp \in Int,
         snapshots' = snapshots \cup {s}, IsFiniteSet(Of(e)),
         \A x \in Of(e) : x.stamp \in Int /\ x.stamp < s.stamp
  PROVE  IsFiniteSet(Of(e)') /\ Counts(e)' = {Cardinality(Of(e)')}
<1>1. Of(e)' = Of(e) \cup {s} /\ s \notin Of(e)
  BY DEF Of
<1>2. IsFiniteSet(Of(e)') /\ Cardinality(Of(e)') = Cardinality(Of(e)) + 1
  BY <1>1, FS_AddElement
<1>3. Latest(e)' = {s}
  <2>1. \A x \in Of(e) : ~(x.stamp >= s.stamp) /\ s.stamp >= x.stamp /\ s.stamp >= s.stamp
    OBVIOUS
  <2>2. s.stamp >= s.stamp
    OBVIOUS
  <2> QED
    BY <1>1, <2>1, <2>2 DEF Latest
<1> QED
  BY <1>1, <1>2, <1>3 DEF Counts

\* Saving a baseline counts one more, unless another snapshot is newer.
LEMMA KeepCounted ==
  ASSUME IInv, Counted, NEW w \in Workers, Keep(w)
  PROVE  Counted'
<1> DEFINE k == entity[w]
           s == Snapshot(w)
<1>0. WorkersType /\ TablesType /\ Sound(w) /\ pc[w] = "keep"
  BY DEF IInv, Keep
<1>1. /\ snapshots' = snapshots \/ snapshots' = snapshots \cup {s}
      /\ excused' = IF \E x \in Of(k) : x.stamp >= held[w].stamp THEN excused \cup {k} ELSE excused
  BY DEF Keep
<1>2. /\ pc'[w] # "keep"
      /\ \A v \in Workers : v # w => UNCHANGED <<pc[v], entity[v], held[v]>>
  <2>1. CASE Raise(w)
    BY <1>0, <2>1, GotoFacts DEF Raise, Free, WorkersType, Labels
  <2>2. CASE AfterKeep(w) /\ held' = [held EXCEPT ![w] = NoHeld]
    <3>1. PICK label \in {"load", "save"} : Goto(w, label)
      BY <2>2 DEF AfterKeep
    <3>2. pc'[w] = label /\ \A v \in Workers : v # w => pc'[v] = pc[v]
      BY <1>0, <3>1, GotoFacts DEF Labels
    <3>3. \A v \in Workers : v # w => entity'[v] = entity[v]
      BY <1>0, <2>2 DEF AfterKeep, WorkersType
    <3> QED
      BY <1>0, <2>2, <3>2, <3>3 DEF WorkersType
  <2> QED
    BY <2>1, <2>2 DEF Keep
<1>3. SUFFICES ASSUME NEW e \in (Users \cup Roles) \ excused' PROVE CountSound(e)'
  BY DEF Counted
<1>4. CountSound(e)
  BY <1>1 DEF Counted
<1>5. Updating(e)' \subseteq Updating(e) \ {w} /\ \A v \in Updating(e)' : UNCHANGED held[v]
  BY <1>2 DEF Updating
<1>6. CASE e # k \/ snapshots' = snapshots
  <2>1. s.entity = k
    BY DEF Snapshot
  <2>2. Of(e)' = Of(e)
    BY <1>1, <1>6, <2>1 DEF Of
  <2>3. Counts(e)' = Counts(e)
    BY <2>2 DEF Counts, Latest
  <2> QED
    BY <1>4, <1>5, <2>2, <2>3 DEF CountSound
<1>7. CASE e = k /\ snapshots' = snapshots \cup {s}
  <2>1. w \in Updating(e)
    BY <1>0, <1>7 DEF Updating
  <2>2. Updating(e)' = {}
    BY <1>4, <1>5, <2>1 DEF CountSound
  <2>3. /\ s.entity = e /\ s.count = held[w].count /\ s.stamp = held[w].stamp
        /\ held[w].count = Cardinality(Of(e)) + 1 /\ held[w].stamp \in Nat
    <3>1. held[w] \in Held
      BY <1>0 DEF WorkersType
    <3> QED
      BY <1>4, <1>7, <2>1, <3>1 DEF Snapshot, CountSound, Held
  <2>4. \A x \in Of(e) : x.stamp \in Int /\ x.stamp < s.stamp
    <3>1. \A x \in Of(e) : ~(x.stamp >= held[w].stamp)
      BY <1>1, <1>7
    <3>2. \A x \in Of(e) : x.stamp \in Nat
      BY <1>0 DEF Of, TablesType
    <3> QED
      BY <2>3, <3>1, <3>2
  <2>5. IsFiniteSet(Of(e)') /\ Counts(e)' = {Cardinality(Of(e)')}
    <3> HIDE DEF s, k
    <3>1. s.stamp \in Int /\ s.count = Cardinality(Of(e)) + 1 /\ IsFiniteSet(Of(e))
      BY <1>4, <2>3 DEF CountSound
    <3> QED
      BY <1>7, <2>3, <2>4, <3>1, SnapshotCounts
  <2> QED
    BY <2>2, <2>5 DEF CountSound
<1> QED
  BY <1>1, <1>6, <1>7

\* Every step leaves the counts sound.
LEMMA CountedStep == IInv /\ Counted /\ [Next]_vars => Counted'
<1> SUFFICES ASSUME IInv, Counted, [Next]_vars PROVE Counted'
  OBVIOUS
<1>t. WorkersType
  BY DEF IInv
<1>1. ASSUME NEW w \in Workers, Start(w) \/ Save(w) \/ Alert(w) \/ Publish(w) PROVE Counted'
  <2>1. UNCHANGED <<entity, held, snapshots, excused>>
    BY <1>1 DEF Start, Save, Alert, Publish, tables, history
  <2>2. PICK label \in Labels \ {"keep"} : Goto(w, label)
    BY <1>1 DEF Start, Save, SaveFails, AfterSave, Alert, AlertByQueue, AlertDirectly, Publish, Labels
  <2> QED
    BY <1>t, <2>1, <2>2, CountedGoto
<1>2. ASSUME NEW w \in Workers, Analyse(w) PROVE Counted'
  <2>1. UNCHANGED <<snapshots, excused>>
    BY <1>2 DEF Analyse, tables, history
  <2>2. CASE Raise(w)
    BY <1>t, <2>1, <2>2, CountedFree DEF Raise
  <2>3. CASE JudgeIdle(w) \/ Judge(w)
    <3>1. PICK label \in {"note", "save", "load"} : Goto(w, label)
      BY <2>3 DEF JudgeIdle, Judge
    <3>2. UNCHANGED held /\ \A v \in Workers : v # w => UNCHANGED entity[v]
      BY <1>t, <2>3 DEF JudgeIdle, Judge, WorkersType
    <3> QED
      BY <1>t, <2>1, <3>1, <3>2, CountedGoto DEF Labels
  <2> QED
    BY <1>2, <2>2, <2>3 DEF Analyse
<1>3. ASSUME NEW w \in Workers, Complete(w) \/ CrashRestart(w) PROVE Counted'
  BY <1>t, <1>3, CountedFree DEF Complete, CrashRestart, tables, history
<1>4. ASSUME UNCHANGED <<pc, entity, held, snapshots, excused>> PROVE Counted'
  BY <1>4, CountedKept
<1>5. ASSUME NEW w \in Workers, SendAlert(w) \/ SetQueue(w) PROVE Counted'
  BY <1>4, <1>5 DEF SendAlert, SetQueue, worker, tables, history
<1>6. ASSUME NEW t \in Tasks, Redeliver(t) PROVE Counted'
  BY <1>4, <1>6 DEF Redeliver, worker, tables, history
<1>7. CASE UNCHANGED vars
  BY <1>4, <1>7 DEF vars, worker, tables, history
<1> QED
  BY <1>1, <1>2, <1>3, <1>5, <1>6, <1>7, LoadCounted, KeepCounted DEF Next, Work

\* No update of a baseline is forgotten: the newest snapshot counts them all, however many
\* workers there are, unless two updated it at once, a read of it failed, or a clock was
\* behind (_update_single_baseline, load_baseline, save_baseline).
THEOREM NoUpdateIsForgotten == Spec => []UpdatesCounted
<1>1. Init => Counted
  <2> SUFFICES ASSUME Init, NEW e PROVE CountSound(e)
    BY DEF Counted
  <2>1. Of(e) = {} /\ Updating(e) = {}
    BY DEF Init, Of, Updating
  <2> QED
    BY <2>1, FS_EmptySet DEF CountSound, Counts
<1>2. IInv /\ Counted /\ [Next]_vars => Counted'
  BY CountedStep
<1>3. Spec => []Counted
  BY <1>1, <1>2, Inductive, PTL DEF Spec
<1>4. Counted => UpdatesCounted
  BY DEF Counted, CountSound, UpdatesCounted
<1> QED
  BY <1>3, <1>4, PTL

=============================================================================
