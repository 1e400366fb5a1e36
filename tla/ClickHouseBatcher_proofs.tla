----------------------- MODULE ClickHouseBatcher_proofs -----------------------
(***************************************************************************)
(* Proofs about ClickHouseBatcher, for every set of rows and tables and    *)
(* every bound of retries: no row is lost but in the ways the code has of  *)
(* losing one, and none is inserted twice without a reason.                *)
(***************************************************************************)
EXTENDS ClickHouseBatcher, TLAPS

USE BatcherAssumption

-----------------------------------------------------------------------------
(* The inductive invariant *)

PcType ==
  [worker : {"wait", "flush", "spool", "left"},
   closer : {"open", "join", "flush", "spool", "disconnect", "closed", "exited"}]

\* A flushing thread is within its retries until it spools, and starts with nothing.
FlusherSound ==
  \A f \in Flushers :
    /\ pc[f] \in {"wait", "flush", "open", "join"} =>
         trying[f] = NotTrying \/ trying[f].failed < MaxRetries
    /\ pc[f] = "spool" => trying[f] # NotTrying
    /\ pc[f] \in {"wait", "open", "join"} => batch[f] = {}

\* The replay inserts rows that are in the file, and has inserted them when it removes it.
ReplaySound ==
  replay.step # "idle" =>
    /\ Alive /\ replay.file \in Files /\ replay.rows \subseteq dlq[replay.file]
    /\ replay.step = "unlink" => \A r \in replay.rows : stored[r] > 0 \/ r \in vanished

Replayed(r) == replay.step = "unlink" /\ r \in replay.rows

\* A row is in one place at most, and where it may still be inserted it was not before.
RowSound(r) ==
  /\ adding[r] # "added" => ~InMemory(r) /\ ~OnDisk(r) /\ stored[r] = 0
  /\ r \in buffer => \A f \in Flushers : r \notin batch[f]
  /\ \A f, g \in Flushers : r \in batch[f] /\ r \in batch[g] => f = g
  /\ OnDisk(r) => ~InMemory(r)
  /\ \A d, e \in Files : r \in dlq[d] /\ r \in dlq[e] => d = e
  /\ InMemory(r) => stored[r] <= doubtful[r]
  /\ OnDisk(r) /\ Alive /\ ~Replayed(r) => stored[r] <= doubtful[r]
  /\ stored[r] <= 1 + doubtful[r]
  /\ adding[r] = "added" => InMemory(r) \/ stored[r] > 0 \/ OnDisk(r) \/ GivenUp(r)

IInv == TypeOK /\ FlusherSound /\ ReplaySound /\ \A r \in Rows : RowSound(r)

\* The invariant holds at first.
LEMMA InitInv == Init => IInv
<1> SUFFICES ASSUME Init PROVE IInv
  OBVIOUS
<1>1. pc = [worker |-> "wait", closer |-> "open"] /\ replay.step = "idle"
  BY DEF Init, NoReplay
<1>2. TypeOK
  BY DEF Init, TypeOK
<1>3. FlusherSound /\ ReplaySound
  BY <1>1 DEF Init, FlusherSound, ReplaySound, Flushers
<1>4. \A r \in Rows : RowSound(r)
  BY DEF Init, RowSound, InMemory, OnDisk, Replayed
<1> QED
  BY <1>2, <1>3, <1>4 DEF IInv

-----------------------------------------------------------------------------
(* What the steps have in common *)

\* Where a flusher that moves on is, and that the other stays.
LEMMA GotoFacts ==
  ASSUME TypeOK, NEW f \in Flushers, NEW label,
         f = "worker" => label \in {"wait", "flush", "spool", "left"},
         f = "closer" => label \in {"open", "join", "flush", "spool", "disconnect", "closed"},
         Goto(f, label)
  PROVE  /\ pc' \in PcType /\ pc'[f] = label
         /\ \A g \in Flushers : g # f => pc'[g] = pc[g]
<1>1. pc \in PcType
  BY DEF TypeOK, PcType
<1>2. CASE f = "worker"
  BY <1>1, <1>2 DEF Goto, PcType, Flushers
<1>3. CASE f = "closer"
  BY <1>1, <1>3 DEF Goto, PcType, Flushers
<1> QED
  BY <1>2, <1>3 DEF Flushers

\* Counting a set of rows once more changes their counts alone.
LEMMA AgainFacts ==
  ASSUME NEW count \in [Rows -> Nat], NEW rows
  PROVE  /\ Again(count, rows) \in [Rows -> Nat]
         /\ \A r \in Rows : Again(count, rows)[r] = IF r \in rows THEN count[r] + 1 ELSE count[r]
BY DEF Again

\* Rows are inserted again only when the insert may be repeated.
LEMMA RaisedFacts ==
  ASSUME TypeOK, NEW rows, Raised(rows)
  PROVE  /\ stored' \in [Rows -> Nat] /\ doubtful' \in [Rows -> Nat]
         /\ \A r \in Rows :
              /\ r \notin rows => stored'[r] = stored[r] /\ doubtful'[r] = doubtful[r]
              /\ stored[r] <= doubtful[r] => stored'[r] <= doubtful'[r]
              /\ stored[r] <= 1 + doubtful[r] => stored'[r] <= 1 + doubtful'[r]
              /\ stored'[r] >= stored[r]
<1>1. stored \in [Rows -> Nat] /\ doubtful \in [Rows -> Nat]
  BY DEF TypeOK
<1>2. CASE UNCHANGED <<stored, doubtful>>
  BY <1>1, <1>2
<1>3. CASE stored' = Again(stored, rows) /\ doubtful' = Again(doubtful, rows)
  BY <1>1, <1>3, AgainFacts
<1> QED
  BY <1>2, <1>3 DEF Raised

\* A row that no step touches stays sound.
LEMMA RowKept ==
  ASSUME NEW r \in Rows, RowSound(r),
         UNCHANGED <<adding[r], stored[r], doubtful[r]>>,
         r \in buffer' <=> r \in buffer,
         \A f \in Flushers : r \in batch'[f] <=> r \in batch[f],
         \A file \in Files : r \in dlq'[file] <=> r \in dlq[file],
         Alive' => Alive /\ (Replayed(r) => Replayed(r)'),
         GivenUp(r) => GivenUp(r)'
  PROVE  RowSound(r)'
<1>1. InMemory(r)' = InMemory(r)
  BY DEF InMemory
<1>2. OnDisk(r)' = OnDisk(r)
  BY DEF OnDisk
<1> QED
  BY <1>1, <1>2 DEF RowSound

-----------------------------------------------------------------------------
(* The steps *)

\* Checking for a connection preserves the invariant.
LEMMA CheckInv == ASSUME IInv, NEW r \in Rows, CheckConnected(r) PROVE IInv'
<1>1. /\ adding[r] = "before"
      /\ adding' = [adding EXCEPT ![r] = IF connected THEN "checked" ELSE "skipped"]
      /\ UNCHANGED <<running, connected, pc, buffer, batch, trying, stored, dlq, second, dlqEnabled,
                     replay, doubtful, dropped, clobbered, vanished>>
  BY DEF CheckConnected, memory, clock, losses
<1>2. TypeOK'
  BY <1>1 DEF IInv, TypeOK
<1>3. FlusherSound' /\ ReplaySound'
  BY <1>1 DEF IInv, FlusherSound, ReplaySound, Alive
<1>4. ASSUME NEW q \in Rows PROVE RowSound(q)'
  <2>1. /\ UNCHANGED <<InMemory(q), OnDisk(q), stored[q], doubtful[q], Alive, Replayed(q), GivenUp(q)>>
        /\ RowSound(q)
    BY <1>1 DEF InMemory, OnDisk, Alive, Replayed, GivenUp, IInv
  <2>2. adding'[q] = "added" <=> adding[q] = "added"
    BY <1>1 DEF IInv, TypeOK
  <2> QED
    BY <1>1, <2>1, <2>2 DEF RowSound
<1> QED
  BY <1>2, <1>3, <1>4 DEF IInv

\* Buffering a row preserves the invariant.
LEMMA AddInv == ASSUME IInv, NEW r \in Rows, AddMany(r) PROVE IInv'
<1>1. /\ adding[r] = "checked" /\ adding' = [adding EXCEPT ![r] = "added"]
      /\ buffer' = buffer \cup {r}
      /\ UNCHANGED <<running, connected, pc, batch, trying, stored, dlq, second, dlqEnabled,
                     replay, doubtful, dropped, clobbered, vanished>>
  BY DEF AddMany, clock, losses
<1>2. TypeOK'
  BY <1>1 DEF IInv, TypeOK
<1>3. FlusherSound' /\ ReplaySound'
  BY <1>1 DEF IInv, FlusherSound, ReplaySound, Alive
<1>4. ASSUME NEW q \in Rows, q # r PROVE RowSound(q)'
  <2>1. adding'[q] = adding[q]
    BY <1>1, <1>4 DEF IInv, TypeOK
  <2> QED
    BY <1>1, <1>4, <2>1, RowKept DEF IInv, Alive, Replayed, GivenUp
<1>5. RowSound(r)'
  <2>1. ~InMemory(r) /\ ~OnDisk(r) /\ stored[r] = 0 /\ doubtful[r] \in Nat
    BY <1>1 DEF IInv, RowSound, TypeOK
  <2>2. adding'[r] = "added"
    BY <1>1 DEF IInv, TypeOK
  <2> QED
    BY <1>1, <2>1, <2>2 DEF RowSound, InMemory, OnDisk
<1> QED
  BY <1>2, <1>3, <1>4, <1>5 DEF IInv

\* A snapshot moves the rows of the buffer to a thread that has none.
LEMMA SnapshotInv ==
  ASSUME IInv, NEW f \in Flushers, Snapshot(f), Goto(f, "flush"),
         f = "worker" => pc[f] = "wait", f = "closer" => pc[f] = "join"
  PROVE  IInv'
<1>1. /\ batch' = [batch EXCEPT ![f] = buffer] /\ buffer' = {}
      /\ UNCHANGED <<adding, running, connected, trying, stored, dlq, second, dlqEnabled,
                     replay, doubtful, dropped, clobbered, vanished>>
  BY DEF Snapshot, Cleared, clock, losses
<1>2. /\ pc' \in PcType /\ pc'[f] = "flush" /\ \A g \in Flushers : g # f => pc'[g] = pc[g]
  BY GotoFacts DEF IInv, Flushers
<1>3. Alive' <=> Alive
  BY <1>2 DEF Alive, Flushers
<1>4. batch[f] = {}
  BY DEF IInv, FlusherSound, Flushers
<1>5. TypeOK'
  BY <1>1, <1>2 DEF IInv, TypeOK, PcType
<1>6. FlusherSound'
  BY <1>1, <1>2 DEF IInv, FlusherSound, TypeOK, Flushers
<1>7. ReplaySound'
  BY <1>1, <1>3 DEF IInv, ReplaySound
<1>8. ASSUME NEW r \in Rows PROVE RowSound(r)'
  <2>1. RowSound(r) /\ (r \notin buffer \/ \A g \in Flushers : r \notin batch[g])
    BY DEF IInv, RowSound
  <2>2. \A g \in Flushers : r \in batch'[g] <=> (r \in batch[g] \/ (g = f /\ r \in buffer))
    BY <1>1, <1>4 DEF IInv, TypeOK
  <2>3. InMemory(r)' = InMemory(r)
    BY <1>1, <2>2 DEF InMemory
  <2>4. UNCHANGED <<adding[r], stored[r], doubtful[r], OnDisk(r), Replayed(r), GivenUp(r)>>
    BY <1>1 DEF OnDisk, Replayed, GivenUp
  <2>5. \A g, h \in Flushers : r \in batch'[g] /\ r \in batch'[h] => g = h
    BY <2>1, <2>2 DEF RowSound
  <2> QED
    BY <1>1, <1>3, <2>1, <2>3, <2>4, <2>5 DEF RowSound
<1> QED
  BY <1>5, <1>6, <1>7, <1>8 DEF IInv

\* A step that moves one thread from one place to the next.
LEMMA MoveInv ==
  ASSUME IInv, NEW f \in Flushers, NEW label, Goto(f, label),
         f = "worker" => label \in {"wait", "left"},
         f = "closer" => label \in {"join", "disconnect", "closed"},
         label \in {"wait", "join"} =>
           batch[f] = {} /\ (trying[f] = NotTrying \/ trying[f].failed < MaxRetries),
         f = "closer" => pc["closer"] # "exited",
         running' \in BOOLEAN, connected' \in BOOLEAN,
         UNCHANGED <<adding, buffer, batch, trying, stored, dlq, second, dlqEnabled,
                     replay, doubtful, dropped, clobbered, vanished>>
  PROVE  IInv'
<1>1. /\ pc' \in PcType /\ pc'[f] = label /\ \A g \in Flushers : g # f => pc'[g] = pc[g]
  BY GotoFacts DEF IInv
<1>2. Alive' <=> Alive
  BY <1>1 DEF Alive, Flushers
<1>3. TypeOK'
  BY <1>1 DEF IInv, TypeOK, PcType
<1>4. FlusherSound'
  BY <1>1 DEF IInv, FlusherSound, Flushers
<1>5. ReplaySound'
  BY <1>2 DEF IInv, ReplaySound
<1>6. ASSUME NEW r \in Rows PROVE RowSound(r)'
  BY <1>2, RowKept DEF IInv, Replayed, GivenUp
<1> QED
  BY <1>3, <1>4, <1>5, <1>6 DEF IInv

\* What an attempt of a batch that is over leaves behind: rows in ClickHouse, or given up.
LEMMA PlacedInv ==
  ASSUME IInv, NEW f \in Flushers, NEW rows \in SUBSET batch[f],
         pc[f] = "flush", Placed(f, rows), trying' = [trying EXCEPT ![f] = NotTrying],
         UNCHANGED <<adding, buffer, pc, running, connected, dlq, second, dlqEnabled, replay, clobbered>>,
         stored' \in [Rows -> Nat], doubtful' \in [Rows -> Nat],
         dropped \subseteq dropped', vanished \subseteq vanished',
         dropped' \subseteq Rows, vanished' \subseteq Rows,
         \A r \in Rows \ rows : UNCHANGED <<stored[r], doubtful[r]>>,
         \A r \in rows : /\ stored'[r] <= 1 + doubtful'[r]
                         /\ stored'[r] > 0 \/ r \in dropped' \cup vanished'
  PROVE  IInv'
<1>1. /\ batch' = [batch EXCEPT ![f] = @ \ rows] /\ batch \in [Flushers -> SUBSET Rows]
      /\ trying \in [Flushers -> {NotTrying} \cup [table : Tables, failed : 1 .. MaxRetries]]
  BY DEF Placed, IInv, TypeOK
<1>2. TypeOK'
  BY <1>1 DEF IInv, TypeOK
<1>3. FlusherSound'
  BY <1>1 DEF IInv, FlusherSound, Flushers
<1>4. ASSUME NEW r \in rows PROVE /\ r \in Rows /\ adding[r] = "added" /\ ~OnDisk(r)
                                  /\ r \notin buffer /\ \A g \in Flushers : r \notin batch'[g]
  <2>1. r \in Rows /\ r \in batch[f] /\ InMemory(r)
    BY <1>1 DEF InMemory
  <2>2. RowSound(r)
    BY <2>1 DEF IInv
  <2> QED
    BY <1>1, <2>1, <2>2 DEF RowSound
<1>5. ReplaySound'
  <2>1. \A r \in replay.rows : replay.step # "idle" => r \notin rows /\ r \in Rows
    BY <1>4 DEF IInv, ReplaySound, OnDisk, TypeOK
  <2> QED
    BY <2>1 DEF IInv, ReplaySound, Alive
<1>6. ASSUME NEW r \in rows PROVE RowSound(r)'
  <2>1. ~InMemory(r)' /\ ~OnDisk(r)'
    BY <1>4 DEF InMemory, OnDisk
  <2> QED
    BY <1>4, <2>1 DEF RowSound, InMemory, OnDisk, GivenUp
<1>7. ASSUME NEW r \in Rows \ rows PROVE RowSound(r)'
  <2>1. \A g \in Flushers : r \in batch'[g] <=> r \in batch[g]
    BY <1>1
  <2> QED
    BY <2>1, RowKept DEF IInv, Alive, Replayed, GivenUp
<1> QED
  BY <1>2, <1>3, <1>5, <1>6, <1>7 DEF IInv

\* An attempt at an insert preserves the invariant.
LEMMA AttemptInv == ASSUME IInv, NEW f \in Flushers, NEW table \in Tables, Attempt(f, table) PROVE IInv'
<1>0. PICK rows : rows = {r \in batch[f] : TableOf[r] = table}
  OBVIOUS
<1>1. PICK failed : failed = Failures(f)
  OBVIOUS
<1>2. /\ pc[f] = "flush" /\ rows # {}
      /\ UNCHANGED <<adding, buffer, running, connected, dlq, second, dlqEnabled, replay, clobbered>>
  BY <1>0 DEF Attempt, clock
<1>3. failed \in 1 .. MaxRetries
  BY <1>1, <1>2 DEF IInv, TypeOK, FlusherSound, Failures
<1>4. /\ stored \in [Rows -> Nat] /\ doubtful \in [Rows -> Nat]
      /\ dropped \subseteq Rows /\ vanished \subseteq Rows
      /\ rows \subseteq batch[f] /\ rows \subseteq Rows
  BY <1>0 DEF IInv, TypeOK
<1>5. ASSUME NEW r \in rows PROVE r \in Rows /\ InMemory(r) /\ stored[r] <= doubtful[r] /\ adding[r] = "added"
  <2>1. r \in Rows /\ InMemory(r)
    BY <1>4 DEF InMemory
  <2> QED
    BY <2>1 DEF IInv, RowSound
<1>6. CASE /\ connected /\ stored' = Again(stored, rows)
           /\ Placed(f, rows) /\ trying' = [trying EXCEPT ![f] = NotTrying]
           /\ UNCHANGED <<pc, doubtful, dropped, vanished>>
  <2>1. stored' \in [Rows -> Nat]
        /\ \A r \in Rows : stored'[r] = IF r \in rows THEN stored[r] + 1 ELSE stored[r]
    BY <1>4, <1>6, AgainFacts
  <2>2. \A r \in rows : stored'[r] <= 1 + doubtful[r] /\ stored'[r] > 0
    BY <1>4, <1>5, <2>1
  <2> QED
    BY <1>2, <1>4, <1>6, <2>1, <2>2, PlacedInv
<1>7. CASE /\ vanished' = vanished \cup rows
           /\ Placed(f, rows) /\ trying' = [trying EXCEPT ![f] = NotTrying]
           /\ UNCHANGED <<pc, stored, doubtful, dropped>>
  <2>1. \A r \in rows : stored[r] <= 1 + doubtful[r] /\ r \in vanished'
    BY <1>4, <1>5, <1>7
  <2> QED
    BY <1>2, <1>4, <1>7, <2>1, PlacedInv
<1>8. CASE /\ Raised(rows) /\ dropped' = dropped \cup rows
           /\ Placed(f, rows) /\ trying' = [trying EXCEPT ![f] = NotTrying]
           /\ UNCHANGED <<pc, vanished>>
  <2>1. /\ stored' \in [Rows -> Nat] /\ doubtful' \in [Rows -> Nat]
        /\ \A r \in Rows \ rows : UNCHANGED <<stored[r], doubtful[r]>>
        /\ \A r \in Rows : stored[r] <= doubtful[r] => stored'[r] <= doubtful'[r]
    BY <1>8, RaisedFacts DEF IInv
  <2>2. \A r \in rows : stored'[r] <= 1 + doubtful'[r] /\ r \in dropped'
    BY <1>4, <1>5, <1>8, <2>1
  <2> QED
    BY <1>2, <1>4, <1>8, <2>1, <2>2, PlacedInv
<1>9. CASE /\ Raised(rows) /\ trying' = [trying EXCEPT ![f] = [table |-> table, failed |-> failed]]
           /\ (RetriesLeft(failed) /\ UNCHANGED pc) \/ Goto(f, "spool")
           /\ UNCHANGED <<batch, dropped, vanished>>
  <2>1. /\ stored' \in [Rows -> Nat] /\ doubtful' \in [Rows -> Nat]
        /\ \A r \in Rows :
             /\ r \notin rows => stored'[r] = stored[r] /\ doubtful'[r] = doubtful[r]
             /\ stored[r] <= doubtful[r] => stored'[r] <= doubtful'[r]
             /\ stored'[r] >= stored[r]
    BY <1>9, RaisedFacts DEF IInv
  <2>2. /\ pc' \in PcType
        /\ (pc'[f] = pc[f] /\ failed < MaxRetries) \/ pc'[f] = "spool"
        /\ \A g \in Flushers : g # f => pc'[g] = pc[g]
    <3>1. CASE RetriesLeft(failed) /\ UNCHANGED pc
      BY <3>1 DEF IInv, TypeOK, PcType, RetriesLeft
    <3>2. CASE Goto(f, "spool")
      BY <3>2, GotoFacts DEF IInv
    <3> QED
      BY <1>9, <3>1, <3>2
  <2>3. Alive' <=> Alive
    BY <1>2, <2>2 DEF Alive, Flushers
  <2>4. TypeOK'
    <3>1. pc' \in PcType
      BY <1>9, GotoFacts DEF IInv, TypeOK, PcType
    <3>2. trying' \in [Flushers -> {NotTrying} \cup [table : Tables, failed : 1 .. MaxRetries]]
      BY <1>3, <1>9 DEF IInv, TypeOK
    <3> QED
      BY <1>2, <1>9, <2>1, <3>1, <3>2 DEF IInv, TypeOK, PcType
  <2>5. FlusherSound'
    <3>1. /\ trying'[f] = [table |-> table, failed |-> failed]
          /\ \A g \in Flushers : g # f => trying'[g] = trying[g]
      BY <1>9 DEF IInv, TypeOK
    <3>2. trying'[f] # NotTrying /\ trying'[f].failed = failed
      BY <1>3, <3>1 DEF NotTrying
    <3>3. \A g \in Flushers : g # f =>
            /\ pc'[g] \in {"wait", "flush", "open", "join"} =>
                 trying'[g] = NotTrying \/ trying'[g].failed < MaxRetries
            /\ pc'[g] = "spool" => trying'[g] # NotTrying
            /\ pc'[g] \in {"wait", "open", "join"} => batch'[g] = {}
      BY <1>9, <2>2, <3>1 DEF IInv, FlusherSound
    <3> QED
      BY <1>2, <2>2, <3>2, <3>3 DEF FlusherSound
  <2>6. ReplaySound'
    <3>1. \A r \in replay.rows : replay.step # "idle" => r \in Rows
      BY DEF IInv, TypeOK, NoReplay
    <3>2. \A r \in Rows : stored[r] > 0 => stored'[r] > 0
      BY <1>4, <2>1
    <3> QED
      BY <1>2, <1>9, <2>3, <3>1, <3>2 DEF IInv, ReplaySound
  <2>7. ASSUME NEW r \in Rows \ rows PROVE RowSound(r)'
    BY <1>2, <1>9, <2>1, <2>3, RowKept DEF IInv, Replayed, GivenUp
  <2>8. ASSUME NEW r \in rows PROVE RowSound(r)'
    <3>1. r \in Rows /\ RowSound(r) /\ InMemory(r) /\ adding[r] = "added"
      BY <1>5 DEF IInv
    <3>2. UNCHANGED <<InMemory(r), OnDisk(r), adding[r]>>
      BY <1>2, <1>9 DEF InMemory, OnDisk
    <3>3. stored'[r] <= doubtful'[r] /\ stored'[r] \in Nat /\ doubtful'[r] \in Nat
      BY <1>5, <2>1, <3>1
    <3>4. ~OnDisk(r)
      BY <3>1 DEF RowSound
    <3> QED
      BY <1>2, <1>9, <3>1, <3>2, <3>3, <3>4 DEF RowSound
  <2> QED
    BY <2>4, <2>5, <2>6, <2>7, <2>8 DEF IInv
<1> QED
  BY <1>0, <1>1, <1>6, <1>7, <1>8, <1>9 DEF Attempt

\* Spooling to the dead letter directory preserves the invariant.
LEMMA SpoolInv == ASSUME IInv, NEW f \in Flushers, Spool(f) PROVE IInv'
<1>0. PICK rows : rows = {r \in batch[f] : TableOf[r] = trying[f].table}
  OBVIOUS
<1>a. PICK file : file = [table |-> trying[f].table, second |-> second]
  OBVIOUS
<1>1. PICK written \in SUBSET rows :
        /\ dlq' = [dlq EXCEPT ![file] = @ \cup written] /\ dropped' = dropped \cup (rows \ written)
  BY <1>0, <1>a DEF Spool, Spooled
<1>2. /\ pc[f] = "spool" /\ Goto(f, "flush")
      /\ batch' = [batch EXCEPT ![f] = @ \ rows] /\ trying' = [trying EXCEPT ![f] = NotTrying]
      /\ UNCHANGED <<adding, buffer, running, connected, stored, second, dlqEnabled, replay, doubtful,
                     clobbered, vanished>>
  BY <1>0 DEF Spool, Placed, clock
<1>3. /\ pc' \in PcType /\ pc'[f] = "flush" /\ \A g \in Flushers : g # f => pc'[g] = pc[g]
  BY <1>2, GotoFacts DEF IInv
<1>4. Alive' <=> Alive
  BY <1>2, <1>3 DEF Alive, Flushers
<1>5. file \in Files
  <2>1. trying[f] \in [table : Tables, failed : 1 .. MaxRetries]
    BY <1>2 DEF IInv, TypeOK, FlusherSound
  <2> QED
    BY <1>a, <2>1 DEF IInv, TypeOK, Files
<1>6. rows \subseteq batch[f] /\ rows \subseteq Rows /\ written \subseteq rows
  BY <1>0, <1>1 DEF IInv, TypeOK
<1>7. /\ \A d \in Files : dlq'[d] = IF d = file THEN dlq[d] \cup written ELSE dlq[d]
      /\ \A g \in Flushers : batch'[g] = IF g = f THEN batch[g] \ rows ELSE batch[g]
  BY <1>1, <1>2, <1>5 DEF IInv, TypeOK
<1>8. TypeOK'
  <2>1. dlq' \in [Files -> SUBSET Rows] /\ dropped' \subseteq Rows
    BY <1>1, <1>5, <1>6 DEF IInv, TypeOK
  <2>2. /\ batch' \in [Flushers -> SUBSET Rows]
        /\ trying' \in [Flushers -> {NotTrying} \cup [table : Tables, failed : 1 .. MaxRetries]]
    BY <1>2 DEF IInv, TypeOK
  <2> QED
    BY <1>2, <1>3, <2>1, <2>2 DEF IInv, TypeOK, PcType
<1>9. FlusherSound'
  BY <1>2, <1>3, <1>7 DEF IInv, FlusherSound, TypeOK, Flushers
<1>10. ReplaySound'
  BY <1>2, <1>4, <1>7 DEF IInv, ReplaySound
<1>11. ASSUME NEW r \in rows PROVE RowSound(r)'
  <2>1. r \in Rows /\ RowSound(r) /\ InMemory(r)
    BY <1>6 DEF IInv, InMemory
  <2>2. /\ adding[r] = "added" /\ ~OnDisk(r) /\ r \notin buffer /\ stored[r] <= doubtful[r]
        /\ stored[r] \in Nat /\ doubtful[r] \in Nat
    <3>1. stored[r] \in Nat /\ doubtful[r] \in Nat
      BY <2>1 DEF IInv, TypeOK
    <3>2. adding[r] = "added" /\ ~OnDisk(r) /\ stored[r] <= doubtful[r]
      BY <2>1 DEF RowSound
    <3>3. r \notin buffer
      BY <1>6, <2>1 DEF RowSound
    <3> QED
      BY <3>1, <3>2, <3>3
  <2>3. ~InMemory(r)'
    BY <1>2, <1>6, <1>7, <2>1, <2>2 DEF InMemory, RowSound
  <2>4. \A d \in Files : r \in dlq'[d] <=> d = file /\ r \in written
    BY <1>7, <2>2 DEF OnDisk
  <2>5. OnDisk(r)' \/ GivenUp(r)'
    BY <1>1, <1>5, <2>4 DEF OnDisk, GivenUp
  <2> QED
    BY <1>2, <2>2, <2>3, <2>4, <2>5 DEF RowSound, InMemory
<1>12. ASSUME NEW r \in Rows \ rows PROVE RowSound(r)'
  <2>1. /\ \A d \in Files : r \in dlq'[d] <=> r \in dlq[d]
        /\ \A g \in Flushers : r \in batch'[g] <=> r \in batch[g]
    BY <1>6, <1>7
  <2> QED
    BY <1>1, <1>2, <1>4, <2>1, RowKept DEF IInv, Replayed, GivenUp
<1> QED
  BY <1>8, <1>9, <1>10, <1>11, <1>12 DEF IInv

\* A flush that ends, or goes on to the next table, preserves the invariant.
LEMMA FlushInv == ASSUME IInv, NEW f \in Flushers, Flush(f) PROVE IInv'
<1>1. CASE FlushEnds(f)
  <2>1. /\ pc[f] = "flush" /\ batch[f] = {} /\ Goto(f, IF f = "worker" THEN "wait" ELSE "disconnect")
        /\ UNCHANGED <<adding, running, connected, buffer, batch, trying, stored, dlq, second,
                       dlqEnabled, replay, doubtful, dropped, clobbered, vanished>>
    BY <1>1 DEF FlushEnds, memory, clock, losses
  <2>2. trying[f] = NotTrying \/ trying[f].failed < MaxRetries
    BY <2>1 DEF IInv, FlusherSound
  <2>3. running' \in BOOLEAN /\ connected' \in BOOLEAN
    BY <2>1 DEF IInv, TypeOK
  <2>4. f = "closer" => pc["closer"] # "exited"
    BY <2>1
  <2> QED
    BY <2>1, <2>2, <2>3, <2>4, MoveInv DEF Flushers
<1> QED
  BY <1>1, AttemptInv, SpoolInv DEF Flush

\* The exit of the process preserves the invariant.
LEMMA ExitInv == ASSUME IInv, Exit PROVE IInv'
<1>1. /\ pc' = [worker |-> "left", closer |-> "exited"] /\ replay' = NoReplay
      /\ UNCHANGED <<adding, running, connected, buffer, batch, trying, stored, dlq, second,
                     dlqEnabled, doubtful, dropped, clobbered, vanished>>
  BY DEF Exit, memory, clock, losses
<1>2. pc'["worker"] = "left" /\ pc'["closer"] = "exited" /\ ~Alive'
  BY <1>1 DEF Alive
<1>3. TypeOK'
  BY <1>1 DEF IInv, TypeOK
<1>4. FlusherSound' /\ ReplaySound'
  BY <1>1, <1>2 DEF FlusherSound, ReplaySound, Flushers, NoReplay
<1>5. ASSUME NEW r \in Rows PROVE RowSound(r)'
  BY <1>1, <1>2, RowKept DEF IInv, GivenUp
<1> QED
  BY <1>3, <1>4, <1>5 DEF IInv

\* The next second preserves the invariant.
LEMMA TickInv == ASSUME IInv, Tick PROVE IInv'
<1>1. /\ second < MaxSeconds /\ second' = second + 1
      /\ UNCHANGED <<adding, running, connected, pc, buffer, batch, trying, stored, dlq, dlqEnabled,
                     replay, doubtful, dropped, clobbered, vanished>>
  BY DEF Tick, memory, losses
<1>2. TypeOK'
  BY <1>1 DEF IInv, TypeOK
<1>3. FlusherSound' /\ ReplaySound'
  BY <1>1 DEF IInv, FlusherSound, ReplaySound, Alive
<1>4. ASSUME NEW r \in Rows PROVE RowSound(r)'
  BY <1>1, RowKept DEF IInv, Alive, Replayed, GivenUp
<1> QED
  BY <1>2, <1>3, <1>4 DEF IInv

-----------------------------------------------------------------------------
(* The replay *)

\* The replay's reading of a file preserves the invariant.
LEMMA ReadInv == ASSUME IInv, NEW file \in Files, ReplayRead(file) PROVE IInv'
<1>1. /\ Alive /\ replay.step = "idle"
      /\ replay' = [step |-> "insert", file |-> file, rows |-> dlq[file]]
      /\ UNCHANGED <<adding, running, connected, pc, buffer, batch, trying, stored, dlq, second,
                     dlqEnabled, doubtful, dropped, clobbered, vanished>>
  BY DEF ReplayRead, memory, clock, losses
<1>2. TypeOK'
  BY <1>1 DEF IInv, TypeOK
<1>3. FlusherSound' /\ ReplaySound'
  BY <1>1 DEF IInv, FlusherSound, ReplaySound, Alive
<1>4. ASSUME NEW r \in Rows PROVE RowSound(r)'
  BY <1>1, RowKept DEF IInv, Alive, Replayed, GivenUp
<1> QED
  BY <1>2, <1>3, <1>4 DEF IInv

\* The replay's insert preserves the invariant.
LEMMA InsertInv == ASSUME IInv, ReplayInsert PROVE IInv'
<1>1. /\ replay.step = "insert"
      /\ UNCHANGED <<adding, running, connected, pc, buffer, batch, trying, dlq, second, dlqEnabled,
                     dropped, clobbered>>
  BY DEF ReplayInsert, memory, clock
<1>2. /\ Alive /\ replay.file \in Files /\ replay.rows \subseteq dlq[replay.file] /\ replay.rows \subseteq Rows
      /\ replay \in [step : {"insert", "unlink"}, file : Files, rows : SUBSET Rows]
  BY <1>1 DEF IInv, ReplaySound, TypeOK, NoReplay
<1>3. ASSUME NEW r \in replay.rows
      PROVE  /\ r \in Rows /\ RowSound(r) /\ OnDisk(r) /\ stored[r] <= doubtful[r]
             /\ stored[r] \in Nat /\ doubtful[r] \in Nat
  <2>1. r \in Rows /\ RowSound(r) /\ OnDisk(r) /\ ~Replayed(r)
    BY <1>1, <1>2 DEF IInv, OnDisk, Replayed
  <2> QED
    BY <1>2, <2>1 DEF RowSound, IInv, TypeOK
<1>4. FlusherSound' /\ Alive'
  BY <1>1, <1>2 DEF IInv, FlusherSound, Alive
<1>5. ASSUME /\ stored' \in [Rows -> Nat] /\ doubtful' \in [Rows -> Nat]
             /\ vanished \subseteq vanished' /\ vanished' \subseteq Rows
             /\ \A r \in Rows \ replay.rows : UNCHANGED <<stored[r], doubtful[r]>>
             /\ \A r \in replay.rows :
                  /\ stored'[r] <= 1 + doubtful'[r] /\ stored'[r] >= stored[r]
                  /\ stored'[r] <= doubtful'[r] \/ replay'.step = "unlink"
             /\ \/ replay' = NoReplay
                \/ /\ replay' = [replay EXCEPT !.step = "unlink"]
                   /\ \A r \in replay.rows : stored'[r] > 0 \/ r \in vanished'
      PROVE  IInv'
  <2>1. /\ replay'.step = "idle" \/ replay'.step = "unlink"
        /\ replay'.step = "unlink" => replay'.rows = replay.rows /\ replay'.file = replay.file
                                      /\ \A r \in replay.rows : stored'[r] > 0 \/ r \in vanished'
        /\ replay' \in {NoReplay} \cup [step : {"insert", "unlink"}, file : Files, rows : SUBSET Rows]
    BY <1>2, <1>5 DEF NoReplay
  <2>2. TypeOK'
    BY <1>1, <1>5, <2>1 DEF IInv, TypeOK
  <2>3. ReplaySound'
    BY <1>1, <1>2, <1>4, <2>1 DEF ReplaySound
  <2>4. ASSUME NEW r \in Rows \ replay.rows PROVE RowSound(r)'
    BY <1>1, <1>2, <1>5, RowKept DEF IInv, Replayed, GivenUp
  <2>5. ASSUME NEW r \in replay.rows PROVE RowSound(r)'
    <3>1. UNCHANGED <<InMemory(r), OnDisk(r), adding[r]>>
      BY <1>1 DEF InMemory, OnDisk
    <3>2. ~InMemory(r) /\ adding[r] = "added"
      BY <1>3 DEF RowSound
    <3>3. Replayed(r)' \/ stored'[r] <= doubtful'[r]
      BY <1>5, <2>1 DEF Replayed
    <3> QED
      BY <1>1, <1>3, <1>5, <3>1, <3>2, <3>3 DEF RowSound
  <2> QED
    BY <1>4, <2>2, <2>3, <2>4, <2>5 DEF IInv
<1>6. /\ stored \in [Rows -> Nat] /\ doubtful \in [Rows -> Nat] /\ vanished \subseteq Rows
  BY DEF IInv, TypeOK
<1>7. CASE /\ stored' = Again(stored, replay.rows) /\ replay' = [replay EXCEPT !.step = "unlink"]
           /\ UNCHANGED <<doubtful, vanished>>
  <2>1. stored' \in [Rows -> Nat]
        /\ \A r \in Rows : stored'[r] = IF r \in replay.rows THEN stored[r] + 1 ELSE stored[r]
    BY <1>6, <1>7, AgainFacts
  <2>2. \A r \in replay.rows : stored'[r] <= 1 + doubtful'[r] /\ stored'[r] > 0 /\ stored'[r] >= stored[r]
    BY <1>3, <1>7, <2>1
  <2>3. replay'.step = "unlink"
    BY <1>2, <1>7
  <2> QED
    BY <1>5, <1>6, <1>7, <2>1, <2>2, <2>3
<1>8. CASE /\ vanished' = vanished \cup replay.rows /\ replay' = [replay EXCEPT !.step = "unlink"]
           /\ UNCHANGED <<stored, doubtful>>
  BY <1>2, <1>3, <1>5, <1>6, <1>8
<1>9. CASE /\ replay' = NoReplay /\ UNCHANGED vanished
           /\ Raised(replay.rows) \/ UNCHANGED <<stored, doubtful>>
  <2>1. Raised(replay.rows)
    BY <1>9 DEF Raised
  <2>2. /\ stored' \in [Rows -> Nat] /\ doubtful' \in [Rows -> Nat]
        /\ \A r \in Rows :
             /\ r \notin replay.rows => stored'[r] = stored[r] /\ doubtful'[r] = doubtful[r]
             /\ stored[r] <= doubtful[r] => stored'[r] <= doubtful'[r]
             /\ stored'[r] >= stored[r]
    BY <2>1, RaisedFacts DEF IInv
  <2>3. \A r \in replay.rows : stored'[r] <= 1 + doubtful'[r] /\ stored'[r] >= stored[r]
                                /\ stored'[r] <= doubtful'[r]
    BY <1>3, <2>2
  <2> QED
    BY <1>5, <1>6, <1>9, <2>2, <2>3
<1> QED
  BY <1>7, <1>8, <1>9 DEF ReplayInsert

\* The replay's removal of a file preserves the invariant.
LEMMA UnlinkInv == ASSUME IInv, ReplayUnlink PROVE IInv'
<1>1. /\ replay.step = "unlink" /\ replay' = NoReplay /\ replay'.step = "idle"
      /\ UNCHANGED <<adding, running, connected, pc, buffer, batch, trying, stored, second, dlqEnabled,
                     dropped, vanished>>
  BY DEF ReplayUnlink, memory, clock, NoReplay
<1>2. /\ Alive /\ replay.file \in Files /\ replay.rows \subseteq dlq[replay.file] /\ replay.rows \subseteq Rows
      /\ \A r \in replay.rows : stored[r] > 0 \/ r \in vanished
  BY <1>1 DEF IInv, ReplaySound, TypeOK, NoReplay
<1>3. FlusherSound' /\ ReplaySound' /\ Alive'
  BY <1>1, <1>2 DEF IInv, FlusherSound, ReplaySound, Alive
<1>4. CASE /\ dlq' = [dlq EXCEPT ![replay.file] = {}]
           /\ clobbered' = clobbered \cup (dlq[replay.file] \ replay.rows) /\ UNCHANGED doubtful
  <2>1. /\ dlq \in [Files -> SUBSET Rows]
        /\ \A d \in Files : dlq'[d] = IF d = replay.file THEN {} ELSE dlq[d]
    BY <1>2, <1>4 DEF IInv, TypeOK
  <2>2. TypeOK'
    BY <1>1, <1>2, <1>4, <2>1 DEF IInv, TypeOK
  <2>3. ASSUME NEW r \in dlq[replay.file] PROVE RowSound(r)'
    <3>1. r \in Rows /\ RowSound(r) /\ OnDisk(r)
      BY <1>2, <2>1 DEF IInv, OnDisk
    <3>2. ~InMemory(r) /\ adding[r] = "added" /\ \A d \in Files : r \in dlq[d] => d = replay.file
      BY <1>2, <3>1 DEF RowSound
    <3>3. ~InMemory(r)' /\ ~OnDisk(r)' /\ adding'[r] = "added"
      BY <1>1, <2>1, <3>2 DEF InMemory, OnDisk
    <3>4. stored'[r] > 0 \/ GivenUp(r)'
      BY <1>1, <1>2, <1>4 DEF GivenUp
    <3> QED
      BY <1>1, <1>4, <3>1, <3>3, <3>4 DEF RowSound, InMemory, OnDisk
  <2>4. ASSUME NEW r \in Rows, r \notin dlq[replay.file] PROVE RowSound(r)'
    <3>1. \A d \in Files : r \in dlq'[d] <=> r \in dlq[d]
      BY <2>1, <2>4
    <3>2. ~Replayed(r)
      BY <1>2, <2>4 DEF Replayed
    <3> QED
      BY <1>1, <1>2, <1>4, <3>1, <3>2, RowKept DEF IInv, GivenUp
  <2> QED
    BY <1>3, <2>2, <2>3, <2>4 DEF IInv
<1>5. CASE doubtful' = Again(doubtful, replay.rows) /\ UNCHANGED <<dlq, clobbered>>
  <2>1. /\ doubtful' \in [Rows -> Nat]
        /\ \A r \in Rows : doubtful'[r] = IF r \in replay.rows THEN doubtful[r] + 1 ELSE doubtful[r]
    BY <1>5, AgainFacts DEF IInv, TypeOK
  <2>2. TypeOK'
    BY <1>1, <1>5, <2>1 DEF IInv, TypeOK
  <2>3. ASSUME NEW r \in replay.rows PROVE RowSound(r)'
    <3>1. r \in Rows /\ RowSound(r) /\ doubtful'[r] = doubtful[r] + 1 /\ doubtful[r] \in Nat
          /\ stored[r] \in Nat
      BY <1>2, <2>1 DEF IInv, TypeOK
    <3>2. UNCHANGED <<InMemory(r), OnDisk(r), adding[r], stored[r], GivenUp(r)>>
      BY <1>1, <1>5 DEF InMemory, OnDisk, GivenUp
    <3>3. stored'[r] <= doubtful'[r]
      BY <3>1, <3>2 DEF RowSound
    <3> QED
      BY <1>1, <1>5, <3>1, <3>2, <3>3 DEF RowSound
  <2>4. ASSUME NEW r \in Rows \ replay.rows PROVE RowSound(r)'
    <3>1. ~Replayed(r)
      BY DEF Replayed
    <3> QED
      BY <1>1, <1>2, <1>5, <2>1, <3>1, RowKept DEF IInv, GivenUp
  <2> QED
    BY <1>3, <2>2, <2>3, <2>4 DEF IInv
<1> QED
  BY <1>4, <1>5 DEF ReplayUnlink

-----------------------------------------------------------------------------
\* Every step preserves the invariant.
LEMMA StepInv == IInv /\ [Next]_vars => IInv'
<1> SUFFICES ASSUME IInv, [Next]_vars PROVE IInv'
  OBVIOUS
<1>1. CASE WorkerWakes
  <2>1. CASE Snapshot("worker") /\ Goto("worker", "flush")
    BY <1>1, <2>1, SnapshotInv DEF WorkerWakes, Flushers
  <2>2. CASE /\ Goto("worker", "left")
             /\ UNCHANGED <<adding, running, connected, memory, stored, dlq, clock, replay, doubtful, losses>>
    <3>1. running' \in BOOLEAN /\ connected' \in BOOLEAN
      BY <2>2 DEF IInv, TypeOK
    <3> QED
      BY <2>2, <3>1, MoveInv DEF Flushers, memory, clock, losses
  <2> QED
    BY <1>1, <2>1, <2>2 DEF WorkerWakes
<1>2. CASE StopBatcher
  <2>1. /\ pc["closer"] = "open" /\ running' = FALSE /\ Goto("closer", "join")
        /\ UNCHANGED <<adding, connected, buffer, batch, trying, stored, dlq, second, dlqEnabled,
                       replay, doubtful, dropped, clobbered, vanished>>
    BY <1>2 DEF StopBatcher, memory, clock, losses
  <2>2. batch["closer"] = {} /\ (trying["closer"] = NotTrying \/ trying["closer"].failed < MaxRetries)
    BY <2>1 DEF IInv, FlusherSound, Flushers
  <2>3. running' \in BOOLEAN /\ connected' \in BOOLEAN
    BY <2>1 DEF IInv, TypeOK
  <2> QED
    BY <2>1, <2>2, <2>3, MoveInv DEF Flushers
<1>3. CASE FlushAll
  BY <1>3, SnapshotInv DEF FlushAll, Flushers
<1>4. CASE Disconnect
  <2>1. /\ pc["closer"] = "disconnect" /\ connected' = FALSE /\ Goto("closer", "closed")
        /\ UNCHANGED <<adding, running, buffer, batch, trying, stored, dlq, second, dlqEnabled,
                       replay, doubtful, dropped, clobbered, vanished>>
    BY <1>4 DEF Disconnect, memory, clock, losses
  <2>2. running' \in BOOLEAN /\ connected' \in BOOLEAN
    BY <2>1 DEF IInv, TypeOK
  <2> QED
    BY <2>1, <2>2, MoveInv DEF Flushers
<1>5. CASE UNCHANGED vars
  <2>1. UNCHANGED <<adding, running, connected, pc, buffer, batch, trying, stored, dlq, second, dlqEnabled,
                    replay, doubtful, dropped, clobbered, vanished>>
    BY <1>5 DEF vars, memory, clock, losses
  <2>2. TypeOK' /\ FlusherSound' /\ ReplaySound'
    BY <2>1 DEF IInv, TypeOK, FlusherSound, ReplaySound, Alive
  <2>3. ASSUME NEW r \in Rows PROVE RowSound(r)'
    BY <2>1, RowKept DEF IInv, Alive, Replayed, GivenUp
  <2> QED
    BY <2>2, <2>3 DEF IInv
<1> QED
  BY <1>1, <1>2, <1>3, <1>4, <1>5, CheckInv, AddInv, FlushInv, ExitInv, TickInv, ReadInv, InsertInv,
     UnlinkInv DEF Next, Replay

\* The invariant the theorems below follow from: where each row that add_many took is.
THEOREM Inductive == Spec => []IInv
BY InitInv, StepInv, PTL DEF Spec

\* Type correctness.
THEOREM TypeCorrect == Spec => []TypeOK
<1>1. IInv => TypeOK
  BY DEF IInv
<1> QED
  BY <1>1, Inductive, PTL

\* No row that add_many took goes missing, whoever flushes, closes and replays at the time
\* (ClickHouseBatcher._flush_snapshot, _flush_all, replay_dlq).
THEOREM NoRowGoesMissing == Spec => []RowsAccounted
<1>1. IInv => RowsAccounted
  BY DEF IInv, RowSound, RowsAccounted
<1> QED
  BY <1>1, Inductive, PTL

\* A row is inserted once, apart from the repetitions an insert of unknown outcome or a file
\* that could not be removed calls for.
THEOREM NoRowTwice == Spec => []InsertedOnce
<1>1. IInv => InsertedOnce
  BY DEF IInv, RowSound, InsertedOnce
<1> QED
  BY <1>1, Inductive, PTL
=============================================================================
