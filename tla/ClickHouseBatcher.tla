-------------------------- MODULE ClickHouseBatcher --------------------------
(***************************************************************************)
(* The micro-batching buffer between the server and ClickHouse             *)
(* (server/storage/clickhouse_batcher.py) with the parts of                *)
(* clickhouse_storage.py that feed it, insert for it and close it.         *)
(*                                                                         *)
(* Request and ML threads check is_connected and add rows.  The background *)
(* worker takes everything buffered under the lock and inserts it table by *)
(* table outside the lock, retrying and finally spooling to a dead-letter  *)
(* file.  A closing thread stops the worker, waits for it at most 10 s,    *)
(* flushes what is left itself and drops the client.  An operator may      *)
(* replay the dead-letter files at any time.                               *)
(***************************************************************************)
EXTENDS Naturals, FiniteSets

CONSTANTS
  Rows,         \* the rows the server produces
  Tables,       \* the tables of ClickHouse
  TableOf,      \* the table of each row
  OneWord,      \* the tables with no underscore in their name
  MaxRetries,   \* insert attempts per batch
  MaxSeconds,   \* bound: the seconds that can be told apart in file names
  MaxDoubtful   \* bound: inserts that raise although ClickHouse applied them

ASSUME BatcherAssumption ==
  /\ IsFiniteSet(Rows)
  /\ TableOf \in [Rows -> Tables]
  /\ OneWord \subseteq Tables
  /\ MaxRetries \in Nat \ {0} /\ MaxSeconds \in Nat /\ MaxDoubtful \in Nat

Flushers == {"worker", "closer"}
Files == [table : Tables, second : 0 .. MaxSeconds]
NoFile == [table |-> "none", second |-> 0]

VARIABLES
  adding,     \* where the thread that produces each row is
  buffer,     \* the rows in the per-table buffers
  running,    \* _running
  connected,  \* is_connected()
  pc,         \* what each flushing thread does next
  batch,      \* the rows of its snapshot each flushing thread has still to place
  trying,     \* the failed attempts of its current insert: a table and a number
  stored,     \* how many copies of each row ClickHouse has in its table
  dlq,        \* the rows in each dead-letter file
  second,     \* int(time.time())
  dlqEnabled, \* dlq_enabled, read from the configuration once
  replay,     \* what the operator's replay_dlq does: a step, a file, the rows read
  doubtful,   \* history: how often an insert of each row may be repeated in good faith
  dropped,    \* history: the rows given up: the queue is disabled or the disk failed
  clobbered,  \* history: the rows that were in a file when a replay removed it unread
  vanished    \* history: the rows "inserted" without a client

memory == <<buffer, batch, trying>>
clock == <<second, dlqEnabled>>
losses == <<dropped, clobbered, vanished>>
vars == <<adding, running, connected, pc, memory, stored, dlq, clock, replay, doubtful, losses>>

NotTrying == [table |-> "none", failed |-> 0]
NoReplay == [step |-> "idle", file |-> NoFile, rows |-> {}]

Init ==
  /\ adding = [r \in Rows |-> "before"]
  /\ buffer = {}
  /\ running = TRUE /\ connected = TRUE
  /\ pc = [worker |-> "wait", closer |-> "open"]
  /\ batch = [f \in Flushers |-> {}]
  /\ trying = [f \in Flushers |-> NotTrying]
  /\ stored = [r \in Rows |-> 0]
  /\ dlq = [file \in Files |-> {}]
  /\ second = 0
  /\ dlqEnabled \in BOOLEAN
  /\ replay = NoReplay
  /\ doubtful = [r \in Rows |-> 0]
  /\ dropped = {} /\ clobbered = {} /\ vanished = {}

Goto(f, label) == pc' = [pc EXCEPT ![f] = label]

Alive == pc["closer"] # "exited"

-----------------------------------------------------------------------------
(* The threads that produce rows *)

CheckConnected(r) ==
  /\ Alive /\ adding[r] = "before"
  /\ adding' = [adding EXCEPT ![r] = IF connected THEN "checked" ELSE "skipped"]
  /\ UNCHANGED <<running, connected, pc, memory, stored, dlq, clock, replay, doubtful, losses>>

\* add_many looks at neither _running nor the client.
AddMany(r) ==
  /\ Alive /\ adding[r] = "checked"
  /\ adding' = [adding EXCEPT ![r] = "added"]
  /\ buffer' = buffer \cup {r}
  /\ UNCHANGED <<running, connected, pc, batch, trying, stored, dlq, clock, replay,
                 doubtful, losses>>

-----------------------------------------------------------------------------
(* Flushing: a snapshot under the lock, then one insert per table.            *)

\* Variant: the buffers are cleared after the lock was released and taken again.
Cleared_Later == buffer

\* The buffers after the lock is released.
Cleared == {}

Snapshot(f) ==
  /\ batch' = [batch EXCEPT ![f] = buffer]
  /\ buffer' = Cleared
  /\ UNCHANGED <<adding, running, connected, trying, stored, dlq, clock, replay, doubtful, losses>>

\* Variant: only a full buffer is flushed, the interval is forgotten.
ShouldFlush_FullOnly == Cardinality(buffer) > 1

\* A full buffer is flushed at once and any other when the interval is over.
ShouldFlush == buffer # {}

\* The worker wakes up on the interval or a full buffer, and leaves when stopped.
WorkerWakes ==
  /\ pc["worker"] = "wait"
  /\ \/ running /\ ShouldFlush /\ Snapshot("worker") /\ Goto("worker", "flush")
     \/ /\ ~running /\ Goto("worker", "left")
        /\ UNCHANGED <<adding, running, connected, memory, stored, dlq, clock, replay,
                       doubtful, losses>>

\* One more copy of, or one more reason to insert again, each of the rows.
Again(count, rows) == [r \in Rows |-> IF r \in rows THEN count[r] + 1 ELSE count[r]]

\* The insert raised, and ClickHouse may have applied it all the same.
Raised(rows) ==
  \/ UNCHANGED <<stored, doubtful>>
  \/ /\ connected /\ \A r \in rows : doubtful[r] < MaxDoubtful
     /\ stored' = Again(stored, rows)
     /\ doubtful' = Again(doubtful, rows)

Placed(f, rows) == batch' = [batch EXCEPT ![f] = @ \ rows]

\* The failures of this batch, the present one included.
Failures(f) == IF trying[f] = NotTrying THEN 1 ELSE trying[f].failed + 1

\* Variant: range(1, max_retries + 2).
RetriesLeft_OffByOne(failed) == failed <= MaxRetries

RetriesLeft(failed) == failed < MaxRetries

Attempt(f, table) ==
  LET rows == {r \in batch[f] : TableOf[r] = table}
      failed == Failures(f)
      stays == trying' = [trying EXCEPT ![f] = [table |-> table, failed |-> failed]]
      done == Placed(f, rows) /\ trying' = [trying EXCEPT ![f] = NotTrying]
  IN
  /\ pc[f] = "flush" /\ rows # {}
  /\ trying[f] = NotTrying \/ trying[f].table = table
  /\ \/ /\ connected  \* inserted
        /\ stored' = Again(stored, rows)
        /\ done
        /\ UNCHANGED <<pc, doubtful, dropped, vanished>>
     \/ \* _raw_batch_insert returns without an error when there is no client
        /\ ~connected
        /\ vanished' = vanished \cup rows
        /\ done
        /\ UNCHANGED <<pc, stored, doubtful, dropped>>
     \/ /\ Raised(rows)
        /\ \/ RetriesLeft(failed) /\ stays /\ UNCHANGED <<pc, batch, dropped>>
           \/ /\ ~RetriesLeft(failed) /\ dlqEnabled
              /\ stays
              /\ Goto(f, "spool")
              /\ UNCHANGED <<batch, dropped>>
           \/ /\ ~RetriesLeft(failed) /\ ~dlqEnabled
              /\ done
              /\ dropped' = dropped \cup rows
              /\ UNCHANGED pc
        /\ UNCHANGED vanished
  /\ UNCHANGED <<adding, buffer, running, connected, dlq, clock, replay, clobbered>>

\* Variant: the file is opened with "w" instead of "a".
Spooled_Overwrite(file, rows) == [dlq EXCEPT ![file] = rows]

Spooled(file, rows) == [dlq EXCEPT ![file] = @ \cup rows]

\* Append to the file of this table and second; a disk failure loses what it did
\* not write yet.
Spool(f) ==
  LET table == trying[f].table
      rows == {r \in batch[f] : TableOf[r] = table}
  IN
  /\ pc[f] = "spool"
  /\ \E written \in SUBSET rows :
       /\ dlq' = Spooled([table |-> table, second |-> second], written)
       /\ dropped' = dropped \cup (rows \ written)
  /\ Placed(f, rows)
  /\ trying' = [trying EXCEPT ![f] = NotTrying]
  /\ Goto(f, "flush")
  /\ UNCHANGED <<adding, buffer, running, connected, stored, clock, replay, doubtful,
                 clobbered, vanished>>

FlushEnds(f) ==
  /\ pc[f] = "flush" /\ batch[f] = {}
  /\ Goto(f, IF f = "worker" THEN "wait" ELSE "disconnect")
  /\ UNCHANGED <<adding, running, connected, memory, stored, dlq, clock, replay, doubtful, losses>>

Flush(f) == (\E table \in Tables : Attempt(f, table)) \/ Spool(f) \/ FlushEnds(f)

-----------------------------------------------------------------------------
(* ClickHouseStorage.close and the end of the process *)

StopBatcher ==
  /\ pc["closer"] = "open"
  /\ running' = FALSE
  /\ Goto("closer", "join")
  /\ UNCHANGED <<adding, connected, memory, stored, dlq, clock, replay, doubtful, losses>>

\* The worker has left, or the join timed out while it still flushes.
FlushAll ==
  /\ pc["closer"] = "join"
  /\ Snapshot("closer")
  /\ Goto("closer", "flush")

Disconnect ==
  /\ pc["closer"] = "disconnect"
  /\ connected' = FALSE
  /\ Goto("closer", "closed")
  /\ UNCHANGED <<adding, running, memory, stored, dlq, clock, replay, doubtful, losses>>

\* The process exits and takes the daemon threads with it.
Exit ==
  /\ pc["closer"] = "closed"
  /\ pc' = [worker |-> "left", closer |-> "exited"]
  /\ replay' = NoReplay
  /\ UNCHANGED <<adding, running, connected, memory, stored, dlq, clock, doubtful, losses>>

Tick ==
  /\ Alive /\ second < MaxSeconds
  /\ second' = second + 1
  /\ UNCHANGED <<dlqEnabled, adding, running, connected, pc, memory, stored, dlq, replay, doubtful, losses>>

-----------------------------------------------------------------------------
(* replay_dlq: read a file, insert its rows, remove the file.                 *)

\* The second word of the file name, which names no table when the table has two.
Target(file) == IF file.table \in OneWord THEN file.table ELSE "none"

ReplayRead(file) ==
  /\ Alive /\ replay.step = "idle" /\ dlq[file] # {}
  /\ replay' = [step |-> "insert", file |-> file, rows |-> dlq[file]]
  /\ UNCHANGED <<adding, running, connected, pc, memory, stored, dlq, clock, doubtful, losses>>

\* An error, as for an unknown table, ends the replay of this file.
ReplayInsert ==
  LET known == Target(replay.file) \in Tables IN
  /\ replay.step = "insert"
  /\ \/ /\ connected /\ known
        /\ stored' = Again(stored, replay.rows)
        /\ replay' = [replay EXCEPT !.step = "unlink"]
        /\ UNCHANGED <<doubtful, vanished>>
     \/ /\ ~connected
        /\ vanished' = vanished \cup replay.rows
        /\ replay' = [replay EXCEPT !.step = "unlink"]
        /\ UNCHANGED <<stored, doubtful>>
     \/ /\ replay' = NoReplay
        /\ IF known THEN Raised(replay.rows) ELSE UNCHANGED <<stored, doubtful>>
        /\ UNCHANGED vanished
  /\ UNCHANGED <<adding, running, connected, pc, memory, dlq, clock, dropped, clobbered>>

\* Remove the file, or fail to and leave its rows to be inserted again.
ReplayUnlink ==
  /\ replay.step = "unlink"
  /\ replay' = NoReplay
  /\ \/ /\ dlq' = [dlq EXCEPT ![replay.file] = {}]
        /\ clobbered' = clobbered \cup (dlq[replay.file] \ replay.rows)
        /\ UNCHANGED doubtful
     \/ /\ \A r \in replay.rows : doubtful[r] < MaxDoubtful
        /\ doubtful' = Again(doubtful, replay.rows)
        /\ UNCHANGED <<dlq, clobbered>>
  /\ UNCHANGED <<adding, running, connected, pc, memory, stored, clock, dropped, vanished>>

Replay == (\E file \in Files : ReplayRead(file)) \/ ReplayInsert \/ ReplayUnlink

-----------------------------------------------------------------------------
Next ==
  \/ \E r \in Rows : CheckConnected(r) \/ AddMany(r)
  \/ WorkerWakes
  \/ \E f \in Flushers : Flush(f)
  \/ StopBatcher \/ FlushAll \/ Disconnect \/ Exit \/ Tick
  \/ Replay

Spec == Init /\ [][Next]_vars

\* The two threads of the batcher are scheduled; the join of stop() ends.  Nothing
\* makes the server shut down, a row appear or an operator replay.
FairSpec ==
  /\ Spec
  /\ WF_vars(WorkerWakes) /\ WF_vars(Flush("worker"))
  /\ WF_vars(FlushAll) /\ WF_vars(Flush("closer")) /\ WF_vars(Disconnect)

-----------------------------------------------------------------------------
(* Properties *)

TypeOK ==
  /\ adding \in [Rows -> {"before", "checked", "skipped", "added"}]
  /\ buffer \subseteq Rows
  /\ running \in BOOLEAN /\ connected \in BOOLEAN
  /\ pc \in [worker : {"wait", "flush", "spool", "left"},
            closer : {"open", "join", "flush", "spool", "disconnect", "closed", "exited"}]
  /\ batch \in [Flushers -> SUBSET Rows]
  /\ trying \in [Flushers -> {NotTrying} \cup [table : Tables, failed : 1 .. MaxRetries]]
  /\ stored \in [Rows -> Nat] /\ doubtful \in [Rows -> Nat]
  /\ dlq \in [Files -> SUBSET Rows]
  /\ second \in 0 .. MaxSeconds
  /\ dlqEnabled \in BOOLEAN
  /\ replay \in {NoReplay} \cup [step : {"insert", "unlink"}, file : Files, rows : SUBSET Rows]
  /\ dropped \subseteq Rows /\ clobbered \subseteq Rows /\ vanished \subseteq Rows

InMemory(r) == r \in buffer \/ \E f \in Flushers : r \in batch[f]
OnDisk(r) == \E file \in Files : r \in dlq[file]
GivenUp(r) == r \in dropped \cup clobbered \cup vanished

\* Between a producer, two flushing threads and a replay, no row that add_many took
\* ever goes missing: it is in memory, in ClickHouse, in a dead-letter file, or it
\* was lost in one of the three ways the code has of losing a row.
RowsAccounted ==
  \A r \in Rows : adding[r] = "added" =>
    InMemory(r) \/ stored[r] > 0 \/ OnDisk(r) \/ GivenUp(r)

\* The two flushing threads and the replay insert a row once, apart from the
\* repetitions an insert that raised after it was applied, or a file that could not
\* be removed, calls for.
InsertedOnce == \A r \in Rows : stored[r] <= 1 + doubtful[r]

\* A row buffered while the batcher runs leaves memory for ClickHouse, the disk or
\* a logged loss, however the inserts fail and whether or not the server stops
\* meanwhile, unless the exit of the process is first.
EventuallyFlushed ==
  \A r \in Rows : (r \in buffer /\ running) ~> (~InMemory(r) \/ ~Alive)

=============================================================================
