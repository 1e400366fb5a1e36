---------------------------- MODULE HybridStore ----------------------------
(***************************************************************************)
(* What is read back of what was written, when PostgreSQL and ClickHouse   *)
(* hold it between them: the repositories that choose a database for every *)
(* write and every read, the queries behind the REST interface, the paged  *)
(* export, the weekly retention job and the script that copies PostgreSQL  *)
(* into ClickHouse.  Each replica decided once, when it started, whether   *)
(* ClickHouse is there.  What a batcher does with a row between its buffer *)
(* and the table is ClickHouseBatcher's matter: here it is flushed or      *)
(* spooled.  Times are weeks, the grain of partitions and retention.       *)
(***************************************************************************)
EXTENDS Integers, Sequences, FiniteSetsExt

CONSTANTS
  Replicas,     \* replicas of the server
  Links,        \* what they may have found when they started, [Replicas -> BOOLEAN]
  Payloads,     \* telemetry payloads, each stored and analysed once
  Week,         \* the week a payload was collected in, [Payloads -> Nat]
  Owner,        \* the user it is about
  Level,        \* the risk level analysis gives it, in 0..3
  Tampered,     \* the payloads with a tamper or critical collector result
  Ahead,        \* weeks the retention job creates partitions for (weeks_ahead)
  Keep,         \* payload_retention_days, in weeks
  KeepFeatures, \* feature_retention_days, in weeks
  MaxWeek,      \* bound of the clock
  PageSize,     \* CHUNK_BATCH_SIZE of the export, batch_size of the script
  ExportLimit,  \* the limit of an export
  DashLimit,    \* the 50 risk events the dashboard asks for
  MaxJobs,      \* bound of runs of the script and exports together
  MaxFaults     \* bound of failed inserts and queries

ASSUME StoreAssumption ==
  /\ {PageSize, ExportLimit, DashLimit, MaxWeek} \subseteq Nat \ {0}
  /\ {Ahead, Keep, KeepFeatures, MaxJobs, MaxFaults} \subseteq Nat
  /\ Week \in [Payloads -> Nat] /\ Level \in [Payloads -> 0 .. 3]
  /\ Replicas \intersect {"none", "refused"} = {}
  /\ Tampered \subseteq Payloads
  /\ Links \subseteq [Replicas -> BOOLEAN]

VARIABLES
  link,     \* link[r]: ClickHouseStorage.is_connected of the replica
  pg, ch,   \* the tables of the two databases, sets of rows
  buf,      \* buf[r]: what the batcher of the replica holds, <<table, row>>
  spooled,  \* rows in a dead-letter file
  week,     \* the clock
  parts,    \* the weeks the partitioned tables of PostgreSQL have a partition for
  stored,   \* history: which replica stored a payload, "none" before, "refused"
            \* when its insert raised
  judged,   \* history: payloads whose verdict was saved without an error
  script,   \* the copying script
  export,   \* one export of the risk events or of the logs
  faults

vars == <<link, pg, ch, buf, spooled, week, parts, stored, judged, script, export, faults>>

Tables == {"raw_payloads", "collector_results", "normalized_features", "risk_events"}
Copied == <<"raw_payloads", "collector_results", "risk_events">>

\* by: the row was written with the payload or by its analysis;
\* copy: 0, or the run of the script that wrote it
Row == [payload: Payloads, by: {"store", "analysis"}, copy: 0 .. MaxJobs]
Live(p, by) == [payload |-> p, by |-> by, copy |-> 0]
At(row) == Week[row.payload]
Score(row) == IF row.by = "store" THEN 3 ELSE Level[row.payload]
Smaller(a, b) == IF a < b THEN a ELSE b

\* The script: the run and the table it is at, what its cursor has still to fetch,
\* and what the cursors of this run saw, <<table, row>>
NoScript == [state |-> "idle", run |-> 0, table |-> 1, todo |-> {}, seen |-> {}]

\* The export: what it lists, the rows in the file and how many were written, the
\* rows listed from its start to its last page, and whether a page came from
\* elsewhere or not at all
NoExport == [state |-> "idle", replica |-> "none", table |-> "none", source |-> "none",
             out |-> {}, count |-> 0, kept |-> {}, spoiled |-> FALSE]

Init ==
  /\ link \in Links
  /\ pg = [t \in Tables |-> {}] /\ ch = pg
  /\ buf = [r \in Replicas |-> {}] /\ spooled = {}
  /\ week = 1 /\ parts = 1 .. 1 + Ahead
  /\ stored = [p \in Payloads |-> "none"] /\ judged = {}
  /\ script = NoScript /\ export = NoExport
  /\ faults = 0

----------------------------------------------------------------------------
(* Writing                                                                 *)

\* The rows of a payload: itself, its collector results, its features, and a
\* risk event of its own for a tamper alert
RowsOf(p) ==
  {<<t, Live(p, "store")>> : t \in Tables \ {"risk_events"}}
    \union {<<"risk_events", Live(q, "store")>> : q \in {p} \cap Tampered}

Added(db, rows) == [t \in Tables |-> db[t] \union {x[2] : x \in {y \in rows : y[1] = t}}]

\* A connected replica queues the rows and writes nothing to PostgreSQL
StoreInClickHouse(r, p) ==
  /\ link[r]
  /\ buf' = [buf EXCEPT ![r] = @ \union RowsOf(p)]
  /\ stored' = [stored EXCEPT ![p] = r]
  /\ UNCHANGED pg

\* A partition takes a row; there is one for all that is older than the first week
Takes(w) == w \in parts \/ w = 0

\* Another replica writes them in one transaction, which raises when no partition
\* takes the row; the caller logs the error and drops the payload
StoreInPostgres(r, p) ==
  /\ ~link[r]
  /\ IF Takes(Week[p])
       THEN /\ pg' = Added(pg, RowsOf(p))
            /\ stored' = [stored EXCEPT ![p] = r]
       ELSE /\ stored' = [stored EXCEPT ![p] = "refused"]
            /\ UNCHANGED pg
  /\ UNCHANGED buf

StorePayload(r, p) ==
  /\ stored[p] = "none" /\ Week[p] <= week
  /\ StoreInClickHouse(r, p) \/ StoreInPostgres(r, p)
  /\ UNCHANGED <<link, ch, spooled, week, parts, judged, script, export, faults>>

\* Variant: a verdict goes to one database, like the payloads
SaveRiskEvent_One(r, p) ==
  LET row == <<"risk_events", Live(p, "analysis")>> IN
  /\ stored[p] # "none" /\ p \notin judged
  /\ buf' = IF link[r] THEN [buf EXCEPT ![r] = @ \union {row}] ELSE buf
  /\ pg' = IF link[r] THEN pg ELSE Added(pg, {row})
  /\ judged' = judged \union {p}
  /\ UNCHANGED <<link, ch, spooled, week, parts, stored, script, export, faults>>

\* A connected replica queues a verdict for ClickHouse
QueueVerdict(r, row) ==
  buf' = IF link[r] THEN [buf EXCEPT ![r] = @ \union {row}] ELSE buf

\* PostgreSQL gets it always; that insert may raise after the row was queued
InsertVerdict(p, row) ==
  \/ /\ pg' = Added(pg, {row})
     /\ judged' = judged \union {p}
     /\ UNCHANGED faults
  \/ /\ faults < MaxFaults /\ faults' = faults + 1
     /\ UNCHANGED <<pg, judged>>

SaveRiskEvent(r, p) ==
  LET row == <<"risk_events", Live(p, "analysis")>> IN
  /\ stored[p] # "none" /\ p \notin judged
  /\ QueueVerdict(r, row) /\ InsertVerdict(p, row)
  /\ UNCHANGED <<link, ch, spooled, week, parts, stored, script, export>>

\* The batcher writes table by table; a table whose insert keeps failing is spooled
Flush(r) ==
  /\ buf[r] # {}
  /\ \E failing \in {{}} \union {{t} : t \in Tables} :
       LET lost == {x \in buf[r] : x[1] \in failing} IN
       /\ faults + Cardinality(failing) <= MaxFaults
       /\ faults' = faults + Cardinality(failing)
       /\ ch' = Added(ch, buf[r] \ lost)
       /\ spooled' = spooled \union lost
  /\ buf' = [buf EXCEPT ![r] = {}]
  /\ UNCHANGED <<link, pg, week, parts, stored, judged, script, export>>

----------------------------------------------------------------------------
(* Time and retention                                                      *)

NextWeek ==
  /\ week < MaxWeek /\ week' = week + 1
  /\ UNCHANGED <<link, pg, ch, buf, spooled, parts, stored, judged, script, export, faults>>

\* Variant: a partition goes as soon as its first day is before the cutoff
Droppable_TooSoon == {w \in parts : w < week - Keep}

\* A partition goes when all of its week lies before the cutoff
Droppable == {w \in parts : w + 1 < week - Keep}
NewPartitions == week .. week + Ahead
Fresh(rows, keep) == {row \in rows : At(row) >= week - keep}

\* One transaction: old partitions, new partitions, then the tables without them.
\* The partition of the oldest rows has no date in its name and is never dropped.
Retention ==
  LET gone == Droppable
      outside(t) == {row \in pg[t] : At(row) \notin gone}
  IN /\ parts' = (parts \ gone) \union NewPartitions
     /\ pg' = [raw_payloads |-> outside("raw_payloads"),
               collector_results |-> outside("collector_results"),
               risk_events |-> Fresh(pg["risk_events"], Keep),
               normalized_features |-> Fresh(pg["normalized_features"], KeepFeatures)]
     /\ <<parts', pg'>> # <<parts, pg>>
     /\ UNCHANGED <<link, ch, buf, spooled, week, stored, judged, script, export, faults>>

----------------------------------------------------------------------------
(* Reading                                                                 *)

\* The logs come from one database, whatever it holds
ChLogs == ch["raw_payloads"]
PgLogs == pg["raw_payloads"]
ListLogs(r) == IF link[r] THEN ChLogs ELSE PgLogs

\* PostgreSQL lists a collector result once with every risk event of its payload,
\* and once when there is none
PgResults == pg["collector_results"]
ChResults == ch["collector_results"]
ListResults(r) == IF link[r] THEN ChResults ELSE PgResults

\* The risk events come from ClickHouse unless it has none
ChRisks == ch["risk_events"]
PgRisks == pg["risk_events"]
ListRisks(r) == IF link[r] /\ ChRisks # {} THEN ChRisks ELSE PgRisks

OfUser(rows, u) == {row \in rows : Owner[row.payload] = u}
ChUserRisks(u) == OfUser(ChRisks, u)
PgUserRisks(u) == OfUser(PgRisks, u)
UserRisks(r, u) == IF link[r] /\ ChUserRisks(u) # {} THEN ChUserRisks(u) ELSE PgUserRisks(u)

ChFeatures(p) == {row \in ch["normalized_features"] : row.payload = p}
PgFeatures(p) == {row \in pg["normalized_features"] : row.payload = p}
FeatureVector(r, p) == IF link[r] /\ ChFeatures(p) # {} THEN ChFeatures(p) ELSE PgFeatures(p)

\* Counts of PostgreSQL, replaced by those of ClickHouse that are positive
ChCount(t) == Cardinality(ch[t])
PgCount(t) == Cardinality(pg[t])
Stats(r, t) == IF link[r] /\ ChCount(t) > 0 THEN ChCount(t) ELSE PgCount(t)

\* What the models remember comes from PostgreSQL on every replica: the features of
\* the user's days, the recent scores of payloads PostgreSQL has, and the worst score
DailyVectors(u) == OfUser(pg["normalized_features"], u)
RecentScores(u) ==
  {e \in PgUserRisks(u) : \E row \in PgLogs : row.payload = e.payload}
MaxRecent(u) == Max({Score(e) : e \in {x \in PgUserRisks(u) : At(x) = week}} \union {0})

\* Variant: oldest first
Heads_Ascending(n, rows) ==
  {h \in kSubset(Smaller(n, Cardinality(rows)), rows) :
     \A x \in h, y \in rows \ h : At(x) <= At(y)}

\* ORDER BY time DESC LIMIT n OFFSET o: what such a query may return
Heads(n, rows) ==
  {h \in kSubset(Smaller(n, Cardinality(rows)), rows) :
     \A x \in h, y \in rows \ h : At(x) >= At(y)}
Pages(rows, offset, n) == UNION {Heads(n, rows \ before) : before \in Heads(offset, rows)}

\* The level the dashboard may count a user under: that of the newest event of the
\* user among the newest events of all, LOW when there is none
DashboardLevels(r, u) ==
  UNION {LET mine == OfUser(h, u) IN
         IF mine = {} THEN {0}
         ELSE {Score(e) : e \in {x \in mine : \A y \in mine : At(x) >= At(y)}} :
         h \in Heads(DashLimit, ListRisks(r))}

----------------------------------------------------------------------------
(* The paged export                                                        *)

\* The database the first page of the listing comes from
Source(r, t) == IF link[r] /\ (t = "risk_events" => ChRisks # {}) THEN "ch" ELSE "pg"
Table(source, t) == IF source = "ch" THEN ch[t] ELSE pg[t]

JobLeft == script.run + (IF export.state = "idle" THEN 0 ELSE 1) < MaxJobs

ExportStart(r, t) ==
  /\ export.state = "idle" /\ JobLeft
  /\ export' = [NoExport EXCEPT !.state = "running", !.replica = r, !.table = t,
                  !.source = Source(r, t), !.kept = Table(Source(r, t), t)]
  /\ UNCHANGED <<link, pg, ch, buf, spooled, week, parts, stored, judged, script, faults>>

ExportLogs(r) == ExportStart(r, "raw_payloads")
ExportThreats(r) == ExportStart(r, "risk_events")

\* The database a page comes from: risk events beyond those of ClickHouse are asked of
\* PostgreSQL, at the same offset
PageSource(r, t, offset) ==
  IF link[r] /\ (t = "risk_events" => Cardinality(ChRisks) > offset) THEN "ch" ELSE "pg"

\* A short page ends the export, and so does the limit
Ends(size, n, total) == size < n \/ total >= ExportLimit

\* The rows of kept the file lacks, but for those of the same time as another row, which
\* the query leaves in any order
Missing(kept, out) ==
  {row \in kept \ out : \A other \in (kept \union out) \ {row} : At(other) # At(row)}

\* The logs of PostgreSQL that are never dropped move to a smaller offset, and may be
\* skipped, when a newer partition goes with rows the file has already
Overtaken(row, out) ==
  /\ export.source = "pg" /\ export.table = "raw_payloads"
  /\ At(row) = 0 /\ ~ (out \subseteq PgLogs)

\* A page is appended to the file; kept loses what has left the listing meanwhile. At the
\* end only what is missing is remembered.
Paged(page, n, spoiled) ==
  LET total == export.count + Cardinality(page)
      out == export.out \union page
      kept == export.kept \intersect Table(export.source, export.table)
  IN export' =
       IF ~Ends(Cardinality(page), n, total)
         THEN [export EXCEPT !.out = out, !.count = total, !.kept = kept,
                             !.spoiled = @ \/ spoiled]
         ELSE [NoExport EXCEPT !.state = "done", !.spoiled = export.spoiled \/ spoiled,
                 !.count = total,
                 !.kept = {row \in Missing(kept, out) : ~Overtaken(row, out)}]

ExportPage ==
  LET n == Smaller(PageSize, ExportLimit - export.count)
      from == PageSource(export.replica, export.table, export.count)
  IN /\ export.state = "running"
     /\ \E page \in Pages(Table(from, export.table), export.count, n) :
          Paged(page, n, export.source = "pg" /\ from = "ch")
     /\ UNCHANGED <<link, pg, ch, buf, spooled, week, parts, stored, judged, script, faults>>

\* A query that fails counts as an empty page: the risk events go on in PostgreSQL, and
\* otherwise the file ends there as if it were complete; only the logs of PostgreSQL
\* break the response off
ExportQueryFails ==
  LET n == Smaller(PageSize, ExportLimit - export.count)
      fromCh == PageSource(export.replica, export.table, export.count) = "ch"
  IN /\ export.state = "running" /\ faults < MaxFaults /\ faults' = faults + 1
     /\ IF fromCh /\ export.table = "risk_events"
          THEN \E page \in Pages(PgRisks, export.count, n) : Paged(page, n, TRUE)
          ELSE export' = [NoExport EXCEPT !.spoiled = TRUE,
                 !.state = IF fromCh \/ export.table = "risk_events" THEN "done" ELSE "broken"]
     /\ UNCHANGED <<link, pg, ch, buf, spooled, week, parts, stored, judged, script>>

----------------------------------------------------------------------------
(* The script that copies PostgreSQL into ClickHouse                       *)

ScriptStart ==
  /\ script.state \in {"idle", "done", "failed"} /\ JobLeft
  /\ script' = [NoScript EXCEPT !.state = "open", !.run = script.run + 1]
  /\ UNCHANGED <<link, pg, ch, buf, spooled, week, parts, stored, judged, export, faults>>

\* raw_payloads replaces a row with the same key, the other tables keep both
Copy(t, row) == IF t = "raw_payloads" THEN row ELSE [row EXCEPT !.copy = script.run]

Uncopied(seen) == {x \in seen : Copy(x[1], x[2]) \notin ch[x[1]]}

\* Variant: one table too many
NextTable_OneMore(s) ==
  IF s.table <= Len(Copied)
    THEN [s EXCEPT !.state = "open", !.table = @ + 1]
    ELSE [NoScript EXCEPT !.state = "done", !.run = s.run, !.seen = Uncopied(s.seen)]

\* At the end only what is not in ClickHouse is remembered
NextTable(s) ==
  IF s.table < Len(Copied)
    THEN [s EXCEPT !.state = "open", !.table = @ + 1]
    ELSE [NoScript EXCEPT !.state = "done", !.run = s.run, !.seen = Uncopied(s.seen)]

\* A cursor sees the table as it is now; a query that fails is a table of no rows
ScriptOpen ==
  LET t == Copied[script.table] IN
  /\ script.state = "open"
  /\ \/ /\ script' = [script EXCEPT !.state = "copy", !.todo = pg[t],
                        !.seen = @ \union {<<t, row>> : row \in pg[t]}]
        /\ UNCHANGED faults
     \/ /\ faults < MaxFaults /\ faults' = faults + 1
        /\ script' = NextTable(script)
  /\ UNCHANGED <<link, pg, ch, buf, spooled, week, parts, stored, judged, export>>

\* fetchmany and insert, batch by batch, the last and shorter one too; an insert that
\* fails ends the script
ScriptBatch ==
  LET t == Copied[script.table] IN
  /\ script.state = "copy" /\ script.todo # {}
  /\ \E batch \in kSubset(Smaller(PageSize, Cardinality(script.todo)), script.todo) :
       \/ /\ script' = [script EXCEPT !.todo = @ \ batch]
          /\ ch' = Added(ch, {<<t, Copy(t, row)>> : row \in batch})
          /\ UNCHANGED faults
       \/ /\ faults < MaxFaults /\ faults' = faults + 1
          /\ script' = [NoScript EXCEPT !.state = "failed", !.run = script.run]
          /\ UNCHANGED ch
  /\ UNCHANGED <<link, pg, buf, spooled, week, parts, stored, judged, export>>

\* Variant: one batch of a table and no more
ScriptTableDone_OneBatch ==
  /\ script.state = "copy"
  /\ script' = NextTable(script)
  /\ UNCHANGED <<link, pg, ch, buf, spooled, week, parts, stored, judged, export, faults>>

ScriptTableDone ==
  /\ script.state = "copy" /\ script.todo = {}
  /\ script' = NextTable(script)
  /\ UNCHANGED <<link, pg, ch, buf, spooled, week, parts, stored, judged, export, faults>>

----------------------------------------------------------------------------
Next ==
  \/ \E r \in Replicas : \/ \E p \in Payloads : StorePayload(r, p) \/ SaveRiskEvent(r, p)
                         \/ Flush(r)
                         \/ ExportLogs(r) \/ ExportThreats(r)
  \/ NextWeek \/ Retention
  \/ ExportPage \/ ExportQueryFails
  \/ ScriptStart \/ ScriptOpen \/ ScriptBatch \/ ScriptTableDone

Spec == Init /\ [][Next]_vars

----------------------------------------------------------------------------
(* Properties                                                              *)

Rows == [Tables -> SUBSET Row]

TypeOK ==
  /\ link \in [Replicas -> BOOLEAN]
  /\ pg \in Rows /\ ch \in Rows
  /\ buf \in [Replicas -> SUBSET (Tables \X Row)] /\ spooled \subseteq Tables \X Row
  /\ week \in 1 .. MaxWeek /\ parts \subseteq 1 .. MaxWeek + Ahead
  /\ stored \in [Payloads -> Replicas \union {"none", "refused"}] /\ judged \subseteq Payloads
  /\ script.state \in {"idle", "open", "copy", "done", "failed"} /\ script.run \in 0 .. MaxJobs
  /\ script.table \in DOMAIN Copied /\ script.todo \subseteq Row
  /\ export.state \in {"idle", "running", "done", "broken"} /\ export.count \in 0 .. ExportLimit
  /\ export.out \subseteq Row /\ export.kept \subseteq Row
  /\ faults \in 0 .. MaxFaults

\* A row that never got to where its writer sends it: it waits in a batcher, or is in a
\* dead-letter file
Elsewhere(t, row) == <<t, row>> \in spooled \/ \E r \in Replicas : <<t, row>> \in buf[r]

\* A listing of replica r misses a row that s wrote only because it sits elsewhere, was
\* from before the oldest time kept, or the two replicas chose different databases
Listed(r, s, t, row, listing, oldest) ==
  \/ row \in listing
  \/ link[r] # link[s]
  \/ link[s] /\ Elsewhere(t, row)
  \/ ~link[s] /\ At(row) < oldest

StoredBy(p) == IF stored[p] \in Replicas THEN {stored[p]} ELSE {}

\* What the repositories list (telemetry_repo, threat_repo): every stored payload with its
\* collector results and features, on every replica, or one of the reasons above; and
\* the models get the features of the days of those stored in PostgreSQL
ListedOrExplained ==
  \A p \in Payloads, r \in Replicas : \A s \in StoredBy(p) :
    LET row == Live(p, "store") IN
    /\ Listed(r, s, "raw_payloads", row, ListLogs(r), week - Keep - 1)
    /\ Listed(r, s, "collector_results", row, ListResults(r), week - Keep - 1)
    /\ Listed(r, s, "normalized_features", row, FeatureVector(r, p), week - KeepFeatures)
    /\ ~link[s] /\ At(row) >= week - KeepFeatures => row \in DailyVectors(Owner[p])

\* A verdict that was saved is in PostgreSQL whatever the replica, so that the score the
\* next verdict of the user is smoothed with is never below it in its own week, the
\* replicas without ClickHouse list it, and the models see it when the payload is there
VerdictsRemembered ==
  \A p \in judged :
    LET row == Live(p, "analysis")
        u == Owner[p]
    IN At(row) >= week - Keep =>
         /\ At(row) = week => MaxRecent(u) >= Level[p]
         /\ \A r \in Replicas : ~link[r] => row \in ListRisks(r) \intersect UserRisks(r, u)
         /\ Live(p, "store") \in PgLogs => row \in RecentScores(u)

\* The dashboard counts a user under a lower level than that of the user's newest listed
\* event only when newer events of others fill the page it asks for; its totals are the
\* sizes of the listings, but where ClickHouse is empty and PostgreSQL is counted
DashboardIsCurrent ==
  \A p \in Payloads, r \in Replicas :
    LET mine == OfUser(ListRisks(r), Owner[p])
        newest == {e \in mine : \A x \in mine : At(x) <= At(e)}
        others == {e \in ListRisks(r) : \E x \in newest : At(e) >= At(x)}
    IN /\ mine # {} /\ Cardinality(others) <= DashLimit =>
            DashboardLevels(r, Owner[p]) \subseteq {Score(e) : e \in newest}
       /\ Stats(r, "risk_events") = Cardinality(ListRisks(r))
       /\ Stats(r, "raw_payloads") = Cardinality(ListLogs(r)) \/ (link[r] /\ ListLogs(r) = {})

\* A finished export has every row that was listed from its start to its end, however
\* many rows were added meanwhile and whatever the retention dropped, unless a query
\* failed, the listing moved to the other database or the limit cut it; but for the logs
\* in the partition PostgreSQL never drops, when newer ones the file has were dropped
ExportComplete ==
  export.state = "done" /\ ~export.spoiled /\ export.count < ExportLimit => export.kept = {}

\* When the script ends with success, every row the queries saw is in ClickHouse: what
\* retention removed while it ran, what was stored meanwhile, no page is lost
CopyComplete ==
  script.state = "done" => script.seen = {}

\* Neither job loses a row to what happens between two of its pages
JobsComplete == ExportComplete /\ CopyComplete

============================================================================
