----------------------------- MODULE Migrations -----------------------------
(***************************************************************************)
(* The schema migrations, which every server process applies when it       *)
(* starts, several of them at a time (apply_migrations_dir).  A process    *)
(* reads what is recorded as applied, then runs each of the other files in *)
(* a transaction and records it in another.  An error ends its migrations  *)
(* and nothing else: it serves all the same (lifespan in app.py).          *)
(*                                                                         *)
(* A file is its place in the order of the names.  All but one can be run  *)
(* again; the partitioning copies the payloads to a new table and swaps    *)
(* the names, which fails once the name of the archive is taken.           *)
(***************************************************************************)
EXTENDS Integers, FiniteSetsExt

CONSTANTS
  Processes,  \* server processes, of all replicas
  Files,      \* how many files there are
  Swap,       \* the file that swaps the tables
  Broken,     \* the files that name a column that does not exist
  MaxRows, MaxSchemaFaults  \* bounds

ASSUME MigrationAssumption ==
  /\ Files \in Nat /\ Swap \in 2 .. Files /\ Broken \subseteq 2 .. Files /\ Swap \notin Broken
  /\ "nobody" \notin Processes

VARIABLES
  ledger,    \* whether the table schema_migrations exists
  recorded,  \* the files in it
  applied,   \* the files whose transaction is committed
  process,   \* what each process is about to do, with what file, and what it read from the ledger
  holder,    \* who holds the tables in an open transaction
  copied,    \* the rows its copy has
  table,     \* the rows of the table raw_payloads
  stored,    \* history: the rows that were stored
  schemaFaults

migrationVars == <<ledger, recorded, applied, process, holder, copied, table, stored, schemaFaults>>
rows == <<copied, table, stored>>

Down == [step |-> "down", file |-> 0, seen |-> {}]
Up == [Down EXCEPT !.step = "up"]

MigrationInit ==
  /\ ledger = FALSE /\ recorded = {} /\ applied = {} /\ process = [p \in Processes |-> Down]
  /\ holder = "nobody" /\ copied = 0 /\ table = 0 /\ stored = 0 /\ schemaFaults = 0

Becomes(p, next) == process' = [process EXCEPT ![p] = next]
Step(p, step) == process' = [process EXCEPT ![p].step = step]

\* The next file the process has not seen in the ledger; it serves when there is none.
Following(after, seen) ==
  LET left == {f \in after + 1 .. Files : f \notin seen} IN
  IF left = {} THEN Up ELSE [step |-> "run", file |-> Min(left), seen |-> seen]

\* Variant: the next file is tried.
GivesUp_GoesOn(p) == Becomes(p, Following(process[p].file, process[p].seen))

\* An error ends the migrations of the process.
GivesUp(p) == Becomes(p, Up)

\* The ledger is created unless it is there.
Boot(p) ==
  /\ process[p].step = "down" /\ Step(p, IF ledger THEN "read" ELSE "prepare")
  /\ UNCHANGED <<ledger, recorded, applied, holder, rows, schemaFaults>>

\* Of those who create the ledger at the same time all but one fail.
Prepare(p) ==
  /\ process[p].step = "prepare" /\ ledger' = TRUE
  /\ Step(p, "read") \/ (ledger /\ GivesUp(p))
  /\ UNCHANGED <<recorded, applied, holder, rows, schemaFaults>>

\* An error of the query is read as nothing recorded.
ReadLedger(p) ==
  /\ process[p].step = "read"
  /\ \/ Becomes(p, Following(0, recorded)) /\ UNCHANGED schemaFaults
     \/ /\ schemaFaults < MaxSchemaFaults /\ schemaFaults' = schemaFaults + 1
        /\ Becomes(p, Following(0, {}))
  /\ UNCHANGED <<ledger, recorded, applied, holder, rows>>

\* A file that somebody ran changes nothing more, or fails when both create the same thing
\* at the same time.
RunFile(p) ==
  LET f == process[p].file IN
  /\ process[p].step = "run" /\ holder = "nobody" /\ f # Swap
  /\ \/ f \notin Broken /\ applied' = applied \cup {f} /\ Step(p, "record")
     \/ f \in Broken \cup applied /\ GivesUp(p) /\ UNCHANGED applied
  /\ UNCHANGED <<ledger, recorded, holder, rows, schemaFaults>>

\* The swap takes the tables before it copies them: it drops the foreign keys to them first.
StartSwap(p) ==
  /\ process[p].step = "run" /\ holder = "nobody" /\ process[p].file = Swap
  /\ IF Swap \in applied
     THEN GivesUp(p) /\ UNCHANGED <<holder, copied>>
     ELSE Step(p, "rename") /\ holder' = p /\ copied' = table
  /\ UNCHANGED <<ledger, recorded, applied, table, stored, schemaFaults>>
Rename(p) ==
  /\ process[p].step = "rename" /\ Step(p, "record")
  /\ table' = copied /\ applied' = applied \cup {Swap} /\ holder' = "nobody"
  /\ UNCHANGED <<ledger, recorded, copied, stored, schemaFaults>>

\* The name is the ledger's key: who comes second fails.
Recorded(p) ==
  LET f == process[p].file IN
  IF f \in recorded THEN GivesUp(p) /\ UNCHANGED recorded
  ELSE recorded' = recorded \cup {f} /\ Becomes(p, Following(f, process[p].seen))

Record(p) ==
  /\ process[p].step = "record" /\ Recorded(p)
  /\ UNCHANGED <<ledger, applied, holder, rows, schemaFaults>>

\* The database refuses (it is gone, or resolves a deadlock), or the process dies: what is
\* open is rolled back.
Stops(p) ==
  /\ process[p].step \notin {"down", "up"}
  /\ schemaFaults < MaxSchemaFaults /\ schemaFaults' = schemaFaults + 1
  /\ holder' = IF holder = p THEN "nobody" ELSE holder
  /\ GivesUp(p) \/ Becomes(p, Down)
  /\ UNCHANGED <<ledger, recorded, applied, rows>>

\* A new release, or a crash of one that serves.
Redeploy(p) ==
  /\ process[p].step = "up" /\ schemaFaults < MaxSchemaFaults /\ schemaFaults' = schemaFaults + 1
  /\ Becomes(p, Down) /\ UNCHANGED <<ledger, recorded, applied, holder, rows>>

\* Variant: the copy does not keep others from storing.
Free_Always == TRUE

\* Whether one can write to the table.
Free == holder = "nobody"

\* A process that serves stores a payload, as soon as there is a table.
Store(p) ==
  /\ process[p].step = "up" /\ 1 \in applied /\ Free /\ stored < MaxRows
  /\ stored' = stored + 1 /\ table' = table + 1
  /\ UNCHANGED <<ledger, recorded, applied, process, holder, copied, schemaFaults>>

MigrationNext ==
  \E p \in Processes : \/ Boot(p) \/ Prepare(p) \/ ReadLedger(p) \/ RunFile(p) \/ StartSwap(p) \/ Rename(p)
                       \/ Record(p) \/ Stops(p) \/ Redeploy(p) \/ Store(p)

MigrationSpec == MigrationInit /\ [][MigrationNext]_migrationVars

-----------------------------------------------------------------------------
(* Properties *)

Before(f) == 1 .. f - 1

\* What is recorded was applied, and a file only after those before it, whoever applied them.
AppliedInOrder == recorded \subseteq applied /\ \A f \in applied : Before(f) \ Broken \subseteq applied

\* No row stays behind in the table that was swapped away.
RowsKept == table = stored

\* However many processes start at the same time, and although all but one of them give up,
\* that one comes to the end, or to a file that cannot be applied.
FirstBootCompletes ==
  schemaFaults = 0 /\ (\A p \in Processes : process[p].step \in {"down", "up"})
    /\ (\E p \in Processes : process[p].step = "up")
  => \A f \in 1 .. Files : (\A g \in 1 .. f : g \notin Broken) => f \in recorded

\* Processes that migrate one schema at the same time, die between a file and its record and
\* serve while others migrate leave it sound (apply_migrations_dir, 004).
MigrationsSound == AppliedInOrder /\ RowsKept /\ FirstBootCompletes
=============================================================================
