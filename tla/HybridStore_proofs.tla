------------------------- MODULE HybridStore_proofs -------------------------
(***************************************************************************)
(* Proofs about HybridStore, for every set of replicas and payloads, every *)
(* retention time and every bound: where a stored payload can be found,    *)
(* that a saved verdict is remembered, that the dashboard is current, and  *)
(* that neither the paged export nor the copying script loses a row.       *)
(***************************************************************************)
EXTENDS HybridStore, FiniteSetTheorems, TLAPS

USE StoreAssumption

-----------------------------------------------------------------------------
(* The inductive invariant *)

Stored == Tables \ {"risk_events"}
ScriptType ==
  [state : {"idle", "open", "copy", "done", "failed"}, run : 0 .. MaxJobs,
   table : 1 .. 3, todo : SUBSET Row, seen : SUBSET (Tables \X Row)]

Shape ==
  /\ link \in [Replicas -> BOOLEAN]
  /\ pg \in Rows /\ ch \in Rows
  /\ buf \in [Replicas -> SUBSET (Tables \X Row)] /\ spooled \subseteq Tables \X Row
  /\ week \in Nat /\ parts \subseteq Int
  /\ stored \in [Payloads -> Replicas \union {"none", "refused"}] /\ judged \subseteq Payloads
  /\ script \in ScriptType

\* A payload that replica s stored is where s writes, on its way there, or too old.
InClickHouse(p) ==
  \A t \in Stored : Live(p, "store") \in ch[t] \/ Elsewhere(t, Live(p, "store"))
InPostgres(p) ==
  /\ \A t \in {"raw_payloads", "collector_results"} :
       Live(p, "store") \in pg[t] \/ Week[p] < week - Keep - 1
  /\ Live(p, "store") \in pg["normalized_features"] \/ Week[p] < week - KeepFeatures
Placed(p) ==
  \A s \in Replicas : stored[p] = s => (IF link[s] THEN InClickHouse(p) ELSE InPostgres(p))

\* A saved verdict stays in PostgreSQL until it is too old.
Kept(p) == Week[p] < week - Keep \/ Live(p, "analysis") \in pg["risk_events"]

\* What a cursor of this run saw is copied, or still in the table it is at.
Waiting(x) ==
  script.state = "copy" /\ x[1] = Copied[script.table] /\ x[2] \in script.todo
CopySound ==
  /\ script.state \in {"open", "copy"} =>
       \A x \in script.seen : Copy(x[1], x[2]) \in ch[x[1]] \/ Waiting(x)
  /\ script.state = "done" => script.seen = {}

IInv ==
  /\ Shape
  /\ \A p \in Payloads : Placed(p)
  /\ \A p \in judged : Kept(p)
  /\ CopySound

-----------------------------------------------------------------------------
(* Rows *)

\* The live row of a payload is a row.
LEMMA LiveFacts ==
  ASSUME NEW p \in Payloads, NEW by \in {"store", "analysis"}
  PROVE  /\ Live(p, by) \in Row
         /\ Live(p, by).payload = p
         /\ At(Live(p, by)) = Week[p]
BY DEF Live, Row, At

\* The fields of a row.
LEMMA RowFacts ==
  ASSUME NEW row \in Row
  PROVE  row.payload \in Payloads /\ At(row) \in Nat
BY DEF Row, At

\* Added rows are there, with all that was there before.
LEMMA AddedFacts ==
  ASSUME NEW db \in Rows, NEW rows, rows \subseteq Tables \X Row
  PROVE  /\ Added(db, rows) \in Rows
         /\ \A t \in Tables : db[t] \subseteq Added(db, rows)[t]
         /\ \A t \in Tables, row \in Row : <<t, row>> \in rows => row \in Added(db, rows)[t]
<1>1. \A t \in Tables : {x[2] : x \in {y \in rows : y[1] = t}} \subseteq Row
  OBVIOUS
<1>2. Added(db, rows) \in Rows
  BY <1>1 DEF Added, Rows
<1>3. \A t \in Tables : Added(db, rows)[t] = db[t] \union {x[2] : x \in {y \in rows : y[1] = t}}
  BY DEF Added
<1>4. ASSUME NEW t \in Tables, NEW row \in Row, <<t, row>> \in rows
      PROVE  row \in Added(db, rows)[t]
  <2>1. <<t, row>>[1] = t /\ <<t, row>>[2] = row
    OBVIOUS
  <2> QED
    BY <1>3, <1>4, <2>1
<1> QED
  BY <1>2, <1>3, <1>4

\* The rows of a payload are rows of the tables.
LEMMA RowsOfFacts ==
  ASSUME NEW p \in Payloads
  PROVE  /\ RowsOf(p) \subseteq Tables \X Row
         /\ \A t \in Stored : <<t, Live(p, "store")>> \in RowsOf(p)
<1>1. ASSUME NEW q \in {p} \cap Tampered PROVE Live(q, "store") \in Row
  BY LiveFacts
<1> QED
  BY <1>1, LiveFacts DEF RowsOf, Stored, Tables

-----------------------------------------------------------------------------
\* The invariant holds at first.
LEMMA InitInv == Init => IInv
<1> SUFFICES ASSUME Init PROVE IInv
  OBVIOUS
<1>1. Shape
  BY DEF Init, Shape, Rows, NoScript, ScriptType
<1>2. ASSUME NEW p \in Payloads PROVE Placed(p)
  BY DEF Init, Placed
<1> QED
  BY <1>1, <1>2 DEF Init, IInv, CopySound, NoScript

\* Storing a payload preserves the invariant.
LEMMA StoreStep ==
  ASSUME IInv, NEW r \in Replicas, NEW p \in Payloads, StorePayload(r, p)
  PROVE  IInv'
<1>0. stored[p] = "none" /\ r # "none" /\ UNCHANGED <<link, ch, spooled, week, judged, script>>
  BY DEF StorePayload
<1>1. CASE StoreInClickHouse(r, p)
  <2>1. buf' = [buf EXCEPT ![r] = @ \union RowsOf(p)] /\ link[r] /\ UNCHANGED pg
        /\ stored' = [stored EXCEPT ![p] = r]
    BY <1>1 DEF StoreInClickHouse
  <2>2. Shape'
    BY <1>0, <2>1, RowsOfFacts DEF IInv, Shape, StorePayload
  <2>3. \A s \in Replicas : buf[s] \subseteq buf'[s]
    BY <2>1 DEF IInv, Shape
  <2>4. RowsOf(p) \subseteq buf'[r]
    BY <2>1 DEF IInv, Shape
  <2>5. \A q \in Payloads : InClickHouse(q) => InClickHouse(q)'
    BY <1>0, <2>3 DEF InClickHouse, Elsewhere
  <2>6. InClickHouse(p)'
    BY <2>4, RowsOfFacts DEF InClickHouse, Elsewhere
  <2>7. ASSUME NEW q \in Payloads PROVE Placed(q)'
    <3>1. CASE q = p
      BY <1>0, <2>1, <2>6, <3>1 DEF IInv, Shape, Placed
    <3>2. CASE q # p
      BY <1>0, <2>1, <2>5, <3>2 DEF IInv, Shape, Placed, InPostgres
    <3> QED
      BY <3>1, <3>2
  <2> QED
    BY <1>0, <2>1, <2>2, <2>7 DEF IInv, Kept, CopySound, Waiting, Copy
<1>2. CASE StoreInPostgres(r, p) /\ Takes(Week[p])
  <2>1. pg' = Added(pg, RowsOf(p)) /\ ~link[r] /\ UNCHANGED buf
        /\ stored' = [stored EXCEPT ![p] = r]
    BY <1>2 DEF StoreInPostgres
  <2>2. /\ pg' \in Rows
        /\ \A t \in Tables : pg[t] \subseteq pg'[t]
        /\ \A t \in Stored : Live(p, "store") \in pg'[t]
    BY <2>1, RowsOfFacts, LiveFacts, AddedFacts DEF IInv, Shape, Stored
  <2>3. Shape'
    BY <1>0, <2>1, <2>2 DEF IInv, Shape, StorePayload
  <2>4. \A q \in Payloads : InPostgres(q) => InPostgres(q)'
    BY <1>0, <2>2 DEF InPostgres, Tables
  <2>5. InPostgres(p)'
    BY <2>2 DEF InPostgres, Stored, Tables
  <2>6. ASSUME NEW q \in Payloads PROVE Placed(q)'
    <3>1. CASE q = p
      BY <1>0, <2>1, <2>5, <3>1 DEF IInv, Shape, Placed
    <3>2. CASE q # p
      BY <1>0, <2>1, <2>4, <3>2 DEF IInv, Shape, Placed, InClickHouse, Elsewhere
    <3> QED
      BY <3>1, <3>2
  <2>7. \A q \in judged : Kept(q)'
    BY <1>0, <2>2 DEF IInv, Kept, Tables
  <2> QED
    BY <1>0, <2>3, <2>6, <2>7 DEF IInv, CopySound, Waiting, Copy
<1>3. CASE StoreInPostgres(r, p) /\ ~ Takes(Week[p])
  <2>1. stored' = [stored EXCEPT ![p] = "refused"] /\ UNCHANGED <<pg, buf>>
    BY <1>3 DEF StoreInPostgres
  <2>2. Shape'
    BY <1>0, <2>1 DEF IInv, Shape, StorePayload
  <2>3. ASSUME NEW q \in Payloads PROVE Placed(q)'
    BY <1>0, <2>1 DEF IInv, Shape, Placed, InClickHouse, InPostgres, Elsewhere
  <2> QED
    BY <1>0, <2>1, <2>2, <2>3 DEF IInv, Kept, CopySound, Waiting, Copy
<1> QED
  BY <1>1, <1>2, <1>3 DEF StorePayload

\* Saving a risk event preserves the invariant.
LEMMA VerdictStep ==
  ASSUME IInv, NEW r \in Replicas, NEW p \in Payloads, SaveRiskEvent(r, p)
  PROVE  IInv'
<1> DEFINE row == Live(p, "analysis")
           entry == <<"risk_events", row>>
<1>0. /\ UNCHANGED <<link, ch, spooled, week, parts, stored, script>>
      /\ QueueVerdict(r, entry) /\ InsertVerdict(p, entry)
  BY DEF SaveRiskEvent
<1>8. row \in Row /\ entry \in Tables \X Row
  BY LiveFacts DEF Tables
<1>1. /\ buf' \in [Replicas -> SUBSET (Tables \X Row)]
      /\ \A s \in Replicas : buf[s] \subseteq buf'[s]
  BY <1>0, <1>8 DEF QueueVerdict, IInv, Shape
<1>2. \/ UNCHANGED <<pg, judged>>
      \/ pg' = Added(pg, {entry}) /\ judged' = judged \union {p}
  BY <1>0 DEF InsertVerdict
<1>3. /\ Added(pg, {entry}) \in Rows /\ row \in Added(pg, {entry})["risk_events"]
      /\ \A t \in Tables : pg[t] \subseteq Added(pg, {entry})[t]
  <2>1. pg \in Rows /\ {entry} \subseteq Tables \X Row /\ "risk_events" \in Tables
    BY <1>8 DEF IInv, Shape, Tables
  <2> QED
    BY <1>8, <2>1, AddedFacts
<1>4. pg' \in Rows /\ \A t \in Tables : pg[t] \subseteq pg'[t]
  BY <1>2, <1>3 DEF IInv, Shape
<1>5. Shape'
  BY <1>0, <1>1, <1>2, <1>4 DEF IInv, Shape
<1>6. \A q \in Payloads : Placed(q)'
  <2>1. \A q \in Payloads : InClickHouse(q) => InClickHouse(q)'
    BY <1>0, <1>1 DEF InClickHouse, Elsewhere
  <2>2. \A q \in Payloads : InPostgres(q) => InPostgres(q)'
    BY <1>0, <1>4 DEF InPostgres, Tables
  <2> QED
    BY <1>0, <2>1, <2>2 DEF IInv, Placed
<1>7. ASSUME NEW q \in judged' PROVE Kept(q)'
  <2>1. CASE q \in judged
    BY <1>0, <1>4, <2>1 DEF IInv, Kept, Tables
  <2>2. CASE q \notin judged
    <3>1. q = p /\ row \in pg'["risk_events"]
      BY <1>2, <1>3, <2>2
    <3> QED
      BY <3>1 DEF Kept
  <2> QED
    BY <2>1, <2>2
<1> QED
  BY <1>0, <1>5, <1>6, <1>7 DEF IInv, CopySound, Waiting, Copy

\* The flush of a replica's batcher preserves the invariant.
LEMMA FlushStep ==
  ASSUME IInv, NEW r \in Replicas, Flush(r)
  PROVE  IInv'
<1>0. UNCHANGED <<link, pg, week, parts, stored, judged, script>> /\ buf' = [buf EXCEPT ![r] = {}]
  BY DEF Flush
<1>1. PICK lost : /\ lost \subseteq buf[r]
                  /\ ch' = Added(ch, buf[r] \ lost) /\ spooled' = spooled \union lost
  BY DEF Flush
<1>2. buf[r] \subseteq Tables \X Row
  BY DEF IInv, Shape
<1>3. /\ ch' \in Rows
      /\ \A t \in Tables : ch[t] \subseteq ch'[t]
      /\ \A t \in Tables, row \in Row : <<t, row>> \in buf[r] => row \in ch'[t] \/ <<t, row>> \in spooled'
  <2>1. buf[r] \ lost \subseteq Tables \X Row
    BY <1>2
  <2>2. /\ Added(ch, buf[r] \ lost) \in Rows
        /\ \A t \in Tables : ch[t] \subseteq Added(ch, buf[r] \ lost)[t]
        /\ \A t \in Tables, row \in Row :
             <<t, row>> \in buf[r] \ lost => row \in Added(ch, buf[r] \ lost)[t]
    BY <2>1, AddedFacts DEF IInv, Shape
  <2> QED
    BY <1>1, <2>2
<1>4. Shape'
  BY <1>0, <1>1, <1>2, <1>3 DEF IInv, Shape
<1>5. ASSUME NEW p \in Payloads, InClickHouse(p) PROVE InClickHouse(p)'
  <2>1. SUFFICES ASSUME NEW t \in Stored
                 PROVE  Live(p, "store") \in ch'[t] \/ Elsewhere(t, Live(p, "store"))'
    BY DEF InClickHouse
  <2>2. t \in Tables /\ Live(p, "store") \in Row
    BY LiveFacts DEF Stored
  <2>3. CASE Live(p, "store") \in ch[t]
    BY <1>3, <2>2, <2>3
  <2>4. CASE <<t, Live(p, "store")>> \in spooled
    BY <1>1, <2>4 DEF Elsewhere
  <2>5. CASE <<t, Live(p, "store")>> \in buf[r]
    BY <1>3, <2>2, <2>5 DEF Elsewhere
  <2>6. ASSUME NEW s \in Replicas, s # r, <<t, Live(p, "store")>> \in buf[s]
        PROVE  Elsewhere(t, Live(p, "store"))'
    BY <1>0, <2>6 DEF Elsewhere, IInv, Shape
  <2> QED
    BY <1>5, <2>3, <2>4, <2>5, <2>6 DEF InClickHouse, Elsewhere
<1>6. \A p \in Payloads : Placed(p)'
  BY <1>0, <1>5 DEF IInv, Placed, InPostgres
<1>7. CopySound'
  <2>1. ASSUME NEW x \in script.seen, Copy(x[1], x[2]) \in ch[x[1]] PROVE Copy(x[1], x[2]) \in ch'[x[1]]
    BY <1>3, <2>1 DEF IInv, Shape, ScriptType
  <2> QED
    BY <1>0, <2>1 DEF IInv, CopySound, Waiting, Copy
<1> QED
  BY <1>0, <1>4, <1>6, <1>7 DEF IInv, Kept

\* The passing of a week preserves the invariant.
LEMMA WeekStep ==
  ASSUME IInv, NextWeek
  PROVE  IInv'
<1>0. /\ UNCHANGED <<link, pg, ch, buf, spooled, parts, stored, judged, script>>
      /\ week' = week + 1 /\ week \in Nat
  BY DEF NextWeek, IInv, Shape
<1>1. Shape'
  BY <1>0 DEF IInv, Shape
<1>2. ASSUME NEW p \in Payloads PROVE Placed(p) => Placed(p)'
  <2>1. InClickHouse(p) => InClickHouse(p)'
    BY <1>0 DEF InClickHouse, Elsewhere
  <2>2. Week[p] \in Nat
    OBVIOUS
  <2>3. InPostgres(p) => InPostgres(p)'
    BY <1>0, <2>2 DEF InPostgres
  <2> QED
    BY <1>0, <2>1, <2>3 DEF Placed
<1>3. ASSUME NEW p \in judged PROVE Kept(p) => Kept(p)'
  <2>1. Week[p] \in Nat
    BY DEF IInv, Shape
  <2> QED
    BY <1>0, <2>1 DEF Kept
<1> QED
  BY <1>0, <1>1, <1>2, <1>3 DEF IInv, CopySound, Waiting, Copy

\* Dropping what is too old preserves the invariant.
LEMMA RetentionStep ==
  ASSUME IInv, Retention
  PROVE  IInv'
<1>0. UNCHANGED <<link, ch, buf, spooled, week, stored, judged, script>> /\ week \in Nat
  BY DEF Retention, IInv, Shape
<1>1. parts' \subseteq Int
  <2>1. parts' = (parts \ Droppable) \union NewPartitions
    BY DEF Retention
  <2>2. NewPartitions \subseteq Int
    BY <1>0 DEF NewPartitions
  <2> QED
    BY <2>1, <2>2 DEF IInv, Shape
<1>2. /\ pg'["raw_payloads"] = {row \in pg["raw_payloads"] : At(row) \notin Droppable}
      /\ pg'["collector_results"] = {row \in pg["collector_results"] : At(row) \notin Droppable}
      /\ pg'["risk_events"] = Fresh(pg["risk_events"], Keep)
      /\ pg'["normalized_features"] = Fresh(pg["normalized_features"], KeepFeatures)
      /\ DOMAIN pg' = {"raw_payloads", "collector_results", "risk_events", "normalized_features"}
      /\ pg' = [t \in DOMAIN pg' |-> pg'[t]]
  BY DEF Retention
<1>3. pg' \in Rows
  <2>1. DOMAIN pg' = Tables
    BY <1>2 DEF Tables
  <2>2. ASSUME NEW t \in Tables PROVE pg'[t] \in SUBSET Row
    BY <1>2, <2>2 DEF IInv, Shape, Rows, Tables, Fresh
  <2> QED
    BY <1>2, <2>1, <2>2 DEF Rows
<1>4. Shape'
  BY <1>0, <1>1, <1>3 DEF IInv, Shape
<1>5. ASSUME NEW p \in Payloads PROVE Placed(p)'
  <2>1. InClickHouse(p) => InClickHouse(p)'
    BY <1>0 DEF InClickHouse, Elsewhere
  <2>2. Week[p] \in Nat /\ At(Live(p, "store")) = Week[p]
    BY LiveFacts
  <2>3. Week[p] \in Droppable => Week[p] < week - Keep - 1
    BY <1>0, <2>2 DEF Droppable
  <2>4. ~ (Week[p] >= week - KeepFeatures) => Week[p] < week - KeepFeatures
    BY <1>0, <2>2
  <2>5. InPostgres(p) => InPostgres(p)'
    BY <1>0, <1>2, <2>2, <2>3, <2>4 DEF InPostgres, Fresh
  <2> QED
    BY <1>0, <2>1, <2>5 DEF IInv, Placed
<1>6. ASSUME NEW p \in judged PROVE Kept(p)'
  <2>1. Week[p] \in Nat /\ At(Live(p, "analysis")) = Week[p]
    BY LiveFacts DEF IInv, Shape
  <2>2. ~ (Week[p] >= week - Keep) => Week[p] < week - Keep
    BY <1>0, <2>1
  <2> QED
    BY <1>0, <1>2, <2>1, <2>2 DEF IInv, Kept, Fresh
<1> QED
  BY <1>0, <1>4, <1>5, <1>6 DEF IInv, CopySound, Waiting, Copy

-----------------------------------------------------------------------------
(* The script *)

\* The start of the copying script preserves the invariant.
LEMMA ScriptStartStep ==
  ASSUME IInv, ScriptStart
  PROVE  IInv'
<1>0. UNCHANGED <<link, pg, ch, buf, spooled, week, parts, stored, judged>>
  BY DEF ScriptStart
<1>1. script.run + 1 \in 0 .. MaxJobs
  BY DEF ScriptStart, JobLeft, IInv, Shape, ScriptType
<1>2. script' \in ScriptType /\ script'.state = "open" /\ script'.seen = {}
  <2>1. script' = [state |-> "open", run |-> script.run + 1, table |-> 1, todo |-> {}, seen |-> {}]
    BY DEF ScriptStart, NoScript
  <2> QED
    BY <1>1, <2>1 DEF ScriptType
<1>3. Shape'
  BY <1>0, <1>2 DEF IInv, Shape
<1>4. \A p \in Payloads : Placed(p)'
  BY <1>0 DEF IInv, Placed, InClickHouse, InPostgres, Elsewhere
<1> QED
  BY <1>0, <1>2, <1>3, <1>4 DEF IInv, Kept, CopySound

\* The next table, or the end, of a script that has copied all it saw.
LEMMA NextTableFacts ==
  ASSUME Shape, \A x \in script.seen : Copy(x[1], x[2]) \in ch[x[1]]
  PROVE  /\ NextTable(script) \in ScriptType
         /\ NextTable(script).run = script.run
         /\ \/ NextTable(script).state = "open" /\ NextTable(script).seen = script.seen
            \/ NextTable(script).state = "done" /\ NextTable(script).seen = {}
<1>1. Len(Copied) = 3
  BY DEF Copied
<1>2. Uncopied(script.seen) = {}
  BY DEF Uncopied
<1>3. CASE script.table < 3
  <2>1. NextTable(script) = [script EXCEPT !.state = "open", !.table = @ + 1]
    BY <1>1, <1>3 DEF NextTable
  <2>2. script.table + 1 \in 1 .. 3
    BY <1>3 DEF Shape, ScriptType
  <2> QED
    BY <2>1, <2>2 DEF Shape, ScriptType
<1>4. CASE ~ (script.table < 3)
  <2>1. NextTable(script)
          = [NoScript EXCEPT !.state = "done", !.run = script.run, !.seen = {}]
    BY <1>1, <1>2, <1>4 DEF NextTable
  <2>2. NextTable(script)
          = [state |-> "done", run |-> script.run, table |-> 1, todo |-> {}, seen |-> {}]
    BY <2>1 DEF NoScript
  <2> QED
    BY <2>2 DEF Shape, ScriptType
<1> QED
  BY <1>3, <1>4

\* Opening the cursor of a table preserves the invariant.
LEMMA ScriptOpenStep ==
  ASSUME IInv, ScriptOpen
  PROVE  IInv'
<1> DEFINE t == Copied[script.table]
<1>0. UNCHANGED <<link, pg, ch, buf, spooled, week, parts, stored, judged>> /\ script.state = "open"
  BY DEF ScriptOpen
<1>1. t \in Tables
  BY DEF IInv, Shape, ScriptType, Copied, Tables
<1>2. \A x \in script.seen : Copy(x[1], x[2]) \in ch[x[1]]
  BY <1>0 DEF IInv, CopySound, Waiting
<1>3. CASE script' = NextTable(script)
  <2>1. script' \in ScriptType /\ script'.run = script.run
        /\ (\/ script'.state = "open" /\ script'.seen = script.seen
            \/ script'.state = "done" /\ script'.seen = {})
    BY <1>2, <1>3, NextTableFacts DEF IInv
  <2>2. CopySound'
    BY <1>0, <1>2, <2>1 DEF CopySound, Copy
  <2> QED
    BY <1>0, <2>1, <2>2
       DEF IInv, Shape, Placed, InClickHouse, InPostgres, Elsewhere, Kept
<1>4. CASE script' = [script EXCEPT !.state = "copy", !.todo = pg[t],
                         !.seen = @ \union {<<t, row>> : row \in pg[t]}]
  <2>1. pg[t] \subseteq Row
    BY <1>1 DEF IInv, Shape, Rows
  <2>2. /\ script'.state = "copy" /\ script'.todo = pg[t] /\ script'.run = script.run
        /\ script'.table = script.table
        /\ script'.seen = script.seen \union {<<t, row>> : row \in pg[t]}
    BY <1>4 DEF IInv, Shape, ScriptType
  <2>5. script' \in ScriptType
    <3>1. {<<t, row>> : row \in pg[t]} \subseteq Tables \X Row
      BY <1>1, <2>1
    <3>2. script.seen \union {<<t, row>> : row \in pg[t]} \in SUBSET (Tables \X Row)
      BY <3>1 DEF IInv, Shape, ScriptType
    <3> QED
      BY <1>4, <2>1, <3>2 DEF IInv, Shape, ScriptType
  <2>3. ASSUME NEW x \in script'.seen PROVE Copy(x[1], x[2])' \in ch'[x[1]] \/ Waiting(x)'
    <3>1. CASE x \in script.seen
      BY <1>0, <1>2, <2>2, <3>1 DEF Copy
    <3>2. CASE x \in {<<t, row>> : row \in pg[t]}
      BY <2>2, <3>2 DEF Waiting
    <3> QED
      BY <2>2, <3>1, <3>2
  <2>4. CopySound'
    BY <2>2, <2>3 DEF CopySound
  <2> QED
    BY <1>0, <2>5, <2>4
       DEF IInv, Shape, Placed, InClickHouse, InPostgres, Elsewhere, Kept
<1> QED
  BY <1>3, <1>4 DEF ScriptOpen

\* Copying a batch preserves the invariant.
LEMMA ScriptBatchStep ==
  ASSUME IInv, ScriptBatch
  PROVE  IInv'
<1> DEFINE t == Copied[script.table]
<1>0. UNCHANGED <<link, pg, buf, spooled, week, parts, stored, judged>> /\ script.state = "copy"
  BY DEF ScriptBatch
<1>1. t \in Tables
  BY DEF IInv, Shape, ScriptType, Copied, Tables
<1>2. PICK batch \in SUBSET script.todo :
        \/ /\ script' = [script EXCEPT !.todo = @ \ batch]
           /\ ch' = Added(ch, {<<t, Copy(t, row)>> : row \in batch})
        \/ /\ script' = [NoScript EXCEPT !.state = "failed", !.run = script.run]
           /\ UNCHANGED ch
  BY DEF ScriptBatch, kSubset
<1>3. \A row \in Row : Copy(t, row) \in Row
  BY DEF Copy, Row, IInv, Shape, ScriptType
<1>4. batch \subseteq Row
  BY <1>2 DEF IInv, Shape, ScriptType
<1>5. {<<t, Copy(t, row)>> : row \in batch} \subseteq Tables \X Row
  BY <1>1, <1>3, <1>4
<1>6. /\ Added(ch, {<<t, Copy(t, row)>> : row \in batch}) \in Rows
      /\ \A u \in Tables : ch[u] \subseteq Added(ch, {<<t, Copy(t, row)>> : row \in batch})[u]
      /\ \A r \in batch : Copy(t, r) \in Added(ch, {<<t, Copy(t, row)>> : row \in batch})[t]
  <2>1. ch \in Rows
    BY DEF IInv, Shape
  <2> QED
    BY <1>1, <1>3, <1>4, <1>5, <2>1, AddedFacts
<1>7. CASE script' = [NoScript EXCEPT !.state = "failed", !.run = script.run] /\ UNCHANGED ch
  <2>1. script' \in ScriptType /\ script'.state = "failed"
    <3>1. script' = [state |-> "failed", run |-> script.run, table |-> 1, todo |-> {}, seen |-> {}]
      BY <1>7 DEF NoScript
    <3> QED
      BY <3>1 DEF IInv, Shape, ScriptType
  <2> QED
    BY <1>0, <1>7, <2>1
       DEF IInv, Shape, Placed, InClickHouse, InPostgres, Elsewhere, Kept, CopySound
<1>8. CASE /\ script' = [script EXCEPT !.todo = @ \ batch]
           /\ ch' = Added(ch, {<<t, Copy(t, row)>> : row \in batch})
  <2>1. /\ script' \in ScriptType /\ script'.state = "copy" /\ script'.run = script.run
        /\ script'.table = script.table /\ script'.seen = script.seen
        /\ script'.todo = script.todo \ batch
    BY <1>0, <1>8 DEF IInv, Shape, ScriptType
  <2>2. /\ ch' \in Rows /\ \A u \in Tables : ch[u] \subseteq ch'[u]
        /\ \A row \in batch : Copy(t, row) \in ch'[t]
    BY <1>6, <1>8 DEF IInv, Shape
  <2>3. Shape'
    BY <1>0, <2>1, <2>2 DEF IInv, Shape
  <2>4. ASSUME NEW p \in Payloads PROVE Placed(p)'
    <3>1. InClickHouse(p) => InClickHouse(p)'
      BY <1>0, <2>2 DEF InClickHouse, Elsewhere, Stored
    <3> QED
      BY <1>0, <3>1 DEF IInv, Placed, InPostgres
  <2>5. ASSUME NEW x \in script.seen PROVE Copy(x[1], x[2])' \in ch'[x[1]] \/ Waiting(x)'
    <3>1. x[1] \in Tables
      BY DEF IInv, Shape, ScriptType
    <3>2. Copy(x[1], x[2])' = Copy(x[1], x[2])
      BY <2>1 DEF Copy
    <3>3. CASE Copy(x[1], x[2]) \in ch[x[1]]
      BY <2>2, <3>1, <3>2, <3>3
    <3>4. CASE x[1] = t /\ x[2] \in script.todo
      BY <2>1, <2>2, <3>2, <3>4 DEF Waiting
    <3> QED
      BY <1>0, <3>3, <3>4 DEF IInv, CopySound, Waiting
  <2>6. CopySound'
    BY <2>1, <2>5 DEF CopySound
  <2> QED
    BY <1>0, <2>3, <2>4, <2>6 DEF IInv, Kept
<1> QED
  BY <1>2, <1>7, <1>8

\* The end of a table preserves the invariant.
LEMMA ScriptTableDoneStep ==
  ASSUME IInv, ScriptTableDone
  PROVE  IInv'
<1>0. /\ UNCHANGED <<link, pg, ch, buf, spooled, week, parts, stored, judged>>
      /\ script.state = "copy" /\ script.todo = {} /\ script' = NextTable(script)
  BY DEF ScriptTableDone
<1>1. \A x \in script.seen : Copy(x[1], x[2]) \in ch[x[1]]
  BY <1>0 DEF IInv, CopySound, Waiting
<1>2. script' \in ScriptType /\ script'.run = script.run
      /\ (\/ script'.state = "open" /\ script'.seen = script.seen
          \/ script'.state = "done" /\ script'.seen = {})
  BY <1>0, <1>1, NextTableFacts DEF IInv
<1>3. CopySound'
  BY <1>0, <1>1, <1>2 DEF CopySound, Copy
<1> QED
  BY <1>0, <1>2, <1>3
     DEF IInv, Shape, Placed, InClickHouse, InPostgres, Elsewhere, Kept

-----------------------------------------------------------------------------
\* Every step preserves the invariant.
LEMMA StepInv == IInv /\ [Next]_vars => IInv'
<1> SUFFICES ASSUME IInv, [Next]_vars PROVE IInv'
  OBVIOUS
<1>1. ASSUME UNCHANGED <<link, pg, ch, buf, spooled, week, parts, stored, judged, script>>
      PROVE  IInv'
  BY <1>1 DEF IInv, Shape, Placed, InClickHouse, InPostgres, Elsewhere, Kept,
              CopySound, Waiting, Copy
<1>2. CASE \E r \in Replicas : \/ \E p \in Payloads : StorePayload(r, p) \/ SaveRiskEvent(r, p)
                               \/ Flush(r)
  BY <1>2, StoreStep, VerdictStep, FlushStep
<1>3. CASE \E r \in Replicas : ExportLogs(r) \/ ExportThreats(r)
  BY <1>1, <1>3 DEF ExportLogs, ExportThreats, ExportStart
<1>4. CASE NextWeek \/ Retention
  BY <1>4, WeekStep, RetentionStep
<1>5. CASE ExportPage
  BY <1>1, <1>5 DEF ExportPage
<1>6. CASE ExportQueryFails
  BY <1>1, <1>6 DEF ExportQueryFails
<1>7. CASE ScriptStart \/ ScriptOpen \/ ScriptBatch \/ ScriptTableDone
  BY <1>7, ScriptStartStep, ScriptOpenStep, ScriptBatchStep, ScriptTableDoneStep
<1>8. CASE UNCHANGED vars
  BY <1>1, <1>8 DEF vars
<1> QED
  BY <1>2, <1>3, <1>4, <1>5, <1>6, <1>7, <1>8 DEF Next

\* The invariant all the others follow from.
THEOREM Inductive == Spec => []IInv
BY InitInv, StepInv, PTL DEF Spec

-----------------------------------------------------------------------------
(* What it implies *)

\* A set of levels that has a member has a largest one.
LEMMA LevelsHaveAMax ==
  ASSUME NEW S \in SUBSET (0 .. 3), NEW level \in S
  PROVE  Max(S) >= level
<1>1. \E x \in S : \A y \in S : x >= y
  <2>1. CASE 3 \in S
    BY <2>1
  <2>2. CASE 3 \notin S /\ 2 \in S
    <3>1. \A y \in S : 2 >= y
      BY <2>2
    <3> QED
      BY <2>2, <3>1
  <2>3. CASE 3 \notin S /\ 2 \notin S /\ 1 \in S
    <3>1. \A y \in S : 1 >= y
      BY <2>3
    <3> QED
      BY <2>3, <3>1
  <2>4. CASE 3 \notin S /\ 2 \notin S /\ 1 \notin S
    <3>1. \A y \in S : y = 0
      BY <2>4
    <3> QED
      BY <3>1
  <2> QED
    BY <2>1, <2>2, <2>3, <2>4
<1> QED
  BY <1>1 DEF Max

\* The invariant implies that stored payloads are listed.
LEMMA InvListed == IInv => ListedOrExplained
<1> SUFFICES ASSUME IInv, NEW p \in Payloads, NEW r \in Replicas, NEW s \in StoredBy(p)
             PROVE  LET row == Live(p, "store") IN
                    /\ Listed(r, s, "raw_payloads", row, ListLogs(r), week - Keep - 1)
                    /\ Listed(r, s, "collector_results", row, ListResults(r), week - Keep - 1)
                    /\ Listed(r, s, "normalized_features", row, FeatureVector(r, p), week - KeepFeatures)
                    /\ ~link[s] /\ At(row) >= week - KeepFeatures => row \in DailyVectors(Owner[p])
  BY DEF ListedOrExplained
<1> DEFINE row == Live(p, "store")
<1>1. s \in Replicas /\ stored[p] = s
  BY DEF StoredBy
<1>2. /\ row \in Row /\ row.payload = p /\ At(row) = Week[p]
      /\ Week[p] \in Nat /\ week \in Nat
  BY LiveFacts DEF IInv, Shape
<1>3. link[s] \in BOOLEAN /\ link[r] \in BOOLEAN
  BY <1>1 DEF IInv, Shape
<1>4. CASE link[r] # link[s]
  <2>1. ~link[s] => InPostgres(p)
    BY <1>1 DEF IInv, Placed
  <2>2. ~link[s] /\ At(row) >= week - KeepFeatures => row \in DailyVectors(Owner[p])
    BY <1>2, <2>1 DEF InPostgres, DailyVectors, OfUser
  <2> QED
    BY <1>4, <2>2 DEF Listed
<1>5. CASE link[r] /\ link[s]
  <2>1. \A t \in Stored : row \in ch[t] \/ Elsewhere(t, row)
    BY <1>1, <1>5 DEF IInv, Placed, InClickHouse
  <2>2. row \in ch["normalized_features"] => row \in FeatureVector(r, p)
    BY <1>2, <1>5 DEF FeatureVector, ChFeatures
  <2>3. ListLogs(r) = ch["raw_payloads"] /\ ListResults(r) = ch["collector_results"]
    BY <1>5 DEF ListLogs, ListResults, ChLogs, ChResults
  <2> QED
    BY <1>5, <2>1, <2>2, <2>3 DEF Listed, Stored, Tables
<1>6. CASE ~link[r] /\ ~link[s]
  <2>1. InPostgres(p)
    BY <1>1, <1>6 DEF IInv, Placed
  <2>2. row \in pg["normalized_features"] => row \in FeatureVector(r, p) /\ row \in DailyVectors(Owner[p])
    BY <1>2, <1>6 DEF FeatureVector, PgFeatures, DailyVectors, OfUser
  <2>3. ListLogs(r) = pg["raw_payloads"] /\ ListResults(r) = pg["collector_results"]
    BY <1>6 DEF ListLogs, ListResults, PgLogs, PgResults
  <2>4. At(row) >= week - KeepFeatures => ~ (Week[p] < week - KeepFeatures)
    BY <1>2
  <2> QED
    BY <1>2, <1>6, <2>1, <2>2, <2>3, <2>4 DEF Listed, InPostgres
<1> QED
  BY <1>3, <1>4, <1>5, <1>6

\* The invariant implies that verdicts are remembered.
LEMMA InvVerdicts == IInv => VerdictsRemembered
<1> SUFFICES ASSUME IInv, NEW p \in judged, At(Live(p, "analysis")) >= week - Keep
             PROVE  LET row == Live(p, "analysis")
                        u == Owner[p]
                    IN /\ At(row) = week => MaxRecent(u) >= Level[p]
                       /\ \A r \in Replicas : ~link[r] => row \in ListRisks(r) \intersect UserRisks(r, u)
                       /\ Live(p, "store") \in PgLogs => row \in RecentScores(u)
  BY DEF VerdictsRemembered
<1> DEFINE row == Live(p, "analysis")
           u == Owner[p]
<1>1. /\ p \in Payloads /\ row \in Row /\ row.payload = p /\ row.by = "analysis"
      /\ At(row) = Week[p] /\ Week[p] \in Nat /\ week \in Nat
  BY LiveFacts DEF IInv, Shape, Live
<1>2. row \in PgRisks
  BY <1>1 DEF IInv, Kept, PgRisks
<1>3. row \in PgUserRisks(u)
  BY <1>1, <1>2 DEF PgUserRisks, OfUser
<1>4. ASSUME At(row) = week PROVE MaxRecent(u) >= Level[p]
  <2> DEFINE S == {Score(e) : e \in {x \in PgUserRisks(u) : At(x) = week}} \union {0}
  <2>1. \A e \in PgUserRisks(u) : Score(e) \in 0 .. 3
    BY DEF PgUserRisks, PgRisks, OfUser, Score, Row, Rows, IInv, Shape, Tables
  <2>2. S \in SUBSET (0 .. 3)
    BY <2>1
  <2>3. Score(row) = Level[p]
    BY <1>1 DEF Score
  <2>4. Level[p] \in S
    BY <1>3, <1>4, <2>3
  <2> HIDE DEF S
  <2>5. Max(S) >= Level[p]
    BY <2>2, <2>4, LevelsHaveAMax
  <2> QED
    BY <2>5 DEF MaxRecent, S
<1>5. \A r \in Replicas : ~link[r] => row \in ListRisks(r) \intersect UserRisks(r, u)
  BY <1>2, <1>3 DEF ListRisks, UserRisks
<1>6. Live(p, "store") \in PgLogs => row \in RecentScores(u)
  <2>1. Live(p, "store").payload = p
    BY <1>1, LiveFacts
  <2> QED
    BY <1>1, <1>3, <2>1 DEF RecentScores
<1> QED
  BY <1>4, <1>5, <1>6

\* Whatever databases the replicas found, whatever was spooled, dropped by retention or
\* copied meanwhile: a stored payload is listed by every replica that chose the same
\* database, or waits for it, or is too old (telemetry_repo, retention_cleanup).
THEOREM PayloadsAreListed == Spec => []ListedOrExplained
BY Inductive, InvListed, PTL

\* A saved verdict is what the next one is smoothed with and what the models are shown,
\* until retention may drop it (save_risk_event, get_max_recent_risk_score).
THEOREM VerdictsSurvive == Spec => []VerdictsRemembered
BY Inductive, InvVerdicts, PTL

\* A run of the copying script that ends with success has copied every row its cursors
\* saw, whatever was stored or dropped while it ran (migrate_pg_to_clickhouse).
THEOREM CopyMissesNothing == Spec => []CopyComplete
<1>1. IInv => CopyComplete
  BY DEF IInv, CopySound, CopyComplete
<1> QED
  BY <1>1, Inductive, PTL

-----------------------------------------------------------------------------
(* Sorted pages *)

Above(rows, w) == {row \in rows : At(row) > w}

\* The smaller of two numbers.
LEMMA SmallerFacts ==
  ASSUME NEW a \in Int, NEW b \in Int
  PROVE  /\ Smaller(a, b) \in Int /\ Smaller(a, b) <= a /\ Smaller(a, b) <= b
         /\ Smaller(a, b) = a \/ Smaller(a, b) = b
BY DEF Smaller

\* A strict subset of a finite set is smaller.
LEMMA StrictSubset ==
  ASSUME NEW S, IsFiniteSet(S), NEW T \in SUBSET S, NEW x \in S, x \notin T
  PROVE  Cardinality(T) \in Nat /\ Cardinality(S) \in Nat /\ Cardinality(T) < Cardinality(S)
<1>1. IsFiniteSet(T) /\ Cardinality(T) <= Cardinality(S)
      /\ (Cardinality(S) = Cardinality(T) => S = T)
  BY FS_Subset
<1>2. Cardinality(T) \in Nat /\ Cardinality(S) \in Nat
  BY <1>1, FS_CardinalityType
<1> QED
  BY <1>1, <1>2

\* A subset of a finite set is finite and not larger.
LEMMA NotLarger ==
  ASSUME NEW S, IsFiniteSet(S), NEW T \in SUBSET S
  PROVE  /\ IsFiniteSet(T) /\ Cardinality(T) \in Nat /\ Cardinality(S) \in Nat
         /\ Cardinality(T) <= Cardinality(S)
         /\ Cardinality(S) = Cardinality(T) => S = T
BY FS_Subset, FS_CardinalityType

\* The size of what a query with a limit returns.
LEMMA HeadsFacts ==
  ASSUME NEW rows, IsFiniteSet(rows), NEW n \in Nat, NEW h \in Heads(n, rows)
  PROVE  /\ h \in SUBSET rows /\ IsFiniteSet(h)
         /\ Cardinality(h) \in Nat /\ Cardinality(h) <= n
         /\ Cardinality(h) = n \/ h = rows
         /\ \A x \in h, y \in rows \ h : At(x) >= At(y)
<1>1. h \in SUBSET rows /\ Cardinality(h) = Smaller(n, Cardinality(rows))
      /\ \A x \in h, y \in rows \ h : At(x) >= At(y)
  BY DEF Heads, kSubset
<1>2. IsFiniteSet(h) /\ Cardinality(h) \in Nat /\ Cardinality(rows) \in Nat
      /\ (Cardinality(rows) = Cardinality(h) => rows = h)
  BY <1>1, NotLarger
<1>3. Cardinality(h) <= n /\ (Cardinality(h) = n \/ Cardinality(h) = Cardinality(rows))
  BY <1>1, <1>2, SmallerFacts
<1> QED
  BY <1>1, <1>2, <1>3

\* Rows that are newer than all others are returned first.
LEMMA HeadsNewest ==
  ASSUME NEW rows \in SUBSET Row, IsFiniteSet(rows), NEW n \in Nat, NEW h \in Heads(n, rows),
         NEW top \in SUBSET rows, \A x \in top, y \in rows : At(y) >= At(x) => y \in top
  PROVE  /\ Cardinality(top) <= n => top \subseteq h
         /\ n <= Cardinality(top) => h \subseteq top
<1>1. /\ h \in SUBSET rows /\ IsFiniteSet(h) /\ Cardinality(h) \in Nat /\ Cardinality(h) <= n
      /\ Cardinality(h) = n \/ h = rows
      /\ \A x \in h, y \in rows \ h : At(x) >= At(y)
  BY HeadsFacts
<1>2. IsFiniteSet(top) /\ Cardinality(top) \in Nat
  BY NotLarger
<1>3. ASSUME NEW x \in h \ top, NEW y \in top \ h PROVE FALSE
  <2>1. At(x) >= At(y)
    BY <1>1
  <2> QED
    BY <1>1, <2>1
<1>4. ASSUME Cardinality(top) <= n, NEW y \in top \ h PROVE FALSE
  <2>1. h \subseteq top
    BY <1>3, <1>4
  <2>2. Cardinality(h) < Cardinality(top)
    BY <1>2, <1>4, <2>1, StrictSubset
  <2> QED
    BY <1>1, <1>2, <1>4, <2>2
<1>5. ASSUME n <= Cardinality(top), NEW x \in h \ top PROVE FALSE
  <2>1. top \subseteq h
    BY <1>3, <1>5
  <2>2. Cardinality(top) < Cardinality(h)
    BY <1>1, <1>5, <2>1, StrictSubset
  <2> QED
    BY <1>1, <1>2, <1>5, <2>2
<1> QED
  BY <1>4, <1>5

\* A page is what a query returns of what the rows before it leave.
LEMMA PageFacts ==
  ASSUME NEW rows \in SUBSET Row, IsFiniteSet(rows), NEW o \in Nat, NEW n \in Nat,
         NEW page \in Pages(rows, o, n)
  PROVE  /\ page \in SUBSET rows
         /\ IsFiniteSet(page) /\ Cardinality(page) \in Nat /\ Cardinality(page) <= n
         /\ \E before \in Heads(o, rows) :
              IsFiniteSet(rows \ before) /\ page \in Heads(n, rows \ before)
<1>1. PICK before \in Heads(o, rows) : page \in Heads(n, rows \ before)
  BY DEF Pages
<1>2. IsFiniteSet(rows \ before)
  BY NotLarger
<1>3. page \in SUBSET (rows \ before) /\ IsFiniteSet(page)
      /\ Cardinality(page) \in Nat /\ Cardinality(page) <= n
  BY <1>1, <1>2, HeadsFacts
<1> QED
  BY <1>1, <1>2, <1>3

\* A full page of rows newer than w leaves the next offset within the rows newer than w.
LEMMA PageReach ==
  ASSUME NEW rows \in SUBSET Row, IsFiniteSet(rows), NEW o \in Nat, NEW n \in Nat \ {0},
         NEW page \in Pages(rows, o, n), Cardinality(page) = n,
         NEW w \in Nat, \A row \in page : At(row) > w
  PROVE  o + n <= Cardinality(Above(rows, w))
<1>1. PICK before \in Heads(o, rows) :
        IsFiniteSet(rows \ before) /\ page \in Heads(n, rows \ before)
  BY PageFacts
<1>2. /\ before \in SUBSET rows /\ IsFiniteSet(before)
      /\ Cardinality(before) = o \/ before = rows
      /\ \A x \in before, y \in rows \ before : At(x) >= At(y)
  BY HeadsFacts
<1>3. page \in SUBSET (rows \ before) /\ IsFiniteSet(page)
  BY <1>1, HeadsFacts
<1>4. PICK p \in page : TRUE
  BY FS_EmptySet
<1>5. Cardinality(before) = o
  BY <1>2, <1>3, <1>4
<1>6. before \union page \subseteq Above(rows, w)
  <2>1. ASSUME NEW x \in before PROVE At(x) > w
    <3>1. At(x) >= At(p) /\ At(p) > w
      BY <1>2, <1>3, <1>4
    <3>2. At(x) \in Nat /\ At(p) \in Nat
      BY <1>2, <1>3, <1>4, RowFacts
    <3> QED
      BY <3>1, <3>2
  <2> QED
    BY <1>2, <1>3, <2>1 DEF Above
<1>7. before \intersect page = {}
  BY <1>3
<1>8. Cardinality(before \union page) = o + n
  BY <1>2, <1>3, <1>5, <1>7, FS_Union, FS_EmptySet
<1>9. IsFiniteSet(Above(rows, w))
  BY NotLarger DEF Above
<1>10. Cardinality(before \union page) <= Cardinality(Above(rows, w))
  BY <1>6, <1>9, NotLarger
<1> QED
  BY <1>8, <1>10

\* A row that is not beyond the offset is on the page, or the page is full of rows that are
\* not older.
LEMMA PageDue ==
  ASSUME NEW rows \in SUBSET Row, IsFiniteSet(rows), NEW o \in Nat, NEW n \in Nat,
         NEW page \in Pages(rows, o, n), NEW x \in rows, x \notin page,
         o <= Cardinality(Above(rows, At(x)))
  PROVE  Cardinality(page) = n /\ \A row \in page : At(row) >= At(x)
<1>1. PICK before \in Heads(o, rows) :
        IsFiniteSet(rows \ before) /\ page \in Heads(n, rows \ before)
  BY PageFacts
<1>2. before \subseteq Above(rows, At(x))
  <2>1. ASSUME NEW a \in Above(rows, At(x)), NEW y \in rows, At(y) >= At(a)
        PROVE  y \in Above(rows, At(x))
    <3>1. At(a) \in Nat /\ At(y) \in Nat /\ At(x) \in Nat
      BY RowFacts DEF Above
    <3> QED
      BY <2>1, <3>1 DEF Above
  <2>2. Above(rows, At(x)) \in SUBSET rows
    BY DEF Above
  <2> HIDE DEF Above
  <2> QED
    BY <2>1, <2>2, HeadsNewest
<1>3. x \in rows \ before
  <2>1. At(x) \in Nat
    BY RowFacts
  <2> QED
    BY <1>2, <2>1 DEF Above
<1> QED
  BY <1>1, <1>3, HeadsFacts

-----------------------------------------------------------------------------
(* The export: its inductive invariant *)

Finite ==
  /\ \A t \in Tables : IsFiniteSet(pg[t]) /\ IsFiniteSet(ch[t])
  /\ \A r \in Replicas : IsFiniteSet(buf[r])
  /\ IsFiniteSet(script.todo)

\* A row of PostgreSQL was written, and is not written again; its log has a partition.
Written(row) ==
  IF row.by = "store" THEN stored[row.payload] # "none" ELSE row.payload \in judged
WrittenOnce == \A t \in Tables : \A row \in pg[t] : Written(row)
Partitioned == \A row \in PgLogs : Takes(At(row))

ExportType ==
  [state : {"idle", "running", "done", "broken"}, replica : Replicas \union {"none"},
   table : {"none", "raw_payloads", "risk_events"}, source : {"none", "ch", "pg"},
   out : SUBSET Row, count : 0 .. ExportLimit, kept : SUBSET Row, spoiled : BOOLEAN]

\* What the running export lists now, and what of it the file has still to get.
Listing == Table(export.source, export.table)
Due == Missing(export.kept \intersect Listing, export.out)
FromPgLogs == export.source = "pg" /\ export.table = "raw_payloads"
Running == export.state = "running" /\ ~export.spoiled

Exporting ==
  export.state = "running" =>
    /\ export.replica \in Replicas
    /\ export.table \in {"raw_payloads", "risk_events"} /\ export.source \in {"ch", "pg"}
    /\ export.count < ExportLimit
    /\ export.source = "ch" => link[export.replica] /\ export.kept \subseteq Listing
    /\ FromPgLogs => ~link[export.replica]

\* Rows of PostgreSQL that were dropped do not come back.
Final ==
  Running /\ export.source = "pg" => \A row \in export.kept \union export.out : Written(row)

\* The offset of the next page is not beyond a row the file has still to get.
Behind ==
  Running => \A x \in Due : (FromPgLogs => At(x) # 0) =>
    export.count <= Cardinality(Above(Listing, At(x)))

\* In the logs of PostgreSQL the offset is beyond the rows newer than a time only when the
\* file has an older one, or one that was dropped.
Reached ==
  Running /\ FromPgLogs /\ export.out \subseteq Listing =>
    \A w \in Nat : \/ export.count <= Cardinality(Above(Listing, w))
                   \/ \E row \in export.out : At(row) <= w

EInv ==
  /\ Finite /\ WrittenOnce /\ Partitioned /\ export \in ExportType
  /\ Exporting /\ Final /\ Behind /\ Reached /\ ExportComplete

\* A step that adds rows which were not written before, and leaves the export alone.
Adds ==
  /\ UNCHANGED <<export, link>>
  /\ \A t \in Tables : /\ ch[t] \subseteq ch'[t] /\ pg[t] \subseteq pg'[t]
                       /\ \A row \in pg'[t] \ pg[t] : ~Written(row) /\ Written(row)'
  /\ \A row \in Row : Written(row) => Written(row)'

-----------------------------------------------------------------------------
(* Finite tables *)

\* What is added is finite.
LEMMA AddedFinite ==
  ASSUME NEW db \in Rows, NEW rows \in SUBSET (Tables \X Row), IsFiniteSet(rows),
         \A t \in Tables : IsFiniteSet(db[t])
  PROVE  \A t \in Tables : IsFiniteSet(Added(db, rows)[t])
<1> SUFFICES ASSUME NEW t \in Tables PROVE IsFiniteSet(Added(db, rows)[t])
  OBVIOUS
<1> DEFINE S == {y \in rows : y[1] = t}
           T == {x[2] : x \in S}
           f == [x \in S |-> x[2]]
<1>1. IsFiniteSet(S)
  BY FS_Subset
<1>2. f \in Surjection(S, T)
  BY DEF Surjection
<1>3. IsFiniteSet(T)
  <2> HIDE DEF S, T, f
  <2> QED
    BY <1>1, <1>2, FS_Surjection
<1>4. Added(db, rows)[t] = db[t] \union T
  BY DEF Added
<1>5. IsFiniteSet(db[t])
  OBVIOUS
<1>6. IsFiniteSet(db[t] \union T)
  <2> HIDE DEF T
  <2> QED
    BY <1>3, <1>5, FS_Union
<1> QED
  BY <1>4, <1>6

\* The rows of a payload are finitely many.
LEMMA RowsOfFinite ==
  ASSUME NEW p \in Payloads
  PROVE  IsFiniteSet(RowsOf(p))
<1> DEFINE A == {<<t, Live(p, "store")>> : t \in Tables \ {"risk_events"}}
           B == {<<"risk_events", Live(q, "store")>> : q \in {p} \cap Tampered}
<1>1. A = ({<<"raw_payloads", Live(p, "store")>>} \union {<<"collector_results", Live(p, "store")>>})
            \union {<<"normalized_features", Live(p, "store")>>}
  BY DEF Tables
<1>2. IsFiniteSet(A)
  <2> DEFINE a == <<"raw_payloads", Live(p, "store")>>
             b == <<"collector_results", Live(p, "store")>>
             c == <<"normalized_features", Live(p, "store")>>
  <2>1. A = ({a} \union {b}) \union {c}
    BY <1>1
  <2> HIDE DEF A, a, b, c
  <2>2. IsFiniteSet({a} \union {b})
    BY FS_Singleton, FS_Union
  <2>3. IsFiniteSet({c})
    BY FS_Singleton
  <2> QED
    BY <2>1, <2>2, <2>3, FS_Union
<1>3. IsFiniteSet(B)
  <2>1. IsFiniteSet({<<"risk_events", Live(p, "store")>>})
    BY FS_Singleton
  <2>2. B \in SUBSET {<<"risk_events", Live(p, "store")>>}
    OBVIOUS
  <2> QED
    BY <2>1, <2>2, FS_Subset
<1>4. RowsOf(p) = A \union B
  BY DEF RowsOf
<1>5. IsFiniteSet(A \union B)
  <2> HIDE DEF A, B
  <2> QED
    BY <1>2, <1>3, FS_Union
<1> QED
  BY <1>4, <1>5

\* The tables stay finite.
LEMMA FiniteStep ==
  ASSUME IInv, Finite, [Next]_vars
  PROVE  Finite'
<1>0. /\ pg \in Rows /\ ch \in Rows /\ buf \in [Replicas -> SUBSET (Tables \X Row)]
      /\ script \in ScriptType
  BY DEF IInv, Shape
<1>1. ASSUME NEW r \in Replicas, NEW p \in Payloads, StorePayload(r, p) PROVE Finite'
  <2>1. RowsOf(p) \in SUBSET (Tables \X Row) /\ IsFiniteSet(RowsOf(p))
    BY RowsOfFacts, RowsOfFinite
  <2>2. \A t \in Tables : IsFiniteSet(Added(pg, RowsOf(p))[t])
    BY <1>0, <2>1, AddedFinite DEF Finite
  <2>3. IsFiniteSet(buf[r] \union RowsOf(p))
    BY <2>1, FS_Union DEF Finite
  <2>4. UNCHANGED <<ch, script>> /\ (pg' = pg \/ pg' = Added(pg, RowsOf(p)))
        /\ (buf' = buf \/ buf' = [buf EXCEPT ![r] = @ \union RowsOf(p)])
    BY <1>1 DEF StorePayload, StoreInClickHouse, StoreInPostgres
  <2> QED
    BY <1>0, <2>2, <2>3, <2>4 DEF Finite
<1>2. ASSUME NEW r \in Replicas, NEW p \in Payloads, SaveRiskEvent(r, p) PROVE Finite'
  <2> DEFINE entry == <<"risk_events", Live(p, "analysis")>>
  <2>1. {entry} \in SUBSET (Tables \X Row) /\ IsFiniteSet({entry})
    <3>1. Live(p, "analysis") \in Row /\ "risk_events" \in Tables
      BY LiveFacts DEF Tables
    <3>2. IsFiniteSet({entry})
      BY FS_Singleton
    <3> QED
      BY <3>1, <3>2
  <2>4. UNCHANGED <<ch, script>> /\ (pg' = pg \/ pg' = Added(pg, {entry}))
        /\ (buf' = buf \/ buf' = [buf EXCEPT ![r] = @ \union {entry}])
    BY <1>2 DEF SaveRiskEvent, QueueVerdict, InsertVerdict
  <2> HIDE DEF entry
  <2>2. \A t \in Tables : IsFiniteSet(Added(pg, {entry})[t])
    BY <1>0, <2>1, AddedFinite DEF Finite
  <2>3. IsFiniteSet(buf[r] \union {entry})
    BY <2>1, FS_Union DEF Finite
  <2> QED
    BY <1>0, <2>2, <2>3, <2>4 DEF Finite
<1>3. ASSUME NEW r \in Replicas, Flush(r) PROVE Finite'
  <2>1. PICK lost \in SUBSET buf[r] : ch' = Added(ch, buf[r] \ lost)
    BY <1>3 DEF Flush
  <2>2. buf[r] \ lost \in SUBSET (Tables \X Row) /\ IsFiniteSet(buf[r] \ lost)
    BY <1>0, FS_Subset DEF Finite
  <2>3. \A t \in Tables : IsFiniteSet(ch'[t])
    BY <1>0, <2>1, <2>2, AddedFinite DEF Finite
  <2>4. UNCHANGED <<pg, script>> /\ buf' = [buf EXCEPT ![r] = {}]
    BY <1>3 DEF Flush
  <2> QED
    BY <1>0, <2>3, <2>4, FS_EmptySet DEF Finite
<1>4. ASSUME Retention PROVE Finite'
  <2>1. UNCHANGED <<ch, buf, script>> /\ \A t \in Tables : pg'[t] \in SUBSET pg[t]
    BY <1>4 DEF Retention, Tables, Fresh
  <2> QED
    BY <2>1, FS_Subset DEF Finite
<1>5. ASSUME NEW s, script' = NextTable(s), s = script, UNCHANGED <<pg, ch, buf>> PROVE Finite'
  <2>1. script'.todo = script.todo \/ script'.todo = {}
    BY <1>0, <1>5 DEF NextTable, NoScript, ScriptType
  <2> QED
    BY <1>5, <2>1, FS_EmptySet DEF Finite
<1>6. ASSUME ScriptStart PROVE Finite'
  <2>1. UNCHANGED <<pg, ch, buf>> /\ script'.todo = {}
    BY <1>6 DEF ScriptStart, NoScript
  <2> QED
    BY <2>1, FS_EmptySet DEF Finite
<1>7. ASSUME ScriptOpen PROVE Finite'
  <2>1. UNCHANGED <<pg, ch, buf>> /\ Copied[script.table] \in Tables
    BY <1>0, <1>7 DEF ScriptOpen, ScriptType, Copied, Tables
  <2>2. script'.todo = pg[Copied[script.table]] \/ script' = NextTable(script)
    BY <1>0, <1>7 DEF ScriptOpen, ScriptType
  <2> QED
    BY <1>5, <2>1, <2>2 DEF Finite
<1>8. ASSUME ScriptBatch PROVE Finite'
  <2> DEFINE t == Copied[script.table]
  <2>1. t \in Tables /\ UNCHANGED <<pg, buf>>
    BY <1>0, <1>8 DEF ScriptBatch, ScriptType, Copied, Tables
  <2>2. PICK batch \in SUBSET script.todo :
          /\ script'.todo = script.todo \ batch \/ script'.todo = {}
          /\ ch' = ch \/ ch' = Added(ch, {<<t, Copy(t, row)>> : row \in batch})
    BY <1>0, <1>8 DEF ScriptBatch, kSubset, ScriptType, NoScript
  <2>3. IsFiniteSet(batch) /\ IsFiniteSet(script'.todo)
    BY <2>2, FS_Subset, FS_EmptySet DEF Finite
  <2> DEFINE T == {<<t, Copy(t, row)>> : row \in batch}
             f == [row \in batch |-> <<t, Copy(t, row)>>]
  <2>4. f \in Surjection(batch, T)
    BY DEF Surjection
  <2>5. T \in SUBSET (Tables \X Row)
    BY <1>0, <2>1, <2>2 DEF Copy, Row, ScriptType
  <2>6. IsFiniteSet(T)
    <3> HIDE DEF T, f
    <3> QED
      BY <2>3, <2>4, FS_Surjection
  <2>7. ch' = ch \/ ch' = Added(ch, T)
    BY <2>2
  <2>8. \A u \in Tables : IsFiniteSet(ch'[u])
    <3> HIDE DEF T, f
    <3> QED
      BY <1>0, <2>5, <2>6, <2>7, AddedFinite DEF Finite
  <2> QED
    BY <2>1, <2>3, <2>8 DEF Finite
<1>9. ASSUME UNCHANGED <<pg, ch, buf, script>> PROVE Finite'
  BY <1>9 DEF Finite
<1> QED
  BY <1>1, <1>2, <1>3, <1>4, <1>5, <1>6, <1>7, <1>8, <1>9
     DEF Next, vars, ExportLogs, ExportThreats, ExportStart, ExportPage, ExportQueryFails,
         NextWeek, ScriptTableDone

-----------------------------------------------------------------------------
(* The export: its steps *)

\* What a running export lists is a finite set of rows.
LEMMA ListingFacts ==
  ASSUME IInv, Finite, Exporting, export.state = "running"
  PROVE  /\ Listing \in SUBSET Row /\ IsFiniteSet(Listing)
         /\ export.source = "pg" => Listing = pg[export.table]
         /\ export.source = "ch" => Listing = ch[export.table]
         /\ export.table \in Tables
<1>1. export.table \in Tables /\ export.source \in {"ch", "pg"}
  BY DEF Exporting, Tables
<1> QED
  BY <1>1 DEF Listing, Table, IInv, Shape, Rows, Finite

\* The rows newer than a time are finitely many.
LEMMA AboveFacts ==
  ASSUME NEW rows, IsFiniteSet(rows), NEW more, IsFiniteSet(more), NEW w, NEW v,
         Above(rows, w) \subseteq Above(more, v)
  PROVE  /\ Cardinality(Above(rows, w)) \in Nat /\ Cardinality(Above(more, v)) \in Nat
         /\ Cardinality(Above(rows, w)) <= Cardinality(Above(more, v))
<1>1. IsFiniteSet(Above(more, v))
  BY FS_Subset DEF Above
<1> QED
  BY <1>1, NotLarger

\* Rows added to the listing leave the export where it is.
LEMMA AddsStep ==
  ASSUME IInv, EInv, IInv', Finite', Adds
  PROVE  WrittenOnce' /\ Exporting' /\ Final' /\ Behind' /\ Reached' /\ ExportComplete'
<1>1. export' = export /\ link' = link
  BY DEF Adds
<1>2. WrittenOnce'
  <2> SUFFICES ASSUME NEW t \in Tables, NEW row \in pg'[t] PROVE Written(row)'
    BY DEF WrittenOnce
  <2>1. CASE row \in pg[t]
    BY <2>1 DEF Adds, EInv, WrittenOnce, IInv, Shape, Rows
  <2>2. CASE row \notin pg[t]
    BY <2>2 DEF Adds
  <2> QED
    BY <2>1, <2>2
<1>3. ExportComplete'
  BY <1>1 DEF EInv, ExportComplete
<1>4. CASE export.state = "running"
  <2>1. /\ Listing \in SUBSET Row /\ IsFiniteSet(Listing)
        /\ export.source = "pg" => Listing = pg[export.table]
        /\ export.source = "ch" => Listing = ch[export.table]
        /\ export.table \in Tables /\ export.source \in {"ch", "pg"}
    BY <1>4, ListingFacts DEF EInv, Exporting
  <2>2. /\ export.source = "pg" => Listing' = pg'[export.table]
        /\ export.source = "ch" => Listing' = ch'[export.table]
    BY <1>1, <2>1 DEF Listing, Table
  <2>3. Listing \subseteq Listing'
    BY <2>1, <2>2 DEF Adds
  <2>4. Exporting'
    BY <1>1, <2>3 DEF EInv, Exporting, FromPgLogs
  <2>5. IsFiniteSet(Listing')
    BY <2>1, <2>2 DEF Finite
  <2>6. Final'
    <3>1. export \in ExportType
      BY DEF EInv
    <3> QED
      BY <1>1, <3>1 DEF EInv, Final, Running, Adds, ExportType
  <2>7. ASSUME Running
        PROVE  /\ export.kept \intersect Listing' = export.kept \intersect Listing
               /\ export.out \subseteq Listing' /\ FromPgLogs => export.out \subseteq Listing
    <3>1. CASE export.source = "ch"
      BY <1>4, <2>3, <3>1 DEF EInv, Exporting, FromPgLogs
    <3>2. CASE export.source = "pg"
      <4>1. \A row \in Listing' \ Listing : ~Written(row)
        BY <2>1, <2>2, <3>2 DEF Adds
      <4>2. \A row \in export.kept \union export.out : Written(row)
        BY <2>7, <3>2 DEF EInv, Final
      <4> QED
        BY <2>3, <4>1, <4>2
    <3> QED
      BY <2>1, <3>1, <3>2
  <2>8. \A w : Above(Listing, w) \subseteq Above(Listing', w)
    BY <2>3 DEF Above
  <2>9. \A w : /\ Cardinality(Above(Listing, w)) \in Nat /\ Cardinality(Above(Listing', w)) \in Nat
               /\ Cardinality(Above(Listing, w)) <= Cardinality(Above(Listing', w))
    BY <2>1, <2>5, <2>8, AboveFacts
  <2>10. export.count \in Nat /\ Running' = Running /\ FromPgLogs' = FromPgLogs
    BY <1>1 DEF EInv, ExportType, Running, FromPgLogs
  <2>11. Running => Due' = Due
    BY <1>1, <2>7 DEF Due
  <2>12. Behind'
    <3> SUFFICES ASSUME Running, NEW x \in Due, FromPgLogs => At(x) # 0
                 PROVE  export.count <= Cardinality(Above(Listing', At(x)))
      BY <1>1, <2>10, <2>11 DEF Behind, At
    <3>1. export.count <= Cardinality(Above(Listing, At(x)))
      BY DEF EInv, Behind
    <3> QED
      BY <2>9, <2>10, <3>1
  <2>13. Reached'
    <3> SUFFICES ASSUME Running, FromPgLogs, export.out \subseteq Listing', NEW w \in Nat
                 PROVE  \/ export.count <= Cardinality(Above(Listing', w))
                        \/ \E row \in export.out : At(row) <= w
      BY <1>1, <2>10 DEF Reached, At
    <3>1. \/ export.count <= Cardinality(Above(Listing, w))
          \/ \E row \in export.out : At(row) <= w
      BY <2>7 DEF EInv, Reached
    <3> QED
      BY <2>9, <2>10, <3>1
  <2> QED
    BY <1>2, <1>3, <2>4, <2>6, <2>12, <2>13
<1>5. CASE export.state # "running"
  BY <1>1, <1>2, <1>3, <1>5 DEF Exporting, Final, Behind, Reached, Running
<1> QED
  BY <1>4, <1>5

\* Storing a payload adds rows.
LEMMA StoreAdds ==
  ASSUME IInv, EInv, NEW r \in Replicas, NEW p \in Payloads, StorePayload(r, p)
  PROVE  Adds /\ Partitioned'
<1>1. /\ stored[p] = "none" /\ r # "none" /\ UNCHANGED <<export, link, ch, judged, parts>>
      /\ stored \in [Payloads -> Replicas \union {"none", "refused"}] /\ pg \in Rows
  BY DEF StorePayload, IInv, Shape
<1>2. stored' = [stored EXCEPT ![p] = r] \/ stored' = [stored EXCEPT ![p] = "refused"]
  BY DEF StorePayload, StoreInClickHouse, StoreInPostgres
<1>3. \A row \in Row : Written(row) => Written(row)'
  BY <1>1, <1>2 DEF Written, Row
<1>4. CASE UNCHANGED pg
  BY <1>1, <1>3, <1>4 DEF Adds, EInv, Partitioned, PgLogs, Takes, At
<1>5. CASE pg' = Added(pg, RowsOf(p)) /\ Takes(Week[p])
  <2>1. \A t \in Tables : pg'[t] = pg[t] \union {x[2] : x \in {y \in RowsOf(p) : y[1] = t}}
    BY <1>5 DEF Added
  <2>2. \A x \in RowsOf(p) : x[2] = Live(p, "store")
    BY DEF RowsOf
  <2>3. ASSUME NEW t \in Tables, NEW row \in pg'[t] \ pg[t]
        PROVE  row = Live(p, "store") /\ ~Written(row) /\ Written(row)'
    <3>1. row = Live(p, "store")
      BY <2>1, <2>2, <2>3
    <3>2. row.by = "store" /\ row.payload = p
      BY <3>1 DEF Live
    <3>3. stored'[p] # "none"
      BY <1>1, <1>2
    <3> QED
      BY <1>1, <3>1, <3>2, <3>3 DEF Written
  <2>4. Adds
    BY <1>1, <1>3, <2>1, <2>3 DEF Adds
  <2>5. Partitioned'
    <3> SUFFICES ASSUME NEW row \in pg'["raw_payloads"] PROVE At(row) \in parts \/ At(row) = 0
      BY <1>1 DEF Partitioned, PgLogs, Takes, At
    <3>1. CASE row \in pg["raw_payloads"]
      BY <3>1 DEF EInv, Partitioned, PgLogs, Takes
    <3>2. CASE row \notin pg["raw_payloads"]
      <4>1. row = Live(p, "store")
        BY <2>3, <3>2 DEF Tables
      <4> QED
        BY <1>5, <4>1, LiveFacts DEF Takes
    <3> QED
      BY <3>1, <3>2
  <2> QED
    BY <2>4, <2>5
<1> QED
  BY <1>4, <1>5 DEF StorePayload, StoreInClickHouse, StoreInPostgres

\* Saving a risk event adds a row at most.
LEMMA VerdictAdds ==
  ASSUME IInv, EInv, NEW r \in Replicas, NEW p \in Payloads, SaveRiskEvent(r, p)
  PROVE  Adds /\ Partitioned'
<1> DEFINE row == Live(p, "analysis")
<1>1. p \notin judged /\ UNCHANGED <<export, link, ch, stored, parts>> /\ pg \in Rows
  BY DEF SaveRiskEvent, IInv, Shape
<1>2. CASE UNCHANGED <<pg, judged>>
  BY <1>1, <1>2 DEF Adds, Written, EInv, Partitioned, PgLogs, Takes, At
<1>3. CASE pg' = Added(pg, {<<"risk_events", row>>}) /\ judged' = judged \union {p}
  <2>1. \A t \in Tables :
          pg'[t] = pg[t] \union {x[2] : x \in {y \in {<<"risk_events", row>>} : y[1] = t}}
    BY <1>3 DEF Added
  <2>2. row.by = "analysis" /\ row.payload = p
    BY DEF Live
  <2>3. ~Written(row) /\ Written(row)'
    BY <1>1, <1>3, <2>2 DEF Written
  <2>4. \A e \in Row : Written(e) => Written(e)'
    BY <1>1, <1>3 DEF Written
  <2>5. \A t \in Tables : pg[t] \subseteq pg'[t] /\ \A e \in pg'[t] \ pg[t] : e = row
    <3> HIDE DEF row
    <3> QED
      BY <2>1
  <2>6. Adds
    BY <1>1, <2>3, <2>4, <2>5 DEF Adds
  <2>7. pg'["raw_payloads"] = pg["raw_payloads"]
    <3>1. <<"risk_events", row>>[1] # "raw_payloads"
      OBVIOUS
    <3> HIDE DEF row
    <3>2. {y \in {<<"risk_events", row>>} : y[1] = "raw_payloads"} = {}
      BY <3>1
    <3>3. {x[2] : x \in {y \in {<<"risk_events", row>>} : y[1] = "raw_payloads"}} = {}
      BY <3>2
    <3> QED
      BY <2>1, <3>3 DEF Tables
  <2> QED
    BY <1>1, <2>6, <2>7 DEF EInv, Partitioned, PgLogs, Takes, At
<1> QED
  BY <1>2, <1>3 DEF SaveRiskEvent, InsertVerdict

\* The other steps that leave the export and the retention alone add rows to ClickHouse
\* at most.
LEMMA OtherAdds ==
  ASSUME IInv, EInv,
         (\E r \in Replicas : Flush(r)) \/ NextWeek \/ ScriptStart \/ ScriptOpen \/ ScriptBatch
           \/ ScriptTableDone \/ UNCHANGED vars
  PROVE  Adds /\ Partitioned'
<1>0. pg \in Rows /\ ch \in Rows /\ buf \in [Replicas -> SUBSET (Tables \X Row)]
  BY DEF IInv, Shape
<1>1. UNCHANGED <<export, link, pg, stored, judged, parts>>
  BY DEF Flush, NextWeek, ScriptStart, ScriptOpen, ScriptBatch, ScriptTableDone, vars
<1>2. ch' = ch \/ \E rows : ch' = Added(ch, rows)
  BY DEF Flush, NextWeek, ScriptStart, ScriptOpen, ScriptBatch, ScriptTableDone, vars
<1>3. \A t \in Tables : ch[t] \subseteq ch'[t]
  BY <1>0, <1>2 DEF Added
<1> QED
  BY <1>1, <1>3 DEF Adds, Written, EInv, Partitioned, PgLogs, Takes, At

\* What retention drops is older than what it leaves, but for the logs it never drops: the
\* rows the file still has to get are not nearer to the start of the listing than before.
LEMMA RetentionLeaves ==
  ASSUME IInv, EInv, Retention
  PROVE  /\ WrittenOnce' /\ Partitioned' /\ Exporting' /\ Final' /\ Behind' /\ Reached'
         /\ ExportComplete'
<1>1. /\ UNCHANGED <<link, ch, week, stored, judged, export>> /\ week \in Nat
      /\ parts' = (parts \ Droppable) \union NewPartitions
      /\ pg'["raw_payloads"] = {row \in pg["raw_payloads"] : At(row) \notin Droppable}
      /\ pg'["collector_results"] = {row \in pg["collector_results"] : At(row) \notin Droppable}
      /\ pg'["risk_events"] = Fresh(pg["risk_events"], Keep)
      /\ pg'["normalized_features"] = Fresh(pg["normalized_features"], KeepFeatures)
      /\ pg \in Rows
  BY DEF Retention, IInv, Shape
<1>2. \A t \in Tables : pg'[t] \subseteq pg[t]
  BY <1>1 DEF Tables, Fresh
<1>3. WrittenOnce'
  BY <1>1, <1>2 DEF EInv, WrittenOnce, Written
<1>4. Partitioned'
  BY <1>1 DEF EInv, Partitioned, PgLogs, Takes, At
<1>5. ExportComplete'
  BY <1>1 DEF EInv, ExportComplete
<1>6. Final'
  BY <1>1 DEF EInv, Final, Running, Written
<1>7. CASE export.state # "running"
  BY <1>1, <1>3, <1>4, <1>5, <1>6, <1>7 DEF Exporting, Behind, Reached, Running
<1>8. CASE export.state = "running"
  <2>1. /\ Listing \in SUBSET Row /\ IsFiniteSet(Listing)
        /\ export.source = "pg" => Listing = pg[export.table]
        /\ export.source = "ch" => Listing = ch[export.table]
        /\ export.table \in {"raw_payloads", "risk_events"} /\ export.source \in {"ch", "pg"}
        /\ export.count \in Nat
    BY <1>8, ListingFacts DEF EInv, Exporting, ExportType
  <2>2. /\ export.source = "pg" => Listing' = pg'[export.table]
        /\ export.source = "ch" => Listing' = Listing
    BY <1>1, <2>1 DEF Listing, Table
  <2>3. Exporting'
    BY <1>1, <1>8, <2>1, <2>2 DEF EInv, Exporting, FromPgLogs
  <2>4. CASE export.source = "ch"
    <3>1. Listing' = Listing /\ export' = export /\ ~FromPgLogs
      BY <1>1, <2>2, <2>4 DEF FromPgLogs
    <3>2. Behind'
      BY <3>1 DEF EInv, Behind, Due, Running, FromPgLogs, At
    <3>3. Reached'
      BY <3>1 DEF Reached, FromPgLogs
    <3> QED
      BY <1>3, <1>4, <1>5, <1>6, <2>3, <3>2, <3>3
  <2>5. CASE export.source = "pg"
    <3> DEFINE drop(w) == IF export.table = "raw_payloads" THEN w \in Droppable
                                                           ELSE ~ (w >= week - Keep)
    <3>1. Listing' = {row \in Listing : ~drop(At(row))}
      BY <1>1, <2>1, <2>2, <2>5 DEF Fresh
    <3>2. IsFiniteSet(Listing') /\ Listing' \subseteq Listing
      BY <2>1, <3>1, FS_Subset
    <3>3. Due' \subseteq Due
      <4> SUFFICES ASSUME NEW x \in Due' PROVE x \in Due
        OBVIOUS
      <4>1. /\ x \in (export.kept \intersect Listing') \ export.out
            /\ \A y \in ((export.kept \intersect Listing') \union export.out) \ {x} : At(y) # At(x)
        BY <1>1 DEF Due, Missing, At
      <4>2. ASSUME NEW y \in ((export.kept \intersect Listing) \union export.out) \ {x}, At(y) = At(x)
            PROVE  FALSE
        BY <3>1, <4>1, <4>2
      <4> QED
        BY <3>2, <4>1, <4>2 DEF Due, Missing
    <3>4. ASSUME NEW x \in Listing', FromPgLogs => At(x) # 0
          PROVE  Above(Listing, At(x)) \subseteq Above(Listing', At(x))
      <4> SUFFICES ASSUME NEW y \in Listing, At(y) > At(x) PROVE ~drop(At(y))
        BY <3>1 DEF Above
      <4>1. At(x) \in Nat /\ At(y) \in Nat /\ ~drop(At(x))
        BY <2>1, <3>1, <3>2, RowFacts
      <4>2. CASE export.table = "raw_payloads"
        <5>1. At(x) \in parts
          BY <2>1, <2>5, <3>2, <3>4, <4>2 DEF EInv, Partitioned, PgLogs, Takes, FromPgLogs
        <5> QED
          BY <1>1, <4>1, <4>2, <5>1 DEF Droppable
      <4>3. CASE export.table # "raw_payloads"
        BY <1>1, <4>1, <4>3
      <4> QED
        BY <4>2, <4>3
    <3>5. Behind'
      <4> SUFFICES ASSUME Running, NEW x \in Due', FromPgLogs => At(x) # 0
                   PROVE  export.count <= Cardinality(Above(Listing', At(x)))
        BY <1>1 DEF Behind, Running, FromPgLogs, At
      <4>1. export.count <= Cardinality(Above(Listing, At(x)))
        BY <3>3 DEF EInv, Behind
      <4>2. x \in Listing'
        BY <1>1 DEF Due, Missing
      <4>3. /\ Cardinality(Above(Listing, At(x))) \in Nat /\ Cardinality(Above(Listing', At(x))) \in Nat
            /\ Cardinality(Above(Listing, At(x))) <= Cardinality(Above(Listing', At(x)))
        <5>1. Above(Listing, At(x)) \subseteq Above(Listing', At(x))
          BY <3>4, <4>2
        <5> QED
          BY <2>1, <3>2, <5>1, AboveFacts
      <4> QED
        BY <2>1, <4>1, <4>3
    <3>6. Reached'
      <4> SUFFICES ASSUME Running, FromPgLogs, export.out \subseteq Listing', NEW w \in Nat
                   PROVE  \/ export.count <= Cardinality(Above(Listing', w))
                          \/ \E row \in export.out : At(row) <= w
        BY <1>1 DEF Reached, Running, FromPgLogs, At
      <4> DEFINE e == week - Keep - 2
                 m == IF w < e THEN e ELSE w
      <4>1. /\ m \in Nat /\ w <= m /\ (m = w \/ m = e)
            /\ \A v \in Nat : v > m => v \notin Droppable
            /\ \A v \in Nat : v <= e => v \in Droppable \/ v \notin parts
        BY <1>1 DEF Droppable
      <4> HIDE DEF e, m
      <4>2. \/ export.count <= Cardinality(Above(Listing, m))
            \/ \E row \in export.out : At(row) <= m
        BY <3>2, <4>1 DEF EInv, Reached
      <4>3. ASSUME export.count <= Cardinality(Above(Listing, m))
            PROVE  export.count <= Cardinality(Above(Listing', w))
        <5>1. Above(Listing, m) \subseteq Above(Listing', w)
          <6> SUFFICES ASSUME NEW y \in Listing, At(y) > m PROVE y \in Listing' /\ At(y) > w
            BY DEF Above
          <6>1. At(y) \in Nat
            BY <2>1, RowFacts
          <6>2. export.table = "raw_payloads"
            BY DEF FromPgLogs
          <6> QED
            BY <3>1, <4>1, <6>1, <6>2
        <5>2. /\ Cardinality(Above(Listing, m)) \in Nat /\ Cardinality(Above(Listing', w)) \in Nat
              /\ Cardinality(Above(Listing, m)) <= Cardinality(Above(Listing', w))
          BY <2>1, <3>2, <5>1, AboveFacts
        <5> QED
          BY <2>1, <4>3, <5>2
      <4>4. ASSUME NEW row \in export.out, At(row) <= m
            PROVE  At(row) <= w
        <5>1. row \in Listing' /\ row \in Listing /\ At(row) \in Nat
          BY <2>1, <3>2, RowFacts
        <5>2. At(row) \notin Droppable /\ (At(row) \in parts \/ At(row) = 0)
          BY <2>1, <2>5, <3>1, <5>1 DEF FromPgLogs, EInv, Partitioned, PgLogs, Takes
        <5> QED
          BY <4>1, <4>4, <5>1, <5>2
      <4> QED
        BY <4>2, <4>3, <4>4
    <3> QED
      BY <1>3, <1>4, <1>5, <1>6, <2>3, <3>5, <3>6
  <2> QED
    BY <2>1, <2>4, <2>5
<1> QED
  BY <1>7, <1>8

\* An export starts with nothing in the file.
LEMMA ExportStarts ==
  ASSUME IInv, EInv, NEW r \in Replicas, NEW t \in {"raw_payloads", "risk_events"},
         ExportStart(r, t)
  PROVE  /\ export' \in ExportType
         /\ Exporting' /\ Final' /\ Behind' /\ Reached' /\ ExportComplete'
<1>1. /\ UNCHANGED <<pg, ch, link, stored, judged>> /\ pg \in Rows /\ ch \in Rows
      /\ export' = [state |-> "running", replica |-> r, table |-> t, source |-> Source(r, t),
                    out |-> {}, count |-> 0, kept |-> Table(Source(r, t), t), spoiled |-> FALSE]
  BY DEF ExportStart, NoExport, IInv, Shape
<1>2. Source(r, t) \in {"ch", "pg"} /\ t \in Tables
      /\ (Source(r, t) = "ch" => link[r]) /\ (Source(r, t) = "pg" /\ t = "raw_payloads" => ~link[r])
  BY DEF Source, Tables
<1>3. Table(Source(r, t), t) \in SUBSET Row
      /\ (Source(r, t) = "pg" => Table(Source(r, t), t) = pg[t])
  BY <1>1, <1>2 DEF Table, Rows
<1>4. export' \in ExportType
  BY <1>1, <1>2, <1>3 DEF ExportType
<1>5. Listing' = Table(Source(r, t), t)
  BY <1>1 DEF Listing, Table
<1>6. Exporting'
  BY <1>1, <1>2, <1>5 DEF Exporting, FromPgLogs
<1>7. Final'
  BY <1>1, <1>2, <1>3 DEF Final, Running, EInv, WrittenOnce, Written
<1>8. IsFiniteSet(Listing')
  BY <1>1, <1>2, <1>5 DEF Table, EInv, Finite
<1>9. \A w : 0 <= Cardinality(Above(Listing', w))
  <2> SUFFICES ASSUME NEW w PROVE 0 <= Cardinality(Above(Listing', w))
    OBVIOUS
  <2>1. IsFiniteSet(Above(Listing', w))
    BY <1>8, FS_Subset DEF Above
  <2>2. Cardinality(Above(Listing', w)) \in Nat
    BY <2>1, FS_CardinalityType
  <2> QED
    BY <2>2
<1>10. Behind' /\ Reached'
  BY <1>1, <1>9 DEF Behind, Reached, At
<1> QED
  BY <1>1, <1>4, <1>6, <1>7, <1>10 DEF ExportComplete

\* A page takes the export on: if it is not the last, no row is skipped, and if it is, every
\* row is in the file.
LEMMA PageStep ==
  ASSUME IInv, EInv, export.state = "running", UNCHANGED <<pg, ch, link, stored, judged>>,
         NEW from \in {"ch", "pg"}, NEW spoiled \in BOOLEAN,
         NEW n \in Nat \ {0}, n = Smaller(PageSize, ExportLimit - export.count),
         NEW page \in Pages(Table(from, export.table), export.count, n),
         Paged(page, n, spoiled),
         \/ spoiled
         \/ from = export.source
         \/ /\ export.source = "ch" /\ export.table = "risk_events"
            /\ Cardinality(ChRisks) <= export.count
  PROVE  /\ export' \in ExportType
         /\ Exporting' /\ Final' /\ Behind' /\ Reached' /\ ExportComplete'
<1> DEFINE size == Cardinality(page)
           total == export.count + size
           out == export.out \union page
           kept == export.kept \intersect Listing
<1>1. /\ export \in ExportType /\ export.table \in {"raw_payloads", "risk_events"}
      /\ export.source \in {"ch", "pg"} /\ export.replica \in Replicas
      /\ export.count \in Nat /\ export.count < ExportLimit
      /\ Listing \in SUBSET Row /\ IsFiniteSet(Listing)
      /\ pg \in Rows /\ ch \in Rows
  BY ListingFacts DEF EInv, Exporting, ExportType, IInv, Shape
<1>2. Table(from, export.table) \in SUBSET Row /\ IsFiniteSet(Table(from, export.table))
  BY <1>1 DEF Table, Rows, EInv, Finite, Tables
<1>3. page \in SUBSET Table(from, export.table) /\ size \in Nat /\ size <= n
  BY <1>1, <1>2, PageFacts
<1>4. n <= ExportLimit - export.count
  <2>1. PageSize \in Int /\ ExportLimit - export.count \in Int
    BY <1>1
  <2> QED
    BY <2>1, SmallerFacts
<1>5. /\ total \in 0 .. ExportLimit /\ total \in Nat
      /\ out \in SUBSET Row /\ kept \in SUBSET Row /\ kept \subseteq export.kept
  BY <1>1, <1>2, <1>3, <1>4 DEF ExportType
<1>6. ASSUME NEW x \in Missing(kept, out)
      PROVE  /\ x \in Due /\ x \in Listing /\ x \notin export.out /\ x \notin page
             /\ At(x) \in Nat
             /\ \A y \in export.out \union page : At(y) # At(x)
  <2>1. /\ x \in Due /\ x \in Listing /\ x \notin export.out /\ x \notin page
        /\ \A y \in export.out \union page : At(y) # At(x)
    BY <1>6 DEF Due, Missing
  <2>2. At(x) \in Nat
    BY <1>1, <2>1, RowFacts
  <2> QED
    BY <2>1, <2>2
<1>7. ASSUME Running, NEW x \in Missing(kept, out), x \in Due,
             export.count <= Cardinality(Above(Listing, At(x)))
      PROVE  from = export.source \/ spoiled
  <2> SUFFICES ASSUME export.source = "ch", export.table = "risk_events",
                      Cardinality(ChRisks) <= export.count
               PROVE  FALSE
    OBVIOUS
  <2>1. Listing = ChRisks
    BY DEF Listing, Table, ChRisks
  <2>2. x \in Listing /\ x \notin Above(Listing, At(x)) /\ Above(Listing, At(x)) \in SUBSET Listing
    <3>1. x \in Listing /\ At(x) \in Nat
      BY <1>6, <1>7
    <3>2. ~ (At(x) > At(x))
      BY <3>1
    <3> QED
      BY <3>1, <3>2 DEF Above
  <2>3. /\ Cardinality(Above(Listing, At(x))) \in Nat /\ Cardinality(Listing) \in Nat
        /\ Cardinality(Above(Listing, At(x))) < Cardinality(Listing)
    BY <1>1, <2>2, StrictSubset
  <2> QED
    BY <1>1, <1>7, <2>1, <2>3
<1>8. ASSUME Running, ~spoiled, NEW x \in Missing(kept, out), x \in Due,
             export.count <= Cardinality(Above(Listing, At(x)))
      PROVE  size = n /\ \A row \in page : At(row) > At(x)
  <2>1. from = export.source /\ page \in Pages(Listing, export.count, n)
    BY <1>7, <1>8 DEF Listing
  <2>2. x \in Listing /\ x \notin page
    BY <1>6, <1>8
  <2>3. size = n /\ \A row \in page : At(row) >= At(x)
    BY <1>1, <1>8, <2>1, <2>2, PageDue
  <2>4. page \in SUBSET Row
    BY <1>2, <1>3
  <2>5. At(x) \in Nat /\ \A row \in page : At(row) \in Nat /\ At(row) # At(x)
    BY <1>6, <1>8, <2>4, RowFacts
  <2> QED
    BY <2>3, <2>5
<1>9. ASSUME Running, NEW x \in Due, FromPgLogs => At(x) # 0
      PROVE  export.count <= Cardinality(Above(Listing, At(x)))
  BY <1>9 DEF EInv, Behind
<1>10. CASE ~Ends(size, n, total)
  <2>1. /\ export' = [export EXCEPT !.out = out, !.count = total, !.kept = kept,
                                   !.spoiled = @ \/ spoiled]
        /\ size >= n /\ total < ExportLimit
    BY <1>1, <1>3, <1>5, <1>10 DEF Paged, Ends, Listing
  <2>2. /\ export'.state = "running" /\ export'.replica = export.replica
        /\ export'.table = export.table /\ export'.source = export.source
        /\ export'.out = out /\ export'.count = total /\ export'.kept = kept
        /\ export'.spoiled = (export.spoiled \/ spoiled)
        /\ size = n
    BY <1>1, <1>3, <2>1 DEF ExportType
  <2>3. export' \in ExportType
    BY <1>1, <1>5, <2>1 DEF ExportType
  <2> HIDE DEF out, kept, total
  <2>4. Listing' = Listing /\ FromPgLogs' = FromPgLogs /\ (Running' => Running /\ ~spoiled)
    BY <2>2 DEF Listing, Table, FromPgLogs, Running
  <2>5. Exporting'
    BY <1>1, <1>5, <2>1, <2>2, <2>4 DEF EInv, Exporting
  <2>6. Final'
    <3> SUFFICES ASSUME Running', export.source = "pg", NEW row \in kept \union out
                 PROVE  Written(row)
      BY <2>2 DEF Final, Written
    <3>1. CASE row \in page
      <4>1. from = "pg"
        BY <2>4
      <4>2. row \in pg[export.table] /\ export.table \in Tables
        BY <1>1, <1>3, <3>1, <4>1 DEF Table, Tables
      <4> QED
        BY <4>2 DEF EInv, WrittenOnce
    <3>2. CASE row \in export.kept \union export.out
      BY <2>4, <3>2 DEF EInv, Final
    <3> QED
      BY <1>5, <3>1, <3>2 DEF out
  <2>7. Due' \subseteq Missing(kept, out)
    <3>1. kept \intersect Listing = kept
      BY DEF kept
    <3> QED
      BY <2>2, <2>4, <3>1 DEF Due, Missing, At
  <2>8. ASSUME Running', from = export.source, NEW w \in Nat, \A row \in page : At(row) > w
        PROVE  total <= Cardinality(Above(Listing, w))
    <3>1. page \in Pages(Listing, export.count, n)
      BY <2>8 DEF Listing
    <3> QED
      BY <1>1, <2>2, <2>8, <3>1, PageReach DEF total
  <2>9. Behind'
    <3> SUFFICES ASSUME Running', NEW x \in Due', FromPgLogs => At(x) # 0
                 PROVE  total <= Cardinality(Above(Listing, At(x)))
      BY <2>2, <2>4 DEF Behind, At
    <3>1. x \in Missing(kept, out) /\ x \in Due /\ At(x) \in Nat /\ Running /\ ~spoiled
      BY <1>6, <2>4, <2>7
    <3>2. export.count <= Cardinality(Above(Listing, At(x)))
      BY <1>9, <3>1
    <3> QED
      BY <1>7, <1>8, <2>8, <3>1, <3>2
  <2>10. Reached'
    <3> SUFFICES ASSUME Running', FromPgLogs, NEW w \in Nat, \A row \in out : ~ (At(row) <= w)
                 PROVE  total <= Cardinality(Above(Listing, w))
      BY <2>2, <2>4 DEF Reached, At
    <3>1. \A row \in page : At(row) > w
      <4>1. \A row \in page : At(row) \in Nat
        BY <1>2, <1>3, RowFacts
      <4> QED
        BY <4>1 DEF out
    <3>2. from = export.source
      BY <2>4 DEF FromPgLogs
    <3> QED
      BY <2>8, <3>1, <3>2
  <2>11. ExportComplete'
    BY <2>2 DEF ExportComplete
  <2> QED
    BY <2>3, <2>5, <2>6, <2>9, <2>10, <2>11
<1>11. CASE Ends(size, n, total)
  <2> DEFINE left == {row \in Missing(kept, out) : ~Overtaken(row, out)}
  <2>1. export' = [state |-> "done", replica |-> "none", table |-> "none", source |-> "none",
                   out |-> {}, count |-> total, kept |-> left, spoiled |-> export.spoiled \/ spoiled]
    BY <1>11 DEF Paged, NoExport, Listing
  <2>2. left \in SUBSET Row
    BY <1>5 DEF Missing
  <2>3. export' \in ExportType
    BY <1>1, <1>5, <2>1, <2>2 DEF ExportType
  <2>4. Exporting' /\ Final' /\ Behind' /\ Reached'
    BY <2>1 DEF Exporting, Final, Behind, Reached, Running
  <2>5. ASSUME ~export.spoiled, ~spoiled, total < ExportLimit, NEW x \in left PROVE FALSE
    <3>1. size < n /\ Running
      BY <1>1, <1>3, <1>5, <1>11, <2>5 DEF Ends, Running
    <3>2. x \in Missing(kept, out) /\ x \in Due /\ x \notin export.out
          /\ \A y \in export.out \union page : At(y) # At(x)
      BY <1>6
    <3>3. export.count <= Cardinality(Above(Listing, At(x)))
      <4>1. CASE FromPgLogs => At(x) # 0
        BY <1>9, <3>1, <3>2, <4>1
      <4>2. CASE FromPgLogs /\ At(x) = 0
        <5>1. out \subseteq Listing
          BY <4>2 DEF Overtaken, FromPgLogs, Listing, Table, PgLogs
        <5>2. \/ export.count <= Cardinality(Above(Listing, 0))
              \/ \E row \in export.out : At(row) <= 0
          BY <3>1, <4>2, <5>1 DEF EInv, Reached
        <5>3. \A row \in export.out : At(row) \in Nat
          BY <1>1, RowFacts DEF ExportType
        <5> QED
          BY <3>2, <4>2, <5>2, <5>3
      <4> QED
        BY <4>1, <4>2
    <3>4. size = n
      BY <1>8, <2>5, <3>1, <3>2, <3>3
    <3> QED
      BY <1>3, <3>1, <3>4
  <2>6. ExportComplete'
    <3> HIDE DEF left, total
    <3> QED
      BY <2>1, <2>5 DEF ExportComplete
  <2> QED
    BY <2>3, <2>4, <2>6
<1> QED
  BY <1>10, <1>11

\* The size of the next page.
LEMMA PageSizeFacts ==
  ASSUME EInv, export.state = "running"
  PROVE  Smaller(PageSize, ExportLimit - export.count) \in Nat \ {0}
<1>1. /\ PageSize \in Nat \ {0} /\ ExportLimit - export.count \in Nat \ {0}
  BY DEF EInv, Exporting, ExportType
<1> QED
  BY <1>1 DEF Smaller

\* A page takes the export on.
LEMMA ExportPageStep ==
  ASSUME IInv, EInv, ExportPage
  PROVE  /\ export' \in ExportType
         /\ Exporting' /\ Final' /\ Behind' /\ Reached' /\ ExportComplete'
<1> DEFINE n == Smaller(PageSize, ExportLimit - export.count)
           from == PageSource(export.replica, export.table, export.count)
           spoiled == export.source = "pg" /\ from = "ch"
<1>1. export.state = "running" /\ UNCHANGED <<pg, ch, link, stored, judged>>
  BY DEF ExportPage
<1>2. PICK page \in Pages(Table(from, export.table), export.count, n) : Paged(page, n, spoiled)
  BY DEF ExportPage
<1>3. n \in Nat \ {0}
  BY <1>1, PageSizeFacts
<1>4. from \in {"ch", "pg"} /\ spoiled \in BOOLEAN
  BY DEF PageSource
<1>5. /\ export.source \in {"ch", "pg"} /\ export.table \in {"raw_payloads", "risk_events"}
      /\ export.source = "ch" => link[export.replica]
      /\ export.count \in Nat
  BY <1>1 DEF EInv, Exporting, ExportType
<1>6. Cardinality(ChRisks) \in Nat
  BY FS_CardinalityType DEF EInv, Finite, ChRisks, Tables
<1>7. ASSUME export.source = "ch", from = "pg"
      PROVE  export.table = "risk_events" /\ Cardinality(ChRisks) <= export.count
  BY <1>5, <1>6, <1>7 DEF PageSource
<1>8. \/ spoiled
      \/ from = export.source
      \/ /\ export.source = "ch" /\ export.table = "risk_events"
         /\ Cardinality(ChRisks) <= export.count
  BY <1>4, <1>5, <1>7
<1> HIDE DEF n, from, spoiled
<1>9. n = Smaller(PageSize, ExportLimit - export.count)
  BY DEF n
<1> QED
  BY <1>1, <1>2, <1>3, <1>4, <1>8, <1>9, PageStep

\* A failed query spoils the export.
LEMMA ExportQueryFailsStep ==
  ASSUME IInv, EInv, ExportQueryFails
  PROVE  /\ export' \in ExportType
         /\ Exporting' /\ Final' /\ Behind' /\ Reached' /\ ExportComplete'
<1> DEFINE n == Smaller(PageSize, ExportLimit - export.count)
<1>1. export.state = "running" /\ UNCHANGED <<pg, ch, link, stored, judged>>
  BY DEF ExportQueryFails
<1>2. n \in Nat \ {0}
  BY <1>1, PageSizeFacts
<1>3. CASE export.table = "risk_events" /\ \E page \in Pages(PgRisks, export.count, n) : Paged(page, n, TRUE)
  <2>1. PICK page \in Pages(Table("pg", export.table), export.count, n) : Paged(page, n, TRUE)
    BY <1>3 DEF Table, PgRisks
  <2> HIDE DEF n
  <2>2. n = Smaller(PageSize, ExportLimit - export.count)
    BY DEF n
  <2> QED
    BY <1>1, <1>2, <2>1, <2>2, PageStep
<1>4. CASE \E s \in {"done", "broken"} : export' = [NoExport EXCEPT !.spoiled = TRUE, !.state = s]
  <2>1. PICK s \in {"done", "broken"} :
          export' = [state |-> s, replica |-> "none", table |-> "none", source |-> "none",
                     out |-> {}, count |-> 0, kept |-> {}, spoiled |-> TRUE]
    BY <1>4 DEF NoExport
  <2> QED
    BY <2>1 DEF ExportType, Exporting, Final, Behind, Reached, Running, ExportComplete
<1> QED
  BY <1>3, <1>4 DEF ExportQueryFails

\* The invariant of the export holds at first.
LEMMA ExportInit == Init => EInv
<1> SUFFICES ASSUME Init PROVE EInv
  OBVIOUS
<1>1. Finite
  BY FS_EmptySet DEF Init, NoScript, Finite
<1>2. export \in ExportType
  BY DEF Init, NoExport, ExportType
<1> QED
  BY <1>1, <1>2 DEF Init, EInv, WrittenOnce, Partitioned, PgLogs, Tables, NoExport, Exporting,
                    Final, Behind, Reached, Running, ExportComplete

\* Every step preserves the invariant of the export.
LEMMA ExportStep == IInv /\ EInv /\ [Next]_vars => EInv'
<1> SUFFICES ASSUME IInv, EInv, [Next]_vars PROVE EInv'
  OBVIOUS
<1>1. Finite' /\ IInv'
  BY FiniteStep, StepInv DEF EInv
<1>2. ASSUME Adds, Partitioned' PROVE EInv'
  <2>1. export' \in ExportType
    BY <1>2 DEF EInv, Adds
  <2> QED
    BY <1>1, <1>2, <2>1, AddsStep DEF EInv
<1>3. CASE \E r \in Replicas : \E p \in Payloads : StorePayload(r, p) \/ SaveRiskEvent(r, p)
  BY <1>2, <1>3, StoreAdds, VerdictAdds
<1>4. CASE \/ \E r \in Replicas : Flush(r)
           \/ NextWeek \/ ScriptStart \/ ScriptOpen \/ ScriptBatch \/ ScriptTableDone
           \/ UNCHANGED vars
  BY <1>2, <1>4, OtherAdds
<1>5. CASE Retention
  <2>1. export' \in ExportType
    BY <1>5 DEF EInv, Retention
  <2> QED
    BY <1>1, <1>5, <2>1, RetentionLeaves DEF EInv
<1>6. ASSUME UNCHANGED <<pg, stored, judged, parts>> PROVE WrittenOnce' /\ Partitioned'
  BY <1>6 DEF EInv, WrittenOnce, Written, Partitioned, PgLogs, Takes, At
<1>7. CASE \E r \in Replicas : ExportLogs(r) \/ ExportThreats(r)
  <2>1. PICK r \in Replicas, t \in {"raw_payloads", "risk_events"} : ExportStart(r, t)
    BY <1>7 DEF ExportLogs, ExportThreats
  <2>2. UNCHANGED <<pg, stored, judged, parts>>
    BY <2>1 DEF ExportStart
  <2> QED
    BY <1>1, <1>6, <2>1, <2>2, ExportStarts DEF EInv
<1>8. CASE ExportPage
  BY <1>1, <1>6, <1>8, ExportPageStep DEF EInv, ExportPage
<1>9. CASE ExportQueryFails
  BY <1>1, <1>6, <1>9, ExportQueryFailsStep DEF EInv, ExportQueryFails
<1> QED
  BY <1>3, <1>4, <1>5, <1>7, <1>8, <1>9 DEF Next

\* The invariant of the export.
THEOREM ExportInductive == Spec => []EInv
<1>1. IInv /\ EInv /\ [Next]_vars => EInv'
  BY ExportStep
<1> QED
  BY <1>1, ExportInit, Inductive, PTL DEF Spec

\* The jobs that page through a table while others write to it and drop from it lose
\* nothing between two pages: an export by offsets whose order changes under it (export),
\* a copy by batches (migrate_pg_to_clickhouse).
THEOREM JobsLoseNothing == Spec => []JobsComplete
<1>1. EInv => ExportComplete
  BY DEF EInv
<1> QED
  BY <1>1, ExportInductive, CopyMissesNothing, PTL DEF JobsComplete

-----------------------------------------------------------------------------
(* The dashboard *)

\* Finitely many rows have a newest one.
LEMMA NewestExists ==
  ASSUME NEW rows \in SUBSET Row, IsFiniteSet(rows), rows # {}
  PROVE  \E e \in rows : \A x \in rows : At(x) <= At(e)
<1> DEFINE R == {ss \in Nat \X Nat : ss[1] < ss[2]}
           size(e) == Cardinality(Above(rows, At(e)))
           S == {size(e) : e \in rows}
<1>1. IsWellFoundedOn(R, Nat)
  BY NatLessThanWellFounded, Zenon DEF OpToRel
<1>2. \A e \in rows : IsFiniteSet(Above(rows, At(e))) /\ size(e) \in Nat
  BY FS_Subset, FS_CardinalityType DEF Above
<1>3. S \subseteq Nat /\ S # {}
  BY <1>2
<1>4. PICK n \in S : \A m \in S : ~ (<<m, n>> \in R)
  <2> HIDE DEF R, S
  <2> QED
    BY <1>1, <1>3, WFMin, Zenon
<1>5. PICK e \in rows : n = size(e)
  OBVIOUS
<1>6. \A x \in rows : ~ (size(x) < size(e))
  BY <1>2, <1>4, <1>5
<1>7. ASSUME NEW x \in rows, ~ (At(x) <= At(e)) PROVE FALSE
  <2>1. At(x) \in Nat /\ At(e) \in Nat /\ At(x) > At(e)
    BY <1>7, RowFacts
  <2>2. Above(rows, At(x)) \in SUBSET Above(rows, At(e))
    <3>1. \A y \in rows : At(y) \in Nat
      BY RowFacts
    <3> QED
      BY <2>1, <3>1 DEF Above
  <2>3. x \in Above(rows, At(e)) /\ x \notin Above(rows, At(x))
    BY <2>1 DEF Above
  <2>4. size(x) < size(e)
    BY <1>2, <2>2, <2>3, StrictSubset
  <2> QED
    BY <1>6, <2>4
<1> QED
  BY <1>7

\* A user whose newest events, with what is not older, fit on the page of the dashboard is
\* counted under the level of one of them.
LEMMA NewestOnPage ==
  ASSUME NEW rows \in SUBSET Row, IsFiniteSet(rows), NEW u,
         NEW mine, mine = OfUser(rows, u), mine # {},
         NEW newest, newest = {e \in mine : \A x \in mine : At(x) <= At(e)},
         NEW others, others = {e \in rows : \E x \in newest : At(e) >= At(x)},
         Cardinality(others) <= DashLimit,
         NEW h \in Heads(DashLimit, rows)
  PROVE  /\ OfUser(h, u) # {}
         /\ {x \in OfUser(h, u) : \A y \in OfUser(h, u) : At(x) >= At(y)} \subseteq newest
<1>1. mine \in SUBSET rows /\ IsFiniteSet(mine) /\ \A x \in rows : At(x) \in Nat
  BY RowFacts, FS_Subset DEF OfUser
<1>2. PICK top \in mine : \A x \in mine : At(x) <= At(top)
  BY <1>1, NewestExists
<1>3. top \in newest /\ top \in others
  BY <1>1, <1>2
<1>4. ASSUME NEW a \in others, NEW y \in rows, At(y) >= At(a) PROVE y \in others
  <2>1. PICK x \in newest : At(a) >= At(x)
    OBVIOUS
  <2>2. At(y) \in Nat /\ At(a) \in Nat /\ At(x) \in Nat
    BY <1>1
  <2>3. At(y) >= At(x)
    BY <1>4, <2>1, <2>2
  <2> QED
    BY <2>1, <2>3
<1>5. others \in SUBSET rows /\ DashLimit \in Nat
  OBVIOUS
<1>6. others \subseteq h
  BY <1>4, <1>5, HeadsNewest
<1>7. h \in SUBSET rows
  BY <1>5, HeadsFacts
<1>8. top \in OfUser(h, u)
  BY <1>3, <1>6, <1>7 DEF OfUser
<1>9. ASSUME NEW x \in OfUser(h, u), \A y \in OfUser(h, u) : At(x) >= At(y) PROVE x \in newest
  <2>1. x \in mine /\ At(x) >= At(top)
    BY <1>7, <1>8, <1>9 DEF OfUser
  <2>2. \A y \in mine : At(y) <= At(x)
    BY <1>1, <1>2, <2>1
  <2> QED
    BY <2>1, <2>2
<1> QED
  BY <1>8, <1>9

\* The invariants imply that the dashboard is current.
LEMMA InvDashboard == IInv /\ EInv => DashboardIsCurrent
<1> SUFFICES ASSUME IInv, EInv, NEW p \in Payloads, NEW r \in Replicas
             PROVE  LET mine == OfUser(ListRisks(r), Owner[p])
                        newest == {e \in mine : \A x \in mine : At(x) <= At(e)}
                        others == {e \in ListRisks(r) : \E x \in newest : At(e) >= At(x)}
                    IN /\ mine # {} /\ Cardinality(others) <= DashLimit =>
                            DashboardLevels(r, Owner[p]) \subseteq {Score(e) : e \in newest}
                       /\ Stats(r, "risk_events") = Cardinality(ListRisks(r))
                       /\ Stats(r, "raw_payloads") = Cardinality(ListLogs(r))
                            \/ (link[r] /\ ListLogs(r) = {})
  BY DEF DashboardIsCurrent
<1> DEFINE u == Owner[p]
           rows == ListRisks(r)
           mine == OfUser(rows, u)
           newest == {e \in mine : \A x \in mine : At(x) <= At(e)}
           others == {e \in rows : \E x \in newest : At(e) >= At(x)}
<1>1. /\ \A t \in Tables : IsFiniteSet(pg[t]) /\ IsFiniteSet(ch[t])
      /\ pg \in Rows /\ ch \in Rows
  BY DEF EInv, Finite, IInv, Shape
<1>2. rows \in SUBSET Row /\ IsFiniteSet(rows)
  BY <1>1 DEF ListRisks, ChRisks, PgRisks, Tables, Rows
<1>3. ASSUME mine # {}, Cardinality(others) <= DashLimit, NEW level \in DashboardLevels(r, u)
      PROVE  level \in {Score(e) : e \in newest}
  <2>1. PICK h \in Heads(DashLimit, rows) :
          level \in (IF OfUser(h, u) = {} THEN {0}
                    ELSE {Score(e) : e \in {x \in OfUser(h, u) :
                                             \A y \in OfUser(h, u) : At(x) >= At(y)}})
    BY <1>3 DEF DashboardLevels
  <2> HIDE DEF rows, u
  <2>2. /\ OfUser(h, u) # {}
        /\ {x \in OfUser(h, u) : \A y \in OfUser(h, u) : At(x) >= At(y)} \subseteq newest
    <3> DEFINE M == mine  N == newest  O == others
    <3>1. /\ M = OfUser(rows, u) /\ M # {} /\ N = {e \in M : \A x \in M : At(x) <= At(e)}
          /\ O = {e \in rows : \E x \in N : At(e) >= At(x)} /\ Cardinality(O) <= DashLimit
      BY <1>3
    <3> HIDE DEF M, N, O
    <3>2. /\ OfUser(h, u) # {}
          /\ {x \in OfUser(h, u) : \A y \in OfUser(h, u) : At(x) >= At(y)} \subseteq N
      BY <1>2, <3>1, NewestOnPage
    <3> QED
      BY <3>2 DEF N
  <2> HIDE DEF newest
  <2> QED
    BY <2>1, <2>2
<1>4. \A t \in Tables : ChCount(t) > 0 <=> ch[t] # {}
  <2> SUFFICES ASSUME NEW t \in Tables PROVE ChCount(t) > 0 <=> ch[t] # {}
    OBVIOUS
  <2>1. Cardinality(ch[t]) \in Nat /\ (Cardinality(ch[t]) = 0 <=> ch[t] = {})
    BY <1>1, FS_CardinalityType, FS_EmptySet
  <2> QED
    BY <2>1 DEF ChCount
<1>5. Stats(r, "risk_events") = Cardinality(ListRisks(r))
  BY <1>4 DEF Stats, ListRisks, ChRisks, PgRisks, ChCount, PgCount, Tables
<1>6. Stats(r, "raw_payloads") = Cardinality(ListLogs(r)) \/ (link[r] /\ ListLogs(r) = {})
  BY <1>4 DEF Stats, ListLogs, ChLogs, PgLogs, ChCount, PgCount, Tables
<1> QED
  BY <1>3, <1>5, <1>6

\* The dashboard counts a user under the level of the newest event unless newer ones of
\* others fill its page, and its totals are the sizes of the listings (dashboard).
THEOREM DashboardCounts == Spec => []DashboardIsCurrent
BY Inductive, ExportInductive, InvDashboard, PTL

-----------------------------------------------------------------------------
(* Types *)

Bounds ==
  /\ week \in 1 .. MaxWeek /\ parts \subseteq 1 .. MaxWeek + Ahead
  /\ faults \in 0 .. MaxFaults

\* The clock, the partitions and the faults stay in their bounds.
LEMMA BoundsStep == Bounds /\ [Next]_vars => Bounds'
<1> SUFFICES ASSUME Bounds, [Next]_vars PROVE Bounds'
  OBVIOUS
<1>1. ASSUME UNCHANGED <<week, parts>>, faults' = faults \/ (faults < MaxFaults /\ faults' = faults + 1)
      PROVE  Bounds'
  BY <1>1 DEF Bounds
<1>2. ASSUME NEW r \in Replicas, NEW p \in Payloads, StorePayload(r, p) \/ SaveRiskEvent(r, p)
      PROVE  Bounds'
  BY <1>1, <1>2 DEF StorePayload, SaveRiskEvent, InsertVerdict
<1>3. ASSUME NEW r \in Replicas, Flush(r) PROVE Bounds'
  <2>1. PICK failing \in {{}} \union {{t} : t \in Tables} :
          /\ faults + Cardinality(failing) <= MaxFaults
          /\ faults' = faults + Cardinality(failing)
    BY <1>3 DEF Flush
  <2>2. Cardinality(failing) \in {0, 1}
    BY FS_EmptySet, FS_Singleton
  <2> QED
    BY <1>3, <2>1, <2>2 DEF Flush, Bounds
<1>4. ASSUME Retention PROVE Bounds'
  <2>1. parts' = (parts \ Droppable) \union NewPartitions /\ UNCHANGED <<week, faults>>
    BY <1>4 DEF Retention
  <2>2. NewPartitions \subseteq 1 .. MaxWeek + Ahead
    BY DEF NewPartitions, Bounds
  <2> QED
    BY <2>1, <2>2 DEF Bounds
<1>5. ASSUME NextWeek PROVE Bounds'
  BY <1>5 DEF NextWeek, Bounds
<1>6. ASSUME (\E r \in Replicas : ExportLogs(r) \/ ExportThreats(r)) \/ ExportPage \/ ExportQueryFails
      PROVE  Bounds'
  BY <1>1, <1>6 DEF ExportLogs, ExportThreats, ExportStart, ExportPage, ExportQueryFails
<1>7. ASSUME ScriptStart \/ ScriptOpen \/ ScriptBatch \/ ScriptTableDone PROVE Bounds'
  BY <1>1, <1>7 DEF ScriptStart, ScriptOpen, ScriptBatch, ScriptTableDone
<1>8. CASE UNCHANGED vars
  BY <1>1, <1>8 DEF vars
<1> QED
  BY <1>2, <1>3, <1>4, <1>5, <1>6, <1>7, <1>8 DEF Next

\* Every variable keeps its type (HybridStorage, retention_cleanup, the export and the
\* script).
THEOREM TypeCorrect == Spec => []TypeOK
<1>1. Init => Bounds
  BY DEF Init, Bounds
<1>2. IInv /\ EInv /\ Bounds => TypeOK
  BY DEF IInv, Shape, EInv, ExportType, Bounds, TypeOK, ScriptType, Copied
<1> QED
  BY <1>1, <1>2, Inductive, ExportInductive, BoundsStep, PTL DEF Spec

=============================================================================
