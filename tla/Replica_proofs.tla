---------------------------- MODULE Replica_proofs ----------------------------
(***************************************************************************)
(* Proofs about what server processes do beside the telemetry, one module  *)
(* after the other: for any processes, files and faults the schema is      *)
(* migrated in order and without loss (Migrations); for any workers, sizes *)
(* and faults the events reach the dashboard (EventStream); for any        *)
(* replicas and times no cached answer is too old (ApiCache).              *)
(***************************************************************************)
EXTENDS Migrations, EventStream, ApiCache, WellFoundedInduction, SequenceTheorems, TLAPS

-----------------------------------------------------------------------------
(* Migrations                                                              *)

USE MigrationAssumption

\* A set of natural numbers that is not empty has a least one, which Min chooses.
LEMMA LeastOne ==
  ASSUME NEW S, S \subseteq Nat, S # {}
  PROVE  Min(S) \in S /\ \A y \in S : Min(S) <= y
<1> DEFINE R == {ss \in Nat \X Nat : ss[1] < ss[2]}
<1>1. IsWellFoundedOn(R, Nat)
  BY NatLessThanWellFounded, Zenon DEF OpToRel
<1> HIDE DEF R
<1>2. PICK x \in S : \A y \in S : ~ (<<y, x>> \in R)
  BY <1>1, WFMin, Zenon
<1>3. \A y \in S : ~ (y < x)
  BY <1>2 DEF R
<1>4. \A y \in S : x <= y
  BY <1>3
<1> QED
  BY <1>4 DEF Min

-----------------------------------------------------------------------------
(* The inductive invariant *)

Upto(f) == 1 .. f - 1
Working == {"run", "rename", "record"}
SchemaSteps == {"down", "prepare", "read", "up"} \cup Working

SchemaType ==
  /\ ledger \in BOOLEAN
  /\ process \in [Processes -> [step : SchemaSteps, file : 0 .. Files, seen : SUBSET (1 .. Files)]]
  /\ applied \subseteq 1 .. Files
  /\ holder \in Processes \cup {"nobody"}
  /\ copied \in Nat /\ table \in Nat /\ stored \in Nat /\ schemaFaults \in Nat

\* A process works on a file only when all those before it are recorded, and what it read
\* from the ledger stays true.
Ordered ==
  /\ recorded \subseteq applied
  /\ \A f \in applied : Upto(f) \subseteq recorded
  /\ \A p \in Processes :
       /\ process[p].seen \subseteq recorded
       /\ process[p].step \in Working =>
            process[p].file \in 1 .. Files /\ Upto(process[p].file) \subseteq recorded
       /\ process[p].step = "record" => process[p].file \in applied
       /\ process[p].step = "rename" => process[p].file = Swap

\* The copy is that of the table, as long as the swap holds it.
Swapped ==
  /\ table = stored
  /\ \A p \in Processes : process[p].step = "rename" <=> holder = p
  /\ holder # "nobody" => copied = table

Complete == \A f \in 1 .. Files : (\A g \in 1 .. f : g \notin Broken) => f \in recorded

\* Without a fault, somebody records what is applied, and somebody is at the front.
Foremost(p) == process[p].step \in Working /\ process[p].file \notin recorded
Led ==
  schemaFaults = 0 =>
    /\ ~ledger => \A p \in Processes : process[p].step \in {"down", "prepare"}
    /\ \A f \in applied \ recorded :
         \E p \in Processes : process[p].step = "record" /\ process[p].file = f
    /\ ledger => Complete \/ \E p \in Processes : process[p].step = "read" \/ Foremost(p)

SchemaInv == SchemaType /\ Ordered /\ Swapped /\ Led

\* The invariant holds at first.
LEMMA SchemaInit == MigrationInit => SchemaInv
<1> SUFFICES ASSUME MigrationInit PROVE SchemaInv
  OBVIOUS
<1>1. \A p \in Processes : process[p] = [step |-> "down", file |-> 0, seen |-> {}]
  BY DEF MigrationInit, Down
<1>2. SchemaType
  <2>1. Down \in [step : SchemaSteps, file : 0 .. Files, seen : SUBSET (1 .. Files)]
    BY DEF Down, SchemaSteps
  <2> QED
    BY <2>1 DEF MigrationInit, SchemaType
<1>3. Ordered /\ Swapped /\ Led
  BY <1>1 DEF MigrationInit, Ordered, Swapped, Led, Working
<1> QED
  BY <1>2, <1>3 DEF SchemaInv

\* The next file: what lies before it is recorded, and without one everything is.
LEMMA FollowingFacts ==
  ASSUME NEW after \in 0 .. Files, NEW seen \in SUBSET (1 .. Files), NEW known,
         seen \subseteq known, 1 .. after \subseteq known
  PROVE  LET next == Following(after, seen) IN
         /\ next \in [step : {"up", "run"}, file : 0 .. Files, seen : SUBSET (1 .. Files)]
         /\ next.seen \subseteq known
         /\ next.step = "run" => next.file \in 1 .. Files /\ Upto(next.file) \subseteq known
         /\ next.step = "run" => next.file > after /\ next.file \notin seen
         /\ next.step = "up" => 1 .. Files \subseteq known
<1> DEFINE left == {f \in after + 1 .. Files : f \notin seen}
<1>0. Files \in Nat /\ after \in Nat
  OBVIOUS
<1>1. CASE left = {}
  <2>1. Following(after, seen) = [step |-> "up", file |-> 0, seen |-> {}]
    BY <1>1 DEF Following, Up, Down
  <2>2. \A f \in 1 .. Files : f \in known
    BY <1>0, <1>1
  <2> QED
    BY <2>1, <2>2
<1>2. CASE left # {}
  <2>1. Following(after, seen) = [step |-> "run", file |-> Min(left), seen |-> seen]
    BY <1>2 DEF Following
  <2>2. left \subseteq Nat
    BY <1>0
  <2>3. Min(left) \in left /\ \A y \in left : Min(left) <= y
    BY <1>2, <2>2, LeastOne
  <2> HIDE DEF left
  <2>4. Min(left) \in 1 .. Files /\ Min(left) > after /\ Min(left) \notin seen
    BY <1>0, <2>3 DEF left
  <2>5. \A f \in 1 .. Min(left) - 1 : f \in known
    <3> SUFFICES ASSUME NEW f \in 1 .. Min(left) - 1 PROVE f \in known
      OBVIOUS
    <3>1. f \in 1 .. Files /\ f \notin left
      BY <1>0, <2>3, <2>4
    <3> QED
      BY <1>0, <3>1 DEF left
  <2> QED
    BY <2>1, <2>4, <2>5 DEF Upto
<1> QED
  BY <1>1, <1>2

-----------------------------------------------------------------------------
(* The steps *)

Record3 == [step : SchemaSteps, file : 0 .. Files, seen : SUBSET (1 .. Files)]

\* A step of a process that keeps its file.
LEMMA StepFacts ==
  ASSUME SchemaType, NEW p \in Processes, NEW step \in SchemaSteps, Step(p, step)
  PROVE  Becomes(p, [step |-> step, file |-> process[p].file, seen |-> process[p].seen])
<1>1. process[p] \in Record3
  BY DEF SchemaType, Record3
<1>2. [process[p] EXCEPT !.step = step]
        = [step |-> step, file |-> process[p].file, seen |-> process[p].seen]
  BY <1>1 DEF Record3
<1> QED
  BY <1>2 DEF Step, Becomes

\* What becomes of a process leaves the others as they are.
LEMMA BecomesFacts ==
  ASSUME SchemaType, NEW p \in Processes, NEW next \in Record3, Becomes(p, next)
  PROVE  /\ process' \in [Processes -> Record3] /\ process'[p] = next
         /\ \A q \in Processes : q # p => process'[q] = process[q]
BY DEF SchemaType, Becomes, Record3

\* A process that gives up or dies while it holds no table, or whose swap is rolled back.
Resting == [step : {"up", "down"}, file : {0}, seen : {{}}]

\* The places where a process runs no migration.
LEMMA RestingType == Resting \subseteq Record3 /\ Up \in Resting /\ Down \in Resting
BY DEF Resting, Record3, SchemaSteps, Up, Down

\* Whatever a process becomes that works on no file keeps the order.
LEMMA OrderedKept ==
  ASSUME SchemaType, Ordered, NEW p \in Processes, NEW next \in Record3, Becomes(p, next),
         UNCHANGED <<recorded, applied>>,
         next.seen \subseteq recorded,
         next.step \in Working => next.file \in 1 .. Files /\ Upto(next.file) \subseteq recorded,
         next.step = "record" => next.file \in applied,
         next.step = "rename" => next.file = Swap
  PROVE  Ordered'
<1>1. process'[p] = next /\ \A q \in Processes : q # p => process'[q] = process[q]
  BY BecomesFacts
<1> QED
  BY <1>1 DEF Ordered

\* A step of one process that leaves the tables alone leaves the swap sound.
LEMMA SwappedKept ==
  ASSUME SchemaType, Swapped, NEW p \in Processes, NEW next \in Record3, Becomes(p, next),
         UNCHANGED <<rows, holder>>, process[p].step # "rename", next.step # "rename"
  PROVE  Swapped'
<1>1. process'[p] = next /\ \A q \in Processes : q # p => process'[q] = process[q]
  BY BecomesFacts
<1> QED
  BY <1>1 DEF Swapped, rows

\* A process that is not at the front, and records nothing that others count on.
LEMMA LedKept ==
  ASSUME SchemaType, Led, NEW p \in Processes, NEW next \in Record3, Becomes(p, next),
         UNCHANGED <<ledger, recorded, applied, schemaFaults>>,
         ledger,
         process[p].step = "record" => process[p].file \in recorded,
         process[p].step # "read" /\ ~Foremost(p)
  PROVE  Led'
<1>1. process'[p] = next /\ \A q \in Processes : q # p => process'[q] = process[q]
  BY BecomesFacts
<1> QED
  BY <1>1 DEF Led, Foremost, Complete

\* Every step preserves the invariant.
LEMMA SchemaStep == SchemaInv /\ [MigrationNext]_migrationVars => SchemaInv'
<1> SUFFICES ASSUME SchemaInv, [MigrationNext]_migrationVars PROVE SchemaInv'
  OBVIOUS
<1>0. SchemaType /\ Ordered /\ Swapped /\ Led
  BY DEF SchemaInv
<1>t. \A p \in Processes : process[p] \in Record3
  BY <1>0 DEF SchemaType, Record3
<1>u. Up \in Record3 /\ Down \in Record3
  BY RestingType
<1>1. ASSUME NEW p \in Processes, Boot(p) PROVE SchemaInv'
  <2> DEFINE next == [step |-> IF ledger THEN "read" ELSE "prepare",
                      file |-> process[p].file, seen |-> process[p].seen]
  <2>1. next \in Record3 /\ Becomes(p, next)
    BY <1>0, <1>1, <1>t, StepFacts DEF Boot, Record3, SchemaSteps
  <2>2. process[p].step = "down" /\ UNCHANGED <<ledger, recorded, applied, holder, rows, schemaFaults>>
    BY <1>1 DEF Boot
  <2>3. process'[p] = next /\ \A q \in Processes : q # p => process'[q] = process[q]
    BY <1>0, <2>1, BecomesFacts
  <2>4. SchemaType'
    BY <1>0, <2>1, <2>2, BecomesFacts DEF SchemaType, Record3, rows
  <2>5. Ordered'
    BY <1>0, <2>1, <2>2, OrderedKept DEF Working, Ordered
  <2>6. Swapped'
    BY <1>0, <2>1, <2>2, SwappedKept
  <2>7. Led'
    BY <1>0, <2>2, <2>3 DEF Led, Foremost, Working, Complete
  <2> QED
    BY <2>4, <2>5, <2>6, <2>7 DEF SchemaInv
<1>2. ASSUME NEW p \in Processes, Prepare(p) PROVE SchemaInv'
  <2>1. PICK next \in Record3 :
          /\ Becomes(p, next) /\ next.seen \subseteq process[p].seen
          /\ next.step = "read" \/ (next.step = "up" /\ ledger)
    <3>1. CASE Step(p, "read")
      <4> DEFINE read == [step |-> "read", file |-> process[p].file, seen |-> process[p].seen]
      <4>1. read \in Record3
        BY <1>t DEF Record3, SchemaSteps
      <4>2. Becomes(p, read)
        BY <1>0, <3>1, StepFacts DEF SchemaSteps
      <4> QED
        BY <4>1, <4>2
    <3>2. CASE ledger /\ GivesUp(p)
      BY <1>u, <3>2 DEF GivesUp, Up, Down
    <3> QED
      BY <1>2, <3>1, <3>2 DEF Prepare
  <2>2. process[p].step = "prepare" /\ ledger' = TRUE
        /\ UNCHANGED <<recorded, applied, holder, rows, schemaFaults>>
    BY <1>2 DEF Prepare
  <2>3. process'[p] = next /\ \A q \in Processes : q # p => process'[q] = process[q]
    BY <1>0, <2>1, BecomesFacts
  <2>4. SchemaType'
    BY <1>0, <2>1, <2>2, BecomesFacts DEF SchemaType, Record3, rows
  <2>5. Ordered'
    BY <1>0, <2>1, <2>2, OrderedKept DEF Working, Ordered
  <2>6. Swapped'
    BY <1>0, <2>1, <2>2, SwappedKept
  <2>7. Led'
    BY <1>0, <2>1, <2>2, <2>3 DEF Led, Foremost, Working, Complete
  <2> QED
    BY <2>4, <2>5, <2>6, <2>7 DEF SchemaInv
<1>3. ASSUME NEW p \in Processes, ReadLedger(p) PROVE SchemaInv'
  <2>1. PICK seen \in {recorded, {}} :
          /\ Becomes(p, Following(0, seen))
          /\ (seen = recorded /\ UNCHANGED schemaFaults) \/ schemaFaults' = schemaFaults + 1
    BY <1>3 DEF ReadLedger
  <2> DEFINE next == Following(0, seen)
  <2>2. process[p].step = "read" /\ UNCHANGED <<ledger, recorded, applied, holder, rows>>
    BY <1>3 DEF ReadLedger
  <2>3. seen \in SUBSET (1 .. Files) /\ seen \subseteq recorded
    BY <1>0, <2>1 DEF SchemaType, Ordered
  <2>4. /\ next \in [step : {"up", "run"}, file : 0 .. Files, seen : SUBSET (1 .. Files)]
        /\ next.seen \subseteq recorded
        /\ next.step = "run" => next.file \in 1 .. Files /\ Upto(next.file) \subseteq recorded
        /\ next.step = "run" => next.file \notin seen
        /\ next.step = "up" => 1 .. Files \subseteq recorded
    <3>1. 0 \in 0 .. Files /\ 1 .. 0 \subseteq recorded
      OBVIOUS
    <3> QED
      BY <2>3, <3>1, FollowingFacts
  <2> HIDE DEF next
  <2>5. next \in Record3 /\ next.step \in {"up", "run"}
    BY <2>4 DEF Record3, SchemaSteps, Working
  <2>6. Becomes(p, next)
    BY <2>1 DEF next
  <2>7. process'[p] = next /\ \A q \in Processes : q # p => process'[q] = process[q]
    BY <1>0, <2>5, <2>6, BecomesFacts
  <2>8. SchemaType'
    BY <1>0, <2>1, <2>2, <2>5, <2>6, BecomesFacts DEF SchemaType, Record3, rows
  <2>9. Ordered'
    BY <1>0, <2>2, <2>4, <2>5, <2>6, OrderedKept DEF Working
  <2>10. Swapped'
    BY <1>0, <2>2, <2>5, <2>6, SwappedKept
  <2>11. ASSUME schemaFaults' = 0
         PROVE  Led'
    <3>1. schemaFaults = 0 /\ seen = recorded
      BY <1>0, <2>1, <2>11 DEF SchemaType
    <3>2. Complete \/ Foremost(p)'
      BY <2>2, <2>4, <2>5, <2>7, <3>1 DEF Complete, Foremost, Working
    <3> QED
      BY <1>0, <2>2, <2>7, <3>1, <3>2 DEF Led, Foremost, Complete, Working
  <2> QED
    BY <2>8, <2>9, <2>10, <2>11 DEF SchemaInv, Led
<1>4. ASSUME NEW p \in Processes, RunFile(p) PROVE SchemaInv'
  <2> DEFINE f == process[p].file
  <2>1. /\ process[p].step = "run" /\ f # Swap
        /\ UNCHANGED <<ledger, recorded, holder, rows, schemaFaults>>
    BY <1>4 DEF RunFile
  <2>2. f \in 1 .. Files /\ Upto(f) \subseteq recorded /\ process[p].seen \subseteq recorded
    BY <1>0, <2>1 DEF Ordered, Working
  <2>l. ledger \/ schemaFaults # 0
    BY <1>0, <2>1 DEF Led
  <2>3. CASE applied' = applied \cup {f} /\ Step(p, "record")
    <3> DEFINE next == [step |-> "record", file |-> f, seen |-> process[p].seen]
    <3>1. next \in Record3 /\ Becomes(p, next)
      BY <1>0, <1>t, <2>3, StepFacts DEF Record3, SchemaSteps, Working
    <3>2. process'[p] = next /\ \A q \in Processes : q # p => process'[q] = process[q]
      BY <1>0, <3>1, BecomesFacts
    <3>3. SchemaType'
      BY <1>0, <2>1, <2>2, <2>3, <3>1, BecomesFacts DEF SchemaType, Record3, rows
    <3>4. Ordered'
      BY <1>0, <2>1, <2>2, <2>3, <3>2 DEF Ordered, Working
    <3>5. Swapped'
      BY <1>0, <2>1, <3>1, SwappedKept
    <3>6. Led'
      BY <1>0, <2>1, <2>2, <2>3, <3>2 DEF Led, Foremost, Complete, Working
    <3> QED
      BY <3>3, <3>4, <3>5, <3>6 DEF SchemaInv
  <2>4. CASE f \in Broken \cup applied /\ GivesUp(p) /\ UNCHANGED applied
    <3>1. Becomes(p, Up) /\ Up.step = "up" /\ Up.seen = {}
      BY <2>4 DEF GivesUp, Up, Down
    <3>2. process'[p] = Up /\ \A q \in Processes : q # p => process'[q] = process[q]
      BY <1>0, <1>u, <3>1, BecomesFacts
    <3>3. SchemaType'
      BY <1>0, <1>u, <2>1, <2>4, <3>1, BecomesFacts DEF SchemaType, Record3, rows
    <3>4. Ordered'
      BY <1>0, <1>u, <2>1, <2>4, <3>1, OrderedKept DEF Working
    <3>5. Swapped'
      BY <1>0, <1>u, <2>1, <3>1, SwappedKept
    <3>6. ASSUME schemaFaults = 0, f \notin recorded
          PROVE  Complete \/ \E q \in Processes : q # p /\ Foremost(q)
      <4>1. CASE f \in Broken
        <5>1. \A g \in 1 .. Files : (\A h \in 1 .. g : h \notin Broken) => g < f
          BY <2>2, <4>1
        <5> QED
          BY <2>2, <5>1 DEF Complete, Upto
      <4>2. CASE f \in applied
        <5>1. PICK q \in Processes : process[q].step = "record" /\ process[q].file = f
          BY <1>0, <3>6, <4>2 DEF Led
        <5> QED
          BY <2>1, <3>6, <5>1 DEF Foremost, Working
      <4> QED
        BY <2>4, <4>1, <4>2
    <3>7. ASSUME schemaFaults = 0
          PROVE  Complete \/ \E q \in Processes : q # p /\ (process[q].step = "read" \/ Foremost(q))
      BY <1>0, <2>1, <2>l, <3>6, <3>7 DEF Led, Foremost
    <3>8. Led'
      BY <1>0, <2>1, <2>4, <2>l, <3>1, <3>2, <3>7 DEF Led, Foremost, Complete
    <3> QED
      BY <3>3, <3>4, <3>5, <3>8 DEF SchemaInv
  <2> QED
    BY <1>4, <2>3, <2>4 DEF RunFile
<1>5. ASSUME NEW p \in Processes, StartSwap(p) PROVE SchemaInv'
  <2>1. /\ process[p].step = "run" /\ process[p].file = Swap /\ holder = "nobody"
        /\ UNCHANGED <<ledger, recorded, applied, table, stored, schemaFaults>>
    BY <1>5 DEF StartSwap
  <2>2. Upto(Swap) \subseteq recorded /\ process[p].seen \subseteq recorded
    BY <1>0, <2>1 DEF Ordered, Working
  <2>3. CASE Swap \in applied /\ GivesUp(p) /\ UNCHANGED <<holder, copied>>
    <3>1. Becomes(p, Up) /\ Up.step = "up" /\ Up.seen = {}
      BY <2>3 DEF GivesUp, Up, Down
    <3>2. process'[p] = Up /\ \A q \in Processes : q # p => process'[q] = process[q]
      BY <1>0, <1>u, <3>1, BecomesFacts
    <3>3. SchemaType'
      BY <1>0, <1>u, <2>1, <2>3, <3>1, BecomesFacts DEF SchemaType, Record3
    <3>4. Ordered'
      BY <1>0, <1>u, <2>1, <3>1, OrderedKept DEF Working
    <3>5. Swapped'
      BY <1>0, <1>u, <2>1, <2>3, <3>1, SwappedKept DEF rows
    <3>6. schemaFaults = 0 /\ Swap \notin recorded => \E q \in Processes : q # p /\ Foremost(q)
      BY <1>0, <2>1, <2>3 DEF Led, Foremost, Working
    <3>7. Led'
      BY <1>0, <2>1, <3>1, <3>2, <3>6 DEF Led, Foremost, Complete
    <3> QED
      BY <3>3, <3>4, <3>5, <3>7 DEF SchemaInv
  <2>4. CASE Swap \notin applied /\ Step(p, "rename") /\ holder' = p /\ copied' = table
    <3> DEFINE next == [step |-> "rename", file |-> Swap, seen |-> process[p].seen]
    <3>1. next \in Record3 /\ Becomes(p, next)
      BY <1>0, <1>t, <2>1, <2>4, StepFacts DEF Record3, SchemaSteps, Working
    <3>2. process'[p] = next /\ \A q \in Processes : q # p => process'[q] = process[q]
      BY <1>0, <3>1, BecomesFacts
    <3>3. SchemaType'
      BY <1>0, <2>1, <2>4, <3>1, BecomesFacts DEF SchemaType, Record3
    <3>4. Ordered'
      BY <1>0, <2>1, <2>2, <3>1, OrderedKept DEF Working
    <3>5. Swapped'
      BY <1>0, <2>1, <2>4, <3>2 DEF Swapped
    <3>6. Led'
      BY <1>0, <2>1, <3>2 DEF Led, Foremost, Complete, Working
    <3> QED
      BY <3>3, <3>4, <3>5, <3>6 DEF SchemaInv
  <2> QED
    BY <1>5, <2>3, <2>4 DEF StartSwap
<1>6. ASSUME NEW p \in Processes, Rename(p) PROVE SchemaInv'
  <2>1. /\ process[p].step = "rename" /\ process[p].file = Swap /\ holder = p /\ copied = table
        /\ table' = copied /\ applied' = applied \cup {Swap} /\ holder' = "nobody"
        /\ Step(p, "record") /\ UNCHANGED <<ledger, recorded, copied, stored, schemaFaults>>
    BY <1>0, <1>6 DEF Rename, Ordered, Swapped
  <2>2. Upto(Swap) \subseteq recorded /\ process[p].seen \subseteq recorded /\ Swap \in 1 .. Files
    BY <1>0, <2>1 DEF Ordered, Working
  <2> DEFINE next == [step |-> "record", file |-> Swap, seen |-> process[p].seen]
  <2>3. next \in Record3 /\ Becomes(p, next)
    BY <1>0, <1>t, <2>1, StepFacts DEF Record3, SchemaSteps, Working
  <2>4. process'[p] = next /\ \A q \in Processes : q # p => process'[q] = process[q]
    BY <1>0, <2>3, BecomesFacts
  <2>5. SchemaType'
    BY <1>0, <2>1, <2>2, <2>3, BecomesFacts DEF SchemaType, Record3
  <2>6. Ordered'
    BY <1>0, <2>1, <2>2, <2>4 DEF Ordered, Working
  <2>7. Swapped'
    BY <1>0, <2>1, <2>4 DEF Swapped
  <2>8. Led'
    BY <1>0, <2>1, <2>4 DEF Led, Foremost, Complete, Working
  <2> QED
    BY <2>5, <2>6, <2>7, <2>8 DEF SchemaInv
<1>7. ASSUME NEW p \in Processes, Record(p) PROVE SchemaInv'
  <2> DEFINE f == process[p].file
  <2>1. /\ process[p].step = "record" /\ UNCHANGED <<ledger, applied, holder, rows, schemaFaults>>
    BY <1>7 DEF Record
  <2>2. /\ f \in 1 .. Files /\ Upto(f) \subseteq recorded /\ f \in applied
        /\ process[p].seen \subseteq recorded /\ process[p].seen \in SUBSET (1 .. Files)
    BY <1>0, <1>t, <2>1 DEF Ordered, Working, Record3
  <2>l. ledger \/ schemaFaults # 0
    BY <1>0, <2>1 DEF Led
  <2>3. CASE f \in recorded /\ GivesUp(p) /\ UNCHANGED recorded
    <3>1. Becomes(p, Up) /\ Up.step = "up" /\ Up.seen = {}
      BY <2>3 DEF GivesUp, Up, Down
    <3>2. SchemaType'
      BY <1>0, <1>u, <2>1, <2>3, <3>1, BecomesFacts DEF SchemaType, Record3, rows
    <3>3. Ordered'
      BY <1>0, <1>u, <2>1, <2>3, <3>1, OrderedKept DEF Working
    <3>4. Swapped'
      BY <1>0, <1>u, <2>1, <3>1, SwappedKept
    <3>5. Led'
      <4>1. CASE ledger
        BY <1>0, <1>u, <2>1, <2>3, <3>1, <4>1, LedKept DEF Foremost
      <4>2. CASE schemaFaults # 0
        BY <2>1, <4>2 DEF Led
      <4> QED
        BY <2>l, <4>1, <4>2
    <3> QED
      BY <3>2, <3>3, <3>4, <3>5 DEF SchemaInv
  <2>4. CASE f \notin recorded /\ recorded' = recorded \cup {f}
             /\ Becomes(p, Following(f, process[p].seen))
    <3> DEFINE next == Following(f, process[p].seen)
    <3>1. f \in 0 .. Files /\ process[p].seen \subseteq recorded' /\ 1 .. f \subseteq recorded'
      <4>1. \A g \in 1 .. f : g = f \/ g \in 1 .. f - 1
        BY <2>2
      <4> QED
        BY <2>2, <2>4, <4>1 DEF Upto
    <3>2. /\ next \in [step : {"up", "run"}, file : 0 .. Files, seen : SUBSET (1 .. Files)]
          /\ next.seen \subseteq recorded'
          /\ next.step = "run" => next.file \in 1 .. Files /\ Upto(next.file) \subseteq recorded'
          /\ next.step = "run" => next.file > f
          /\ next.step = "up" => 1 .. Files \subseteq recorded'
      <4> DEFINE seen == process[p].seen
                 known == recorded'
      <4>1. f \in 0 .. Files /\ seen \in SUBSET (1 .. Files) /\ seen \subseteq known
            /\ 1 .. f \subseteq known
        BY <2>2, <3>1
      <4> HIDE DEF f, seen, known
      <4>2. LET following == Following(f, seen) IN
            /\ following \in [step : {"up", "run"}, file : 0 .. Files, seen : SUBSET (1 .. Files)]
            /\ following.seen \subseteq known
            /\ following.step = "run" => following.file \in 1 .. Files /\ Upto(following.file) \subseteq known
            /\ following.step = "run" => following.file > f
            /\ following.step = "up" => 1 .. Files \subseteq known
        BY ONLY <4>1, FollowingFacts
      <4> QED
        BY <4>2 DEF f, seen, known
    <3> HIDE DEF next
    <3>3. next \in Record3 /\ next.step \in {"up", "run"} /\ Becomes(p, next)
      BY <2>4, <3>2 DEF Record3, SchemaSteps, Working, next
    <3>4. process'[p] = next /\ \A q \in Processes : q # p => process'[q] = process[q]
      BY <1>0, <3>3, BecomesFacts
    <3>5. SchemaType'
      BY <1>0, <2>1, <3>3, BecomesFacts DEF SchemaType, Record3, rows
    <3>6. Ordered'
      BY <1>0, <2>1, <2>2, <2>4, <3>2, <3>3, <3>4 DEF Ordered, Working
    <3>7. Swapped'
      BY <1>0, <2>1, <3>3, SwappedKept
    <3>8. ASSUME next.step = "run"
          PROVE  next.file \notin recorded'
      <4>1. ASSUME next.file \in recorded PROVE FALSE
        <5>1. Upto(next.file) \subseteq recorded
          BY <1>0, <4>1 DEF Ordered
        <5>2. f \in Upto(next.file)
          BY <2>2, <3>2, <3>8 DEF Upto
        <5> QED
          BY <2>4, <5>1, <5>2
      <4> QED
        BY <2>2, <2>4, <3>2, <3>8, <4>1
    <3>9. Complete' \/ Foremost(p)'
      BY <3>2, <3>3, <3>4, <3>8 DEF Complete, Foremost, Working
    <3>10. Led'
      BY <1>0, <2>1, <2>4, <2>l, <3>4, <3>9 DEF Led
    <3> QED
      BY <3>5, <3>6, <3>7, <3>10 DEF SchemaInv
  <2> QED
    BY <1>7, <2>3, <2>4 DEF Record, Recorded
<1>8. ASSUME NEW p \in Processes, Stops(p) PROVE SchemaInv'
  <2>1. /\ schemaFaults' = schemaFaults + 1 /\ UNCHANGED <<ledger, recorded, applied, rows>>
        /\ holder' = IF holder = p THEN "nobody" ELSE holder
    BY <1>8 DEF Stops
  <2>2. PICK next \in {Up, Down} : Becomes(p, next)
    BY <1>8 DEF Stops, GivesUp
  <2>3. next \in Record3 /\ next.step \in {"up", "down"} /\ next.seen = {}
    BY <1>u DEF Up, Down
  <2>4. process'[p] = next /\ \A q \in Processes : q # p => process'[q] = process[q]
    BY <1>0, <2>2, <2>3, BecomesFacts
  <2>5. SchemaType'
    BY <1>0, <2>1, <2>2, <2>3, BecomesFacts DEF SchemaType, Record3, rows
  <2>6. Ordered'
    BY <1>0, <2>1, <2>2, <2>3, OrderedKept DEF Working
  <2>7. Swapped'
    BY <1>0, <2>1, <2>3, <2>4 DEF Swapped, rows
  <2>8. Led'
    BY <1>0, <2>1 DEF Led, SchemaType
  <2> QED
    BY <2>5, <2>6, <2>7, <2>8 DEF SchemaInv
<1>9. ASSUME NEW p \in Processes, Redeploy(p) PROVE SchemaInv'
  <2>1. /\ process[p].step = "up" /\ schemaFaults' = schemaFaults + 1
        /\ UNCHANGED <<ledger, recorded, applied, holder, rows>>
        /\ Becomes(p, Down) /\ Down.step = "down" /\ Down.seen = {}
    BY <1>9 DEF Redeploy, Down
  <2>2. SchemaType'
    BY <1>0, <1>u, <2>1, BecomesFacts DEF SchemaType, Record3, rows
  <2>3. Ordered'
    BY <1>0, <1>u, <2>1, OrderedKept DEF Working
  <2>4. Swapped'
    BY <1>0, <1>u, <2>1, SwappedKept
  <2>5. Led'
    BY <1>0, <2>1 DEF Led, SchemaType
  <2> QED
    BY <2>2, <2>3, <2>4, <2>5 DEF SchemaInv
<1>10. ASSUME NEW p \in Processes, Store(p) PROVE SchemaInv'
  <2>1. /\ holder = "nobody" /\ stored' = stored + 1 /\ table' = table + 1
        /\ UNCHANGED <<ledger, recorded, applied, process, holder, copied, schemaFaults>>
    BY <1>10 DEF Store, Free
  <2>2. SchemaType' /\ Ordered'
    BY <1>0, <2>1 DEF SchemaType, Ordered
  <2>3. Swapped'
    BY <1>0, <2>1 DEF Swapped
  <2>4. Led'
    BY <1>0, <2>1 DEF Led, Foremost, Complete
  <2> QED
    BY <2>2, <2>3, <2>4 DEF SchemaInv
<1>11. CASE UNCHANGED migrationVars
  BY <1>0, <1>11 DEF migrationVars, SchemaInv, SchemaType, Ordered, Swapped, Led, Foremost, Complete
<1> QED
  BY <1>1, <1>2, <1>3, <1>4, <1>5, <1>6, <1>7, <1>8, <1>9, <1>10, <1>11 DEF MigrationNext

\* However many processes migrate the schema, die and serve at the same time: the files are
\* applied in their order, the swap leaves no row behind, and when nothing fails the first
\* boot ends with all that can be applied (apply_migrations_dir, 004_table_partitioning.sql).
THEOREM SchemaIsSound == MigrationSpec => []MigrationsSound
<1>1. SchemaInv => MigrationsSound
  <2> SUFFICES ASSUME SchemaInv PROVE MigrationsSound
    OBVIOUS
  <2>1. AppliedInOrder
    BY DEF SchemaInv, Ordered, AppliedInOrder, Before, Upto
  <2>2. RowsKept
    BY DEF SchemaInv, Swapped, RowsKept
  <2>3. FirstBootCompletes
    BY DEF SchemaInv, Led, Foremost, Working, Complete, FirstBootCompletes
  <2> QED
    BY <2>1, <2>2, <2>3 DEF MigrationsSound
<1> QED
  BY <1>1, SchemaInit, SchemaStep, PTL DEF MigrationSpec

-----------------------------------------------------------------------------
(* EventStream                                                             *)

USE StreamAssumption

InSeq(e, s) == \E i \in 1 .. Len(s) : s[i] = e
Single(s, twice) == \A i, j \in 1 .. Len(s) : i < j /\ s[i] = s[j] => s[i] \in twice

\* What appending does to the events of a queue.
LEMMA Appended ==
  ASSUME NEW s \in Seq(Nat), NEW e \in Nat, NEW twice
  PROVE  /\ Append(s, e) \in Seq(Nat)
         /\ \A x : InSeq(x, Append(s, e)) <=> InSeq(x, s) \/ x = e
         /\ Single(s, twice) /\ (InSeq(e, s) => e \in twice) => Single(Append(s, e), twice)
<1>1. /\ Append(s, e) \in Seq(Nat) /\ Len(Append(s, e)) = Len(s) + 1 /\ Len(s) \in Nat
      /\ \A i \in 1 .. Len(s) : Append(s, e)[i] = s[i]
      /\ Append(s, e)[Len(s) + 1] = e
  OBVIOUS
<1>2. ASSUME NEW x PROVE InSeq(x, Append(s, e)) <=> InSeq(x, s) \/ x = e
  <2>1. ASSUME InSeq(x, Append(s, e)) PROVE InSeq(x, s) \/ x = e
    BY <1>1, <2>1 DEF InSeq
  <2>2. ASSUME NEW i \in 1 .. Len(s), s[i] = x PROVE InSeq(x, Append(s, e))
    <3>1. i \in 1 .. Len(Append(s, e)) /\ Append(s, e)[i] = x
      BY <1>1, <2>2
    <3> QED
      BY <3>1 DEF InSeq
  <2>3. ASSUME x = e PROVE InSeq(x, Append(s, e))
    <3>1. Len(s) + 1 \in 1 .. Len(Append(s, e))
      BY <1>1
    <3> QED
      BY <1>1, <2>3, <3>1 DEF InSeq
  <2> QED
    BY <2>1, <2>2, <2>3 DEF InSeq
<1>3. ASSUME Single(s, twice), InSeq(e, s) => e \in twice,
             NEW i \in 1 .. Len(Append(s, e)), NEW j \in 1 .. Len(Append(s, e)),
             i < j, Append(s, e)[i] = Append(s, e)[j]
      PROVE  Append(s, e)[i] \in twice
  <2>1. i \in 1 .. Len(s) /\ (j \in 1 .. Len(s) \/ j = Len(s) + 1)
    BY <1>1, <1>3
  <2> QED
    BY <1>1, <1>3, <2>1 DEF Single, InSeq
<1> QED
  BY <1>1, <1>2, <1>3 DEF Single

\* What taking the head does to them.
LEMMA Tailed ==
  ASSUME NEW s \in Seq(Nat), s # <<>>, NEW twice
  PROVE  /\ Tail(s) \in Seq(Nat) /\ Head(s) \in Nat
         /\ \A x : InSeq(x, s) <=> InSeq(x, Tail(s)) \/ x = Head(s)
         /\ Single(s, twice) => Single(Tail(s), twice) /\ (InSeq(Head(s), Tail(s)) => Head(s) \in twice)
<1>1. /\ Tail(s) \in Seq(Nat) /\ Len(s) \in Nat \ {0} /\ Len(Tail(s)) = Len(s) - 1
      /\ \A i \in 1 .. Len(Tail(s)) : Tail(s)[i] = s[i + 1]
      /\ Head(s) = s[1] /\ s[1] \in Nat
  OBVIOUS
<1>2. ASSUME NEW x PROVE InSeq(x, s) <=> InSeq(x, Tail(s)) \/ x = Head(s)
  <2>1. ASSUME NEW i \in 1 .. Len(s), s[i] = x PROVE InSeq(x, Tail(s)) \/ x = Head(s)
    <3>1. CASE i = 1
      BY <1>1, <2>1, <3>1
    <3>2. CASE i # 1
      <4>1. i - 1 \in 1 .. Len(Tail(s)) /\ Tail(s)[i - 1] = x
        BY <1>1, <2>1, <3>2
      <4> QED
        BY <4>1 DEF InSeq
    <3> QED
      BY <3>1, <3>2
  <2>2. ASSUME NEW i \in 1 .. Len(Tail(s)), Tail(s)[i] = x PROVE InSeq(x, s)
    <3>1. i + 1 \in 1 .. Len(s) /\ s[i + 1] = x
      BY <1>1, <2>2
    <3> QED
      BY <3>1 DEF InSeq
  <2>3. 1 \in 1 .. Len(s)
    BY <1>1
  <2> QED
    BY <1>1, <2>1, <2>2, <2>3 DEF InSeq
<1>3. ASSUME Single(s, twice), NEW i \in 1 .. Len(Tail(s)), NEW j \in 1 .. Len(Tail(s)),
             i < j, Tail(s)[i] = Tail(s)[j]
      PROVE  Tail(s)[i] \in twice
  <2>1. i + 1 \in 1 .. Len(s) /\ j + 1 \in 1 .. Len(s) /\ i + 1 < j + 1 /\ s[i + 1] = s[j + 1]
    BY <1>1, <1>3
  <2> QED
    BY <1>1, <1>3, <2>1 DEF Single
<1>4. ASSUME Single(s, twice), NEW i \in 1 .. Len(Tail(s)), Tail(s)[i] = Head(s)
      PROVE  Head(s) \in twice
  <2>1. 1 \in 1 .. Len(s) /\ i + 1 \in 1 .. Len(s) /\ 1 < i + 1 /\ s[1] = s[i + 1]
    BY <1>1, <1>4
  <2> QED
    BY <1>1, <1>4, <2>1 DEF Single
<1> QED
  BY <1>1, <1>2, <1>3, <1>4 DEF Single, InSeq

\* What listing a threat does to the list.
LEMMA Listed ==
  ASSUME NEW s \in Seq(Nat), NEW e \in Nat, NEW twice,
         NEW t, t = SubSeq(<<e>> \o s, 1, Min({LiveSize, Len(s) + 1}))
  PROVE  /\ t \in Seq(Nat)
         /\ \A x : InSeq(x, t) => InSeq(x, s) \/ x = e
         /\ Single(s, twice) /\ (InSeq(e, s) => e \in twice) => Single(t, twice)
<1> DEFINE n == Min({LiveSize, Len(s) + 1})
           u == <<e>> \o s
<1>0. t = SubSeq(u, 1, n)
  OBVIOUS
<1>1. n \in Nat /\ 1 <= n /\ n <= Len(s) + 1
  <2>1. {LiveSize, Len(s) + 1} \subseteq Nat /\ LiveSize >= 1 /\ Len(s) + 1 >= 1
    OBVIOUS
  <2>2. n \in {LiveSize, Len(s) + 1} /\ \A y \in {LiveSize, Len(s) + 1} : n <= y
    BY <2>1, LeastOne
  <2> QED
    BY <2>1, <2>2
<1> HIDE DEF n
<1>2. u \in Seq(Nat) /\ Len(u) = Len(s) + 1 /\ u[1] = e /\ \A i \in 1 .. Len(s) : u[i + 1] = s[i]
  OBVIOUS
<1> HIDE DEF u
<1>3. t \in Seq(Nat) /\ Len(t) = n /\ \A i \in 1 .. n : t[i] = u[i]
  <2>1. \A i \in 1 .. n : u[i] \in Nat
    BY <1>1, <1>2
  <2>2. /\ SubSeq(u, 1, n) \in Seq(Nat)
        /\ Len(SubSeq(u, 1, n)) = IF 1 <= n THEN n - 1 + 1 ELSE 0
        /\ \A i \in 1 .. n - 1 + 1 : SubSeq(u, 1, n)[i] = u[1 + i - 1]
    BY <1>1, <2>1, SubSeqProperties
  <2>3. /\ t \in Seq(Nat) /\ Len(t) = IF 1 <= n THEN n - 1 + 1 ELSE 0
        /\ \A i \in 1 .. n - 1 + 1 : t[i] = u[1 + i - 1]
    BY <1>0, <2>2, Zenon
  <2>4. n - 1 + 1 = n
    BY <1>1
  <2>5. \A i \in 1 .. n : t[i] = u[i]
    <3> SUFFICES ASSUME NEW i \in 1 .. n PROVE t[i] = u[i]
      OBVIOUS
    <3>1. 1 + i - 1 = i
      OBVIOUS
    <3>2. t[i] = u[1 + i - 1]
      BY <2>3, <2>4
    <3> QED
      BY <3>1, <3>2
  <2> QED
    BY <1>1, <2>3, <2>4, <2>5
<1>4. \A i \in 1 .. n : (i = 1 /\ t[i] = e) \/ (i - 1 \in 1 .. Len(s) /\ t[i] = s[i - 1])
  BY <1>1, <1>2, <1>3
<1>5. \A x : InSeq(x, t) => InSeq(x, s) \/ x = e
  BY <1>3, <1>4 DEF InSeq
<1>6. ASSUME Single(s, twice), InSeq(e, s) => e \in twice,
             NEW i \in 1 .. n, NEW j \in 1 .. n, i < j, t[i] = t[j]
      PROVE  t[i] \in twice
  <2>1. j - 1 \in 1 .. Len(s) /\ t[j] = s[j - 1]
    <3>1. j # 1
      BY <1>1, <1>6
    <3> QED
      BY <1>4, <3>1
  <2>2. CASE i = 1 /\ t[i] = e
    BY <1>6, <2>1, <2>2 DEF InSeq
  <2>3. CASE i - 1 \in 1 .. Len(s) /\ t[i] = s[i - 1]
    <3>1. i - 1 < j - 1
      BY <1>6
    <3> QED
      BY <1>6, <2>1, <2>3, <3>1 DEF Single
  <2> QED
    BY <1>4, <2>2, <2>3
<1> QED
  BY <1>3, <1>5, <1>6 DEF Single

\* What a sender may be doing, and the types.
Handing(d) == sender[d].step \in {"put", "pop", "again"}
Carries(d, e) == sender[d].step # "idle" /\ sender[d].event = e
Sending == [event : Nat, step : {"idle", "publish", "put", "pop", "again"}, todo : SUBSET (1 .. streams)]

StreamType ==
  /\ hooked \in BOOLEAN /\ saved \in Nat
  /\ bus \in Seq(Nat) /\ live \in Seq(Nat)
  /\ streams \in Nat /\ stream \in 0 .. streams
  /\ sender \in [Senders -> Sending]
  /\ \A d \in Senders : Handing(d) => sender[d].todo # {}
  /\ queues \in [DOMAIN queues -> Seq(Nat)] /\ DOMAIN queues \subseteq 1 .. streams
  /\ (stream # 0 => stream \in DOMAIN queues) /\ 0 \notin begun

\* Every event there is was saved.
Known ==
  /\ steady \subseteq 1 .. saved
  /\ \A e : InSeq(e, bus) \/ InSeq(e, live) => e \in 1 .. saved
  /\ \A q \in DOMAIN queues : \A e : InSeq(e, queues[q]) => e \in 1 .. saved
  /\ \A d \in Senders : sender[d].step # "idle" => sender[d].event \in 1 .. saved

\* An event that nothing came in the way of is shown, or on its way to the browser's stream.
OnItsWay(e) ==
  /\ stream # 0 /\ (hooked => listener = "on")
  /\ \/ InSeq(e, queues[stream]) \/ InSeq(e, bus)
     \/ \E d \in Senders : /\ sender[d].event = e
                           /\ \/ sender[d].step = "publish"
                              \/ Handing(d) /\ stream \in sender[d].todo
Arriving == \A e \in steady \ shown : OnItsWay(e)

\* While a sender makes room in the queue of the browser, all that is left was disturbed.
Spilling ==
  \A d \in Senders :
    sender[d].step \in {"pop", "again"} /\ Target(d) = stream => steady \subseteq shown

\* An event that was published once is in one place on its way to each queue.
Unspread(e) ==
  /\ \A c, d \in Senders : Carries(c, e) /\ Carries(d, e) => c = d
  /\ \A d \in Senders : Carries(d, e) => ~InSeq(e, bus)
  /\ InSeq(e, bus) \/ (\E d \in Senders : Carries(d, e) /\ sender[d].step = "publish") =>
       ~InSeq(e, live) /\ \A q \in DOMAIN queues : ~InSeq(e, queues[q])
  /\ \A d \in Senders : Carries(d, e) /\ Handing(d) =>
       \A q \in sender[d].todo : /\ q \in DOMAIN queues => ~InSeq(e, queues[q])
                                 /\ q = stream => ~InSeq(e, live)
  /\ stream # 0 /\ InSeq(e, queues[stream]) => ~InSeq(e, live)
Once ==
  /\ \A e \in Nat \ doubled : Unspread(e)
  /\ Single(bus, doubled) /\ Single(live, doubled)
  /\ \A q \in DOMAIN queues : Single(queues[q], doubled)

StreamInv == StreamType /\ Known /\ Arriving /\ Spilling /\ Once

\* The queue a sender is at is one it has left.
LEMMA TargetFacts ==
  ASSUME StreamType, NEW d \in Senders, Handing(d)
  PROVE  /\ Target(d) \in sender[d].todo /\ Target(d) \in 1 .. streams
         /\ Queue(d) \in Seq(Nat)
         /\ Target(d) \in DOMAIN queues => Queue(d) = queues[Target(d)]
<1>1. sender[d].todo \subseteq 1 .. streams /\ sender[d].todo # {} /\ 1 .. streams \subseteq Nat
  BY DEF StreamType, Sending
<1>2. Target(d) \in sender[d].todo
  BY <1>1, LeastOne DEF Target
<1>3. Queue(d) \in Seq(Nat)
  BY DEF Queue, StreamType
<1> QED
  BY <1>1, <1>2, <1>3 DEF Queue

\* What a sender does after the last step at a queue.
LEMMA ProceedFacts ==
  ASSUME StreamType, NEW d \in Senders, Handing(d), Proceed(d)
  PROVE  \E new \in Sending :
           /\ sender' = [sender EXCEPT ![d] = new]
           /\ new.todo = sender[d].todo \ {Target(d)} /\ new.step \in {"idle", "put"}
           /\ new.step = "put" => new.event = sender[d].event /\ new.todo # {}
           /\ new.step = "idle" => new.todo = {}
<1> DEFINE left == sender[d].todo \ {Target(d)}
<1>1. sender[d] \in Sending
  BY DEF StreamType
<1>2. CASE left = {}
  <2>1. Idle \in Sending /\ Idle.step = "idle" /\ Idle.todo = {}
    BY DEF Idle, Sending
  <2>2. sender' = [sender EXCEPT ![d] = Idle]
    BY <1>2 DEF Proceed
  <2> QED
    BY <1>2, <2>1, <2>2
<1>3. CASE left # {}
  <2> DEFINE new == [sender[d] EXCEPT !.step = "put", !.todo = left]
  <2>1. new \in Sending /\ new.step = "put" /\ new.todo = left /\ new.event = sender[d].event
    BY <1>1 DEF Sending
  <2>2. sender' = [sender EXCEPT ![d] = new]
    BY <1>3 DEF Proceed
  <2> QED
    BY <1>3, <2>1, <2>2
<1> QED
  BY <1>2, <1>3

\* What a sender has still to hand over is in none of the queues it has left.
LEMMA AheadFacts ==
  ASSUME NEW e, Unspread(e), NEW c \in Senders, Carries(c, e), Handing(c), NEW q \in sender[c].todo
  PROVE  /\ q \in DOMAIN queues => ~InSeq(e, queues[q])
         /\ q = stream => ~InSeq(e, live)
<1>1. \A b \in Senders : Carries(b, e) /\ Handing(b) =>
        \A p \in sender[b].todo : /\ p \in DOMAIN queues => ~InSeq(e, queues[p])
                                  /\ p = stream => ~InSeq(e, live)
  BY DEF Unspread
<1>2. \A p \in sender[c].todo : /\ p \in DOMAIN queues => ~InSeq(e, queues[p])
                                /\ p = stream => ~InSeq(e, live)
  BY <1>1, Zenon
<1> QED
  BY <1>2, Zenon

\* A step of a dispatch at one queue: the queue stays, loses its head or gets the event.
LEMMA HandStep ==
  ASSUME StreamInv, NEW d \in Senders, Handing(d),
         NEW new \in Sending, sender' = [sender EXCEPT ![d] = new],
         new.step \in {"idle", "put", "pop", "again"},
         new.step = "idle" => new.todo = {},
         new.step # "idle" => new.event = sender[d].event /\ new.todo # {},
         \/ new.todo = sender[d].todo
         \/ new.todo = sender[d].todo \ {Target(d)} /\ new.step \in {"idle", "put"},
         queues' \in [DOMAIN queues -> Seq(Nat)],
         \A q \in DOMAIN queues : q # Target(d) => queues'[q] = queues[q],
         Target(d) \in DOMAIN queues =>
           \/ queues'[Target(d)] = queues[Target(d)]
           \/ queues[Target(d)] # <<>> /\ queues'[Target(d)] = Tail(queues[Target(d)])
           \/ /\ queues'[Target(d)] = Append(queues[Target(d)], sender[d].event)
              /\ new.todo = sender[d].todo \ {Target(d)} /\ new.step \in {"idle", "put"},
         Target(d) = stream =>
           \/ steady' \subseteq shown
           \/ /\ queues'[Target(d)] = Append(queues[Target(d)], sender[d].event)
              /\ new.todo = sender[d].todo \ {Target(d)} /\ new.step \in {"idle", "put"},
         steady' \subseteq steady,
         UNCHANGED <<hooked, listener, bus, saved, begun, streams, stream, live, shown, doubled>>
  PROVE  StreamInv'
<1> DEFINE T == Target(d)
           e0 == sender[d].event
<1>1. /\ StreamType /\ Known /\ Arriving /\ Spilling /\ Once
      /\ sender[d] \in Sending /\ e0 \in Nat /\ sender \in [Senders -> Sending]
  BY DEF StreamInv, StreamType, Sending
<1>2. T \in sender[d].todo /\ T \in 1 .. streams
  BY <1>1, TargetFacts
<1>3. sender'[d] = new /\ \A c \in Senders \ {d} : sender'[c] = sender[c]
  BY <1>1
<1>4. DOMAIN queues' = DOMAIN queues
  OBVIOUS
<1>5. ASSUME NEW q \in DOMAIN queues
      PROVE  /\ queues'[q] \in Seq(Nat)
             /\ \A e : InSeq(e, queues'[q]) =>
                  \/ InSeq(e, queues[q])
                  \/ q = T /\ e = e0 /\ new.todo = sender[d].todo \ {T}
             /\ Single(queues'[q], doubled)
  <2>1. queues[q] \in Seq(Nat) /\ Single(queues[q], doubled)
    BY <1>1 DEF StreamType, Once
  <2>2. CASE q # T
    BY <2>1, <2>2
  <2>3. CASE q = T
    <3>1. CASE queues'[T] = queues[T]
      BY <2>1, <2>3, <3>1
    <3>2. CASE queues[T] # <<>> /\ queues'[T] = Tail(queues[T])
      BY <2>1, <2>3, <3>2, Tailed
    <3>3. CASE queues'[T] = Append(queues[T], e0) /\ new.todo = sender[d].todo \ {T}
      <4>1. InSeq(e0, queues[T]) => e0 \in doubled
        <5> SUFFICES ASSUME e0 \notin doubled PROVE ~InSeq(e0, queues[T])
          OBVIOUS
        <5>1. Unspread(e0)
          BY <1>1 DEF Once
        <5>2. Carries(d, e0) /\ T \in DOMAIN queues
          BY <2>3 DEF Carries, Handing
        <5> QED
          BY <1>2, <5>1, <5>2, AheadFacts
      <4> QED
        BY <1>1, <2>1, <2>3, <3>3, <4>1, Appended
    <3> QED
      BY <2>3, <3>1, <3>2, <3>3
  <2> QED
    BY <2>2, <2>3
<1>6. StreamType'
  <2>1. sender' \in [Senders -> Sending]'
    BY <1>1 DEF Sending
  <2>2. \A c \in Senders : Handing(c)' => sender'[c].todo # {}
    BY <1>1, <1>3 DEF StreamType, Handing
  <2> QED
    BY <1>1, <1>4, <2>1, <2>2 DEF StreamType
<1>7. Known'
  <2>1. \A c \in Senders : sender'[c].step # "idle" => sender'[c].event \in 1 .. saved
    BY <1>1, <1>3 DEF Known, Handing
  <2>2. \A q \in DOMAIN queues : \A e : InSeq(e, queues'[q]) => e \in 1 .. saved
    BY <1>1, <1>5 DEF Known, Handing
  <2> QED
    BY <1>1, <1>4, <2>1, <2>2 DEF Known
<1>8. Arriving'
  <2> SUFFICES ASSUME NEW e \in steady' \ shown PROVE OnItsWay(e)'
    BY DEF Arriving
  <2>1. OnItsWay(e)
    BY <1>1 DEF Arriving
  <2>2. stream \in DOMAIN queues /\ queues[stream] \in Seq(Nat) /\ stream # 0
    BY <1>1, <2>1 DEF StreamType, OnItsWay
  <2>3. CASE T = stream
    <3>1. queues'[stream] = Append(queues[stream], e0)
      BY <2>3
    <3>2. \A x : InSeq(x, queues'[stream]) <=> InSeq(x, queues[stream]) \/ x = e0
      BY <1>1, <2>2, <3>1, Appended
    <3>3. \A c \in Senders : sender[c].event = e => sender'[c] = sender[c] \/ e = e0
      BY <1>3
    <3> QED
      BY <2>1, <3>2, <3>3 DEF OnItsWay, Handing
  <2>4. CASE T # stream
    <3>1. queues'[stream] = queues[stream]
      BY <2>2, <2>4
    <3>2. ASSUME stream \in sender[d].todo, e0 = e
          PROVE  sender'[d].event = e /\ Handing(d)' /\ stream \in sender'[d].todo
      <4>1. stream \in new.todo
        BY <2>4, <3>2
      <4> QED
        BY <1>3, <3>2, <4>1 DEF Handing
    <3>3. ASSUME NEW c \in Senders, sender[c].event = e,
                 sender[c].step = "publish" \/ (Handing(c) /\ stream \in sender[c].todo)
          PROVE  /\ sender'[c].event = e
                 /\ sender'[c].step = "publish" \/ (Handing(c)' /\ stream \in sender'[c].todo)
      <4>1. CASE c = d
        BY <3>2, <3>3, <4>1 DEF Handing
      <4>2. CASE c # d
        BY <1>3, <3>3, <4>2 DEF Handing
      <4> QED
        BY <4>1, <4>2
    <3> QED
      BY <2>1, <3>1, <3>3 DEF OnItsWay
  <2> QED
    BY <2>3, <2>4
<1>9. Spilling'
  <2> SUFFICES ASSUME NEW c \in Senders, sender'[c].step \in {"pop", "again"}, Target(c)' = stream
               PROVE  steady' \subseteq shown
    BY DEF Spilling
  <2>1. CASE c # d
    <3>1. Target(c)' = Target(c) /\ sender'[c] = sender[c]
      BY <1>3, <2>1 DEF Target
    <3> QED
      BY <1>1, <3>1 DEF Spilling
  <2>2. CASE c = d
    <3>1. new.todo = sender[d].todo /\ new.step \in {"pop", "again"}
      BY <1>3, <2>2
    <3>2. T = stream
      BY <1>3, <2>2, <3>1 DEF Target
    <3> QED
      BY <3>1, <3>2
  <2> QED
    BY <2>1, <2>2
<1>10. Once'
  <2>1. ASSUME NEW e \in Nat \ doubled PROVE Unspread(e)'
    <3>1. Unspread(e)
      BY <1>1 DEF Once
    <3>2. \A c \in Senders : Carries(c, e)' => Carries(c, e)
      BY <1>3 DEF Carries, Handing
    <3>3. \A c \in Senders : sender'[c].step = "publish" => c # d /\ sender'[c] = sender[c]
      BY <1>3
    <3>4. \A c \in Senders : /\ sender'[c].todo \subseteq sender[c].todo
                             /\ Carries(c, e)' /\ Handing(c)' => Handing(c)
      BY <1>3 DEF Handing
    <3>5. ASSUME NEW q \in DOMAIN queues, InSeq(e, queues'[q]), ~InSeq(e, queues[q])
          PROVE  q = T /\ Carries(d, e) /\ new.todo = sender[d].todo \ {T}
      BY <1>5, <3>5 DEF Carries, Handing
    <3>6. InSeq(e, bus) \/ (\E c \in Senders : Carries(c, e)' /\ sender'[c].step = "publish") =>
            ~InSeq(e, live) /\ \A q \in DOMAIN queues : ~InSeq(e, queues'[q])
      <4> SUFFICES ASSUME InSeq(e, bus) \/ (\E c \in Senders : Carries(c, e)' /\ sender'[c].step = "publish")
                   PROVE  ~InSeq(e, live) /\ \A q \in DOMAIN queues : ~InSeq(e, queues'[q])
        OBVIOUS
      <4>1. InSeq(e, bus) \/ (\E c \in Senders : c # d /\ Carries(c, e) /\ sender[c].step = "publish")
        BY <3>2, <3>3
      <4>2. ~Carries(d, e)
        BY <3>1, <4>1 DEF Unspread
      <4> QED
        BY <3>1, <3>5, <4>1, <4>2 DEF Unspread
    <3>7. ASSUME NEW c \in Senders, Carries(c, e)', Handing(c)', NEW q \in sender'[c].todo
          PROVE  /\ q \in DOMAIN queues => ~InSeq(e, queues'[q])
                 /\ q = stream => ~InSeq(e, live)
      <4>1. Carries(c, e) /\ Handing(c) /\ q \in sender[c].todo
        BY <3>2, <3>4, <3>7
      <4>2. ASSUME q \in DOMAIN queues, InSeq(e, queues'[q]) PROVE FALSE
        <5>1. ~InSeq(e, queues[q])
          BY <3>1, <4>1, <4>2, AheadFacts
        <5>2. q = T /\ Carries(d, e) /\ new.todo = sender[d].todo \ {T}
          BY <3>5, <4>2, <5>1
        <5>3. c = d
          BY <3>1, <4>1, <5>2 DEF Unspread
        <5> QED
          BY <1>3, <3>7, <5>2, <5>3
      <4>3. q = stream => ~InSeq(e, live)
        BY <3>1, <4>1, AheadFacts
      <4> QED
        BY <4>2, <4>3
    <3>8. ASSUME stream # 0, InSeq(e, queues'[stream]) PROVE ~InSeq(e, live)
      <4>1. stream \in DOMAIN queues
        BY <1>1, <3>8 DEF StreamType
      <4>2. CASE InSeq(e, queues[stream])
        BY <3>1, <3>8, <4>2 DEF Unspread
      <4>3. CASE ~InSeq(e, queues[stream])
        <5>1. stream = T /\ Carries(d, e)
          BY <3>5, <3>8, <4>1, <4>3
        <5> QED
          BY <1>2, <3>1, <5>1, AheadFacts
      <4> QED
        BY <4>2, <4>3
    <3> QED
      BY <1>4, <3>1, <3>2, <3>6, <3>7, <3>8 DEF Unspread
  <2> QED
    BY <1>1, <1>4, <1>5, <2>1 DEF Once
<1> QED
  BY <1>6, <1>7, <1>8, <1>9, <1>10 DEF StreamInv

\* In the beginning there is nothing to send.
LEMMA StreamBegins == StreamInit => StreamInv
<1> SUFFICES ASSUME StreamInit PROVE StreamInv
  OBVIOUS
<1>1. /\ hooked \in BOOLEAN /\ saved = 0 /\ bus = <<>> /\ live = <<>> /\ streams = 0 /\ stream = 0
      /\ begun = {} /\ steady = {} /\ queues = <<>> /\ sender = [d \in Senders |-> Idle]
  BY DEF StreamInit
<1>2. \A e : ~InSeq(e, <<>>)
  BY DEF InSeq
<1>3. \A d \in Senders : sender[d].step = "idle"
  BY <1>1 DEF Idle
<1>4. queues \in [DOMAIN queues -> Seq(Nat)] /\ DOMAIN queues = {}
  BY <1>1
<1>5. StreamType
  <2>1. Idle \in Sending
    BY DEF Idle, Sending
  <2>2. bus \in Seq(Nat) /\ live \in Seq(Nat) /\ stream \in 0 .. streams
    BY <1>1
  <2> QED
    BY <1>1, <1>3, <1>4, <2>1, <2>2 DEF StreamType, Handing
<1>6. Known /\ Arriving /\ Spilling
  BY <1>1, <1>2, <1>3, <1>4 DEF Known, Arriving, Spilling
<1>7. \A e : Unspread(e)
  BY <1>1, <1>2, <1>3, <1>4 DEF Unspread, Carries
<1> QED
  BY <1>1, <1>4, <1>5, <1>6, <1>7 DEF StreamInv, Once, Single

\* What nothing changes in stays as it was.
LEMMA Unmoved ==
  ASSUME StreamInv, (0 \notin begun)',
         UNCHANGED <<hooked, listener, bus, saved, sender, queues, streams, stream, live, shown, steady, doubled>>
  PROVE  StreamInv'
<1>1. StreamType'
  BY DEF StreamInv, StreamType, Handing, Sending
<1>2. Known' /\ Spilling'
  BY DEF StreamInv, Known, Spilling, Target
<1>3. Arriving'
  BY DEF StreamInv, Arriving, OnItsWay, Handing
<1>4. Once'
  BY DEF StreamInv, Once, Unspread, Handing, Carries
<1> QED
  BY <1>1, <1>2, <1>3, <1>4 DEF StreamInv

\* Where there is less of everything, no event is spread any further.
LEMMA Lessened ==
  ASSUME StreamInv, StreamType', Arriving', Spilling', steady' \subseteq steady,
         UNCHANGED <<saved, live, doubled>>, bus' \in {bus, <<>>}, stream' \in {stream, 0},
         \A d \in Senders : sender'[d] = sender[d] \/ sender'[d].step = "idle",
         DOMAIN queues' \subseteq DOMAIN queues, \A q \in DOMAIN queues' : queues'[q] = queues[q]
  PROVE  StreamInv'
<1>1. StreamType /\ Known /\ Once
  BY DEF StreamInv
<1>2. \A e : InSeq(e, bus') => InSeq(e, bus)
  BY DEF InSeq
<1>3. \A d \in Senders : sender'[d].step # "idle" => sender'[d] = sender[d]
  OBVIOUS
<1>4. Known'
  BY <1>1, <1>2, <1>3 DEF Known
<1>5. ASSUME NEW e, Unspread(e) PROVE Unspread(e)'
  <2>1. ASSUME NEW d \in Senders, Carries(d, e)'
        PROVE  /\ Carries(d, e) /\ sender'[d] = sender[d] /\ (Handing(d)' <=> Handing(d))
    BY <1>3, <2>1 DEF Carries, Handing
  <2>2. \A c, d \in Senders : Carries(c, e)' /\ Carries(d, e)' => c = d
    BY <1>5, <2>1 DEF Unspread
  <2>3. \A d \in Senders : Carries(d, e)' => ~InSeq(e, bus')
    BY <1>2, <1>5, <2>1 DEF Unspread
  <2>4. InSeq(e, bus') \/ (\E d \in Senders : Carries(d, e)' /\ sender'[d].step = "publish") =>
          ~InSeq(e, live) /\ \A q \in DOMAIN queues' : ~InSeq(e, queues'[q])
    BY <1>2, <1>5, <2>1 DEF Unspread
  <2>5. ASSUME NEW d \in Senders, Carries(d, e)', Handing(d)', NEW q \in sender'[d].todo
        PROVE  /\ q \in DOMAIN queues' => ~InSeq(e, queues'[q])
               /\ q = stream' => ~InSeq(e, live)
    <3>1. Carries(d, e) /\ Handing(d) /\ q \in sender[d].todo
      BY <2>1, <2>5
    <3>2. q # 0
      BY <1>1, <3>1 DEF StreamType, Sending
    <3> QED
      BY <1>5, <3>1, <3>2, AheadFacts
  <2>6. stream' # 0 /\ InSeq(e, queues'[stream']) => ~InSeq(e, live)
    <3> SUFFICES ASSUME stream' # 0, InSeq(e, queues'[stream']) PROVE ~InSeq(e, live)
      OBVIOUS
    <3>1. stream' = stream /\ stream' \in DOMAIN queues'
      BY DEF StreamType
    <3> QED
      BY <1>5, <3>1 DEF Unspread
  <2> QED
    BY <2>2, <2>3, <2>4, <2>5, <2>6 DEF Unspread
<1>6. Once'
  <2>1. Single(bus', doubled)
    BY <1>1 DEF Once, Single
  <2> QED
    BY <1>1, <1>5, <2>1 DEF Once
<1> QED
  BY <1>4, <1>6 DEF StreamInv

\* A verdict that is saved makes an event nobody knows yet.
LEMMA SaveStep ==
  ASSUME StreamInv, NEW w \in Workers, Save(w)
  PROVE  StreamInv'
<1> DEFINE n == saved + 1
           new == [event |-> n, step |-> "publish", todo |-> {}]
<1>1. StreamType /\ Known /\ Arriving /\ Spilling /\ Once /\ saved \in Nat /\ w \in Senders
  BY DEF StreamInv, StreamType, Senders
<1>2. /\ sender[w].step = "idle" /\ saved' = n /\ sender' = [sender EXCEPT ![w] = new]
      /\ UNCHANGED <<hooked, listener, bus, queues, begun, streams, stream, live, shown, doubled>>
  BY DEF Save, browser, Idle
<1>3. \/ steady' = steady
      \/ /\ steady' = steady \cup {n} /\ stream # 0 /\ (hooked => listener = "on")
         /\ \A d \in Senders : sender[d].step \notin {"pop", "again"}
  BY <1>2 DEF Save
<1>4. new \in Sending /\ sender \in [Senders -> Sending]
  BY <1>1 DEF StreamType, Sending
<1>5. sender'[w] = new /\ \A d \in Senders \ {w} : sender'[d] = sender[d]
  BY <1>1, <1>2, <1>4
<1>6. StreamType'
  BY <1>1, <1>2, <1>4, <1>5 DEF StreamType, Sending, Handing
<1>7. 1 .. saved \subseteq 1 .. n /\ n \in 1 .. n /\ n \notin 1 .. saved
  BY <1>1
<1>8. Known'
  <2>1. steady' \subseteq 1 .. n
    BY <1>1, <1>3, <1>7 DEF Known
  <2>2. \A e : InSeq(e, bus) \/ InSeq(e, live) => e \in 1 .. n
    BY <1>1, <1>7 DEF Known
  <2>3. \A q \in DOMAIN queues : \A e : InSeq(e, queues[q]) => e \in 1 .. n
    BY <1>1, <1>7 DEF Known
  <2>4. \A d \in Senders : sender'[d].step # "idle" => sender'[d].event \in 1 .. n
    BY <1>1, <1>5, <1>7 DEF Known
  <2> QED
    BY <1>2, <2>1, <2>2, <2>3, <2>4 DEF Known
<1>9. Arriving'
  <2> SUFFICES ASSUME NEW e \in steady' \ shown PROVE OnItsWay(e)'
    BY <1>2 DEF Arriving
  <2>1. CASE e \in steady
    <3>1. OnItsWay(e)
      BY <1>1, <2>1 DEF Arriving
    <3> QED
      BY <1>2, <1>5, <3>1 DEF OnItsWay, Handing
  <2>2. CASE e \notin steady
    BY <1>1, <1>2, <1>3, <1>5, <2>2 DEF OnItsWay
  <2> QED
    BY <2>1, <2>2
<1>10. Spilling'
  <2> SUFFICES ASSUME NEW d \in Senders, sender'[d].step \in {"pop", "again"}, Target(d)' = stream
               PROVE  steady' \subseteq shown
    BY <1>2 DEF Spilling
  <2>1. d # w
    BY <1>5
  <2>2. sender'[d] = sender[d] /\ Target(d) = stream
    BY <1>5, <2>1 DEF Target
  <2> QED
    BY <1>1, <1>3, <2>2 DEF Spilling
<1>11. ASSUME NEW e \in Nat \ doubled PROVE Unspread(e)'
  <2>1. CASE e = n
    <3>1. ~InSeq(e, bus) /\ ~InSeq(e, live) /\ \A q \in DOMAIN queues : ~InSeq(e, queues[q])
      <4>1. e \notin 1 .. saved
        BY <1>7, <2>1
      <4>2. \A x : InSeq(x, bus) \/ InSeq(x, live) => x \in 1 .. saved
        BY <1>1 DEF Known
      <4>3. \A q \in DOMAIN queues : \A x : InSeq(x, queues[q]) => x \in 1 .. saved
        BY <1>1 DEF Known
      <4> HIDE DEF n
      <4> QED
        BY <4>1, <4>2, <4>3, Zenon
    <3>2. \A d \in Senders : Carries(d, e)' => d = w
      BY <1>1, <1>5, <1>7, <2>1 DEF Known, Carries
    <3> QED
      BY <1>2, <1>5, <1>6, <3>1, <3>2 DEF Unspread, StreamType, Handing
  <2>2. CASE e # n
    <3>1. Unspread(e)
      BY <1>1 DEF Once
    <3>2. \A d \in Senders : Carries(d, e)' => Carries(d, e) /\ sender'[d] = sender[d]
      BY <1>2, <1>5, <2>2 DEF Carries
    <3> QED
      BY <1>2, <3>1, <3>2 DEF Unspread, Handing
  <2> QED
    BY <2>1, <2>2
<1>12. Once'
  BY <1>1, <1>2, <1>11 DEF Once
<1> QED
  BY <1>6, <1>8, <1>9, <1>10, <1>12 DEF StreamInv

\* What a dispatch begins with.
LEMMA DispatchFacts ==
  ASSUME StreamType, NEW e \in Nat
  PROVE  /\ Dispatch(e) \in Sending /\ Dispatch(e).step \in {"idle", "put"}
         /\ Dispatch(e).step # "idle" => Dispatch(e).event = e
         /\ Dispatch(e).todo \subseteq DOMAIN queues
         /\ Dispatch(e).step = "put" => Dispatch(e).todo # {}
         /\ stream # 0 => Dispatch(e).step = "put" /\ stream \in Dispatch(e).todo /\ Dispatch(e).event = e
<1>1. CASE DOMAIN queues = {}
  <2>1. Dispatch(e) = [event |-> 0, step |-> "idle", todo |-> {}]
    BY <1>1 DEF Dispatch, Idle
  <2> QED
    BY <1>1, <2>1 DEF StreamType, Sending
<1>2. CASE DOMAIN queues # {}
  <2>1. Dispatch(e) = [event |-> e, step |-> "put", todo |-> DOMAIN queues]
    BY <1>2 DEF Dispatch
  <2> QED
    BY <1>2, <2>1 DEF StreamType, Sending
<1> QED
  BY <1>1, <1>2

\* An event goes to Redis, straight into the queues or both ways.
LEMMA PublishStep ==
  ASSUME StreamInv, NEW w \in Workers, Publish(w)
  PROVE  StreamInv'
<1> DEFINE e0 == sender[w].event
           new == sender'[w]
<1>1. /\ StreamType /\ Known /\ Arriving /\ Spilling /\ Once /\ w \in Senders
      /\ bus \in Seq(Nat) /\ live \in Seq(Nat) /\ sender \in [Senders -> Sending] /\ e0 \in Nat
  BY DEF StreamInv, StreamType, Senders, Sending
<1>2. /\ sender[w].step = "publish"
      /\ UNCHANGED <<hooked, listener, saved, queues, begun, streams, stream, live, shown, steady>>
  BY DEF Publish, browser, Undisturbed
<1>3. /\ \/ sender' = [sender EXCEPT ![w] = Idle]
         \/ sender' = [sender EXCEPT ![w] = Dispatch(e0)]
      /\ bus' = bus \/ bus' = Append(bus, e0)
      /\ doubled' = doubled \/ doubled' = doubled \cup {e0}
      /\ bus' = bus \/ new = Idle \/ e0 \in doubled'
      /\ (hooked => listener = "on") => bus' = Append(bus, e0) \/ new = Dispatch(e0)
  BY <1>1 DEF Publish, Fallback
<1>4. /\ Idle \in Sending /\ Idle.step = "idle" /\ Idle.todo = {}
      /\ Dispatch(e0) \in Sending /\ Dispatch(e0).step \in {"idle", "put"}
  BY <1>1, DispatchFacts DEF Idle, Sending
<1>5. /\ new = Idle \/ new = Dispatch(e0)
      /\ \A d \in Senders \ {w} : sender'[d] = sender[d]
      /\ sender' \in [Senders -> Sending]
  BY <1>1, <1>3, <1>4
<1>6. /\ new.step \in {"idle", "put"} /\ (new.step # "idle" => new.event = e0)
      /\ new.todo \subseteq DOMAIN queues /\ (new.step = "put" => new.todo # {})
  BY <1>1, <1>4, <1>5, DispatchFacts
<1>7. /\ bus' \in Seq(Nat)
      /\ \A e : InSeq(e, bus) => InSeq(e, bus')
      /\ \A e : InSeq(e, bus') => InSeq(e, bus) \/ (e = e0 /\ bus' = Append(bus, e0))
      /\ bus' = Append(bus, e0) => InSeq(e0, bus')
  <2>1. CASE bus' = Append(bus, e0)
    BY <1>1, <2>1, Appended
  <2>2. CASE bus' = bus
    BY <1>1, <2>2, Appended
  <2> QED
    BY <1>3, <2>1, <2>2
<1>8. StreamType'
  <2>1. bus' \in Seq(Nat)
    BY <1>7
  <2>2. sender' \in [Senders -> Sending]'
    BY <1>2, <1>5 DEF Sending
  <2>3. \A d \in Senders : Handing(d)' => sender'[d].todo # {}
    BY <1>1, <1>5, <1>6 DEF StreamType, Handing
  <2> QED
    BY <1>1, <1>2, <2>1, <2>2, <2>3 DEF StreamType
<1>9. Known'
  <2>1. e0 \in 1 .. saved
    BY <1>1, <1>2 DEF Known
  <2>2. \A d \in Senders : sender'[d].step # "idle" => sender'[d].event \in 1 .. saved
    BY <1>1, <1>5, <1>6, <2>1 DEF Known
  <2> QED
    BY <1>1, <1>2, <1>7, <2>1, <2>2 DEF Known
<1>10. Arriving'
  <2> SUFFICES ASSUME NEW e \in steady \ shown PROVE OnItsWay(e)'
    BY <1>2 DEF Arriving
  <2>1. OnItsWay(e) /\ stream # 0
    BY <1>1 DEF Arriving, OnItsWay
  <2>2. CASE e = e0
    <3>1. CASE bus' = Append(bus, e0)
      <4>1. InSeq(e, bus')
        BY <1>7, <2>2, <3>1
      <4> QED
        BY <1>2, <2>1, <4>1 DEF OnItsWay
    <3>2. CASE new = Dispatch(e0)
      <4>1. new.step = "put" /\ stream \in new.todo /\ new.event = e0
        BY <1>1, <2>1, <3>2, DispatchFacts
      <4>2. Handing(w)'
        BY <4>1 DEF Handing
      <4> QED
        BY <1>1, <1>2, <2>1, <2>2, <4>1, <4>2 DEF OnItsWay
    <3> QED
      BY <1>3, <2>1, <3>1, <3>2 DEF OnItsWay
  <2>3. CASE e # e0
    <3>1. InSeq(e, bus) => InSeq(e, bus')
      BY <1>7
    <3>2. \A d \in Senders : sender[d].event = e => sender'[d] = sender[d]
      BY <1>5, <2>3
    <3> QED
      BY <1>2, <2>1, <3>1, <3>2 DEF OnItsWay, Handing
  <2> QED
    BY <2>2, <2>3
<1>11. Spilling'
  <2> SUFFICES ASSUME NEW d \in Senders, sender'[d].step \in {"pop", "again"}, Target(d)' = stream
               PROVE  steady \subseteq shown
    BY <1>2 DEF Spilling
  <2>1. d # w
    BY <1>6
  <2>2. sender'[d] = sender[d] /\ Target(d) = stream
    BY <1>5, <2>1 DEF Target
  <2> QED
    BY <1>1, <2>2 DEF Spilling
<1>12. ASSUME NEW e \in Nat \ doubled' PROVE Unspread(e)'
  <2>1. Unspread(e) /\ e \notin doubled
    BY <1>1, <1>3, <1>12 DEF Once
  <2>2. CASE e = e0
    <3>1. Carries(w, e) /\ sender[w].step = "publish"
      BY <1>2, <2>2 DEF Carries
    <3>2. ~InSeq(e, bus) /\ ~InSeq(e, live) /\ \A q \in DOMAIN queues : ~InSeq(e, queues[q])
      BY <1>1, <2>1, <3>1 DEF Unspread
    <3>3. \A d \in Senders : Carries(d, e)' => d = w
      BY <1>1, <1>5, <2>1, <3>1 DEF Unspread, Carries
    <3>4. bus' = bus \/ new = Idle
      BY <1>3, <1>12, <2>2
    <3>5. Carries(w, e)' => bus' = bus
      BY <1>4, <3>4 DEF Carries
    <3>6. \A d \in Senders : Carries(d, e)' => ~InSeq(e, bus')
      BY <3>2, <3>3, <3>5
    <3>7. stream # 0 => ~InSeq(e, queues[stream])
      BY <1>1, <3>2 DEF StreamType
    <3> QED
      BY <1>2, <3>2, <3>3, <3>6, <3>7 DEF Unspread
  <2>3. CASE e # e0
    <3>1. \A d \in Senders : Carries(d, e)' => Carries(d, e) /\ sender'[d] = sender[d]
      BY <1>5, <1>6, <2>3 DEF Carries
    <3>2. InSeq(e, bus') => InSeq(e, bus)
      BY <1>7, <2>3
    <3> QED
      BY <1>2, <2>1, <3>1, <3>2 DEF Unspread, Handing
  <2> QED
    BY <2>2, <2>3
<1>13. Once'
  <2>1. doubled \subseteq doubled'
    BY <1>3
  <2>2. Single(bus, doubled') /\ Single(live, doubled') /\ \A q \in DOMAIN queues : Single(queues[q], doubled')
    BY <1>1, <2>1 DEF Once, Single
  <2>3. InSeq(e0, bus) => e0 \in doubled'
    <3>1. Carries(w, e0)
      BY <1>2 DEF Carries
    <3> QED
      BY <1>1, <2>1, <3>1 DEF Once, Unspread
  <2>4. Single(bus', doubled')
    <3>1. CASE bus' = Append(bus, e0)
      BY <1>1, <2>2, <2>3, <3>1, Appended
    <3>2. CASE bus' = bus
      BY <2>2, <3>2
    <3> QED
      BY <1>3, <3>1, <3>2
  <2> QED
    BY <1>2, <1>12, <2>2, <2>4 DEF Once
<1> QED
  BY <1>8, <1>9, <1>10, <1>11, <1>13 DEF StreamInv

\* The listener takes the next event from its connection and dispatches it.
LEMMA ListenStep ==
  ASSUME StreamInv, Listen
  PROVE  StreamInv'
<1> DEFINE e0 == Head(bus)
           l == "listener"
           new == sender'[l]
<1>1. /\ StreamType /\ Known /\ Arriving /\ Spilling /\ Once /\ l \in Senders
      /\ bus \in Seq(Nat) /\ sender \in [Senders -> Sending]
  BY DEF StreamInv, StreamType, Senders
<1>2. /\ sender[l].step = "idle" /\ bus # <<>> /\ bus' = Tail(bus)
      /\ sender' = [sender EXCEPT ![l] = Dispatch(e0)]
      /\ UNCHANGED <<hooked, listener, saved, queues, begun, streams, stream, live, shown, steady, doubled>>
  BY DEF Listen, browser, Undisturbed, Idle
<1>3. /\ bus' \in Seq(Nat) /\ e0 \in Nat
      /\ \A x : InSeq(x, bus) <=> InSeq(x, bus') \/ x = e0
      /\ Single(bus', doubled) /\ (InSeq(e0, bus') => e0 \in doubled)
  BY <1>1, <1>2, Tailed DEF Once
<1>4. /\ new = Dispatch(e0) /\ new \in Sending /\ new.step \in {"idle", "put"}
      /\ new.step # "idle" => new.event = e0
      /\ new.todo \subseteq DOMAIN queues /\ (new.step = "put" => new.todo # {})
      /\ stream # 0 => new.step = "put" /\ stream \in new.todo /\ new.event = e0
  BY <1>1, <1>2, <1>3, DispatchFacts
<1>5. /\ \A d \in Senders \ {l} : sender'[d] = sender[d]
      /\ sender' \in [Senders -> Sending]
  BY <1>1, <1>2, <1>4
<1>6. InSeq(e0, bus)
  BY <1>3
<1> HIDE DEF e0, l, new
<1>7. StreamType'
  <2>1. sender' \in [Senders -> Sending]'
    BY <1>2, <1>5 DEF Sending
  <2>2. \A d \in Senders : Handing(d)' => sender'[d].todo # {}
    BY <1>1, <1>4, <1>5 DEF StreamType, Handing, new
  <2> QED
    BY <1>1, <1>2, <1>3, <2>1, <2>2 DEF StreamType
<1>8. Known'
  <2>1. e0 \in 1 .. saved
    BY <1>1, <1>6 DEF Known
  <2>2. \A d \in Senders : sender'[d].step # "idle" => sender'[d].event \in 1 .. saved
    BY <1>1, <1>4, <1>5, <2>1 DEF Known, new
  <2> QED
    BY <1>1, <1>2, <1>3, <2>2 DEF Known
<1>9. Arriving'
  <2> SUFFICES ASSUME NEW e \in steady \ shown PROVE OnItsWay(e)'
    BY <1>2 DEF Arriving
  <2>1. OnItsWay(e) /\ stream # 0
    BY <1>1 DEF Arriving, OnItsWay
  <2>2. CASE e = e0
    <3>1. Handing(l)' /\ sender'[l].event = e /\ stream \in sender'[l].todo
      BY <1>4, <2>1, <2>2 DEF Handing, new
    <3> QED
      BY <1>1, <1>2, <2>1, <3>1 DEF OnItsWay
  <2>3. CASE e # e0
    <3>1. InSeq(e, bus) => InSeq(e, bus')
      BY <1>3, <2>3
    <3>2. \A d \in Senders : sender[d].step # "idle" => sender'[d] = sender[d]
      BY <1>2, <1>5
    <3> QED
      BY <1>2, <2>1, <3>1, <3>2 DEF OnItsWay, Handing
  <2> QED
    BY <2>2, <2>3
<1>10. Spilling'
  <2> SUFFICES ASSUME NEW d \in Senders, sender'[d].step \in {"pop", "again"}, Target(d)' = stream
               PROVE  steady \subseteq shown
    BY <1>2 DEF Spilling
  <2>1. d # l
    BY <1>4 DEF new
  <2>2. sender'[d] = sender[d] /\ Target(d) = stream
    BY <1>5, <2>1 DEF Target
  <2> QED
    BY <1>1, <2>2 DEF Spilling
<1>11. ASSUME NEW e \in Nat \ doubled PROVE Unspread(e)'
  <2>1. Unspread(e)
    BY <1>1 DEF Once
  <2>2. CASE e = e0
    <3>1. /\ \A d \in Senders : ~Carries(d, e)
          /\ ~InSeq(e, live) /\ \A q \in DOMAIN queues : ~InSeq(e, queues[q])
      BY <1>6, <2>1, <2>2 DEF Unspread
    <3>2. \A d \in Senders : Carries(d, e)' => d = l
      BY <1>5, <3>1 DEF Carries
    <3>3. ~InSeq(e, bus')
      BY <1>3, <2>2
    <3>4. stream # 0 => ~InSeq(e, queues[stream])
      BY <1>1, <3>1 DEF StreamType
    <3>5. sender'[l].step # "publish"
      BY <1>4 DEF new
    <3> QED
      BY <1>2, <3>1, <3>2, <3>3, <3>4, <3>5 DEF Unspread
  <2>3. CASE e # e0
    <3>1. \A d \in Senders : Carries(d, e)' => Carries(d, e) /\ sender'[d] = sender[d]
      BY <1>4, <1>5, <2>3 DEF Carries, new
    <3>2. InSeq(e, bus') => InSeq(e, bus)
      BY <1>3
    <3> QED
      BY <1>2, <2>1, <3>1, <3>2 DEF Unspread, Handing
  <2> QED
    BY <2>2, <2>3
<1>12. Once'
  BY <1>1, <1>2, <1>3, <1>11 DEF Once
<1> QED
  BY <1>7, <1>8, <1>9, <1>10, <1>12 DEF StreamInv

\* A new stream begins with an empty queue that nobody has yet to serve.
LEMMA ConnectStep ==
  ASSUME StreamInv, Connect
  PROVE  StreamInv'
<1> DEFINE n == streams + 1
<1>1. /\ StreamType /\ Known /\ Arriving /\ Spilling /\ Once
      /\ streams \in Nat /\ DOMAIN queues \subseteq 1 .. streams
  BY DEF StreamInv, StreamType
<1>2. /\ stream = 0 /\ streams' = n /\ stream' = n
      /\ queues' = [s \in DOMAIN queues \cup {n} |-> IF s = n THEN <<>> ELSE queues[s]]
      /\ UNCHANGED <<hooked, listener, bus, saved, sender, begun, live, shown, steady, doubled>>
  BY DEF Connect, Undisturbed
<1>3. /\ n # 0 /\ n \notin 1 .. streams /\ n \in 0 .. n /\ 1 .. streams \subseteq 1 .. n /\ n \in 1 .. n
      /\ n \in Nat
  BY <1>1
<1>4. /\ DOMAIN queues' = DOMAIN queues \cup {n} /\ queues'[n] = <<>>
      /\ \A q \in DOMAIN queues : queues'[q] = queues[q]
      /\ queues' \in [DOMAIN queues' -> Seq(Nat)]
  <2>2. n \notin DOMAIN queues
    BY <1>1, <1>3
  <2>3. \A q \in DOMAIN queues : queues[q] \in Seq(Nat)
    BY <1>1 DEF StreamType
  <2> HIDE DEF n
  <2> QED
    BY <1>2, <2>2, <2>3
<1> HIDE DEF n
<1>5. \A d \in Senders : n \notin sender[d].todo
  BY <1>1, <1>3 DEF StreamType, Sending
<1>6. \A e : ~InSeq(e, queues'[n])
  BY <1>4 DEF InSeq
<1>7. StreamType'
  <2>1. sender' \in [Senders -> Sending]'
    <3>1. \A d \in Senders : sender[d] \in Sending'
      BY <1>1, <1>2, <1>3 DEF StreamType, Sending
    <3> QED
      BY <1>1, <1>2, <3>1 DEF StreamType
  <2>2. DOMAIN queues' \subseteq 1 .. n
    BY <1>1, <1>3, <1>4
  <2> QED
    BY <1>1, <1>2, <1>3, <1>4, <2>1, <2>2 DEF StreamType, Handing
<1>8. Known'
  <2>1. \A q \in DOMAIN queues' : \A e : InSeq(e, queues'[q]) => e \in 1 .. saved
    BY <1>1, <1>4, <1>6 DEF Known
  <2> QED
    BY <1>1, <1>2, <2>1 DEF Known
<1>9. steady \subseteq shown
  BY <1>1, <1>2 DEF Arriving, OnItsWay
<1>10. Arriving' /\ Spilling'
  BY <1>2, <1>9 DEF Arriving, Spilling
<1>11. ASSUME NEW e \in Nat \ doubled PROVE Unspread(e)'
  <2>1. Unspread(e)
    BY <1>1 DEF Once
  <2>2. ASSUME NEW d \in Senders, Carries(d, e), Handing(d), NEW q \in sender[d].todo
        PROVE  /\ q \in DOMAIN queues' => ~InSeq(e, queues'[q])
               /\ q # n
    BY <1>4, <1>5, <2>1, <2>2, AheadFacts
  <2>3. InSeq(e, bus) \/ (\E d \in Senders : Carries(d, e) /\ sender[d].step = "publish") =>
          ~InSeq(e, live) /\ \A q \in DOMAIN queues' : ~InSeq(e, queues'[q])
    BY <1>4, <1>6, <2>1 DEF Unspread
  <2>4. /\ \A c, d \in Senders : Carries(c, e) /\ Carries(d, e) => c = d
        /\ \A d \in Senders : Carries(d, e) => ~InSeq(e, bus)
    BY <2>1 DEF Unspread
  <2>5. \A d \in Senders : (Carries(d, e)' <=> Carries(d, e)) /\ (Handing(d)' <=> Handing(d))
    BY <1>2 DEF Carries, Handing
  <2> QED
    BY <1>2, <1>6, <2>2, <2>3, <2>4, <2>5 DEF Unspread
<1>12. Once'
  <2>1. \A q \in DOMAIN queues' : Single(queues'[q], doubled)
    BY <1>1, <1>4 DEF Once, Single
  <2> QED
    BY <1>1, <1>2, <1>11, <2>1 DEF Once
<1> QED
  BY <1>7, <1>8, <1>10, <1>12 DEF StreamInv

\* What the generator sends reaches the browser.
LEMMA SendStep ==
  ASSUME StreamInv, Send
  PROVE  StreamInv'
<1> DEFINE e0 == Head(queues[stream])
<1>1. /\ StreamType /\ Known /\ Arriving /\ Spilling /\ Once /\ live \in Seq(Nat)
      /\ queues \in [DOMAIN queues -> Seq(Nat)]
  BY DEF StreamInv, StreamType
<1>2. /\ stream \in begun /\ queues[stream] # <<>> /\ shown' = shown \cup {e0}
      /\ live' = SubSeq(<<e0>> \o live, 1, Min({LiveSize, Len(live) + 1}))
      /\ queues' = [queues EXCEPT ![stream] = Tail(@)]
      /\ UNCHANGED <<hooked, listener, bus, saved, sender, begun, streams, stream, steady, doubled>>
  BY DEF Send, Undisturbed
<1>3. stream # 0 /\ stream \in DOMAIN queues /\ queues[stream] \in Seq(Nat)
  BY <1>1, <1>2 DEF StreamType
<1>4. /\ DOMAIN queues' = DOMAIN queues /\ queues'[stream] = Tail(queues[stream])
      /\ \A q \in DOMAIN queues \ {stream} : queues'[q] = queues[q]
  BY <1>1, <1>2, <1>3
<1>5. /\ queues'[stream] \in Seq(Nat) /\ e0 \in Nat
      /\ \A x : InSeq(x, queues[stream]) <=> InSeq(x, queues'[stream]) \/ x = e0
      /\ Single(queues'[stream], doubled) /\ (InSeq(e0, queues'[stream]) => e0 \in doubled)
  BY <1>1, <1>2, <1>3, <1>4, Tailed DEF Once
<1>6. InSeq(e0, queues[stream])
  BY <1>5
<1>7. InSeq(e0, live) => e0 \in doubled
  <2> SUFFICES ASSUME e0 \notin doubled PROVE ~InSeq(e0, live)
    OBVIOUS
  <2>1. Unspread(e0)
    BY <1>1, <1>5 DEF Once
  <2> QED
    BY <1>3, <1>6, <2>1 DEF Unspread
<1>8. /\ live' \in Seq(Nat) /\ \A x : InSeq(x, live') => InSeq(x, live) \/ x = e0
      /\ Single(live', doubled)
  <2>1. Single(live, doubled)
    BY <1>1 DEF Once
  <2>2. live' = SubSeq(<<e0>> \o live, 1, Min({LiveSize, Len(live) + 1}))
    BY <1>2
  <2>3. e0 \in Nat
    BY <1>5
  <2> HIDE DEF e0
  <2>4. /\ live' \in Seq(Nat) /\ \A x : InSeq(x, live') => InSeq(x, live) \/ x = e0
        /\ Single(live, doubled) /\ (InSeq(e0, live) => e0 \in doubled) => Single(live', doubled)
    <3>1. live \in Seq(Nat)
      BY <1>1
    <3>2. \A s \in Seq(Nat), e \in Nat : \A twice, t : t = SubSeq(<<e>> \o s, 1, Min({LiveSize, Len(s) + 1})) =>
            /\ t \in Seq(Nat) /\ \A x : InSeq(x, t) => InSeq(x, s) \/ x = e
            /\ Single(s, twice) /\ (InSeq(e, s) => e \in twice) => Single(t, twice)
      BY Listed
    <3>3. \A twice, t : t = SubSeq(<<e0>> \o live, 1, Min({LiveSize, Len(live) + 1})) =>
            /\ t \in Seq(Nat) /\ \A x : InSeq(x, t) => InSeq(x, live) \/ x = e0
            /\ Single(live, twice) /\ (InSeq(e0, live) => e0 \in twice) => Single(t, twice)
      BY <2>3, <3>1, <3>2, Zenon
    <3>4. \A t : t = SubSeq(<<e0>> \o live, 1, Min({LiveSize, Len(live) + 1})) =>
            /\ t \in Seq(Nat) /\ \A x : InSeq(x, t) => InSeq(x, live) \/ x = e0
            /\ Single(live, doubled) /\ (InSeq(e0, live) => e0 \in doubled) => Single(t, doubled)
      BY <3>3, Zenon
    <3> QED
      BY <2>2, <3>4, Zenon
  <2> QED
    BY <1>7, <2>1, <2>4
<1> HIDE DEF e0
<1>9. /\ queues' \in [DOMAIN queues' -> Seq(Nat)]
      /\ \A q \in DOMAIN queues : \A x : InSeq(x, queues'[q]) => InSeq(x, queues[q])
      /\ \A q \in DOMAIN queues : Single(queues'[q], doubled)
  <2>1. \A q \in DOMAIN queues : /\ queues'[q] \in Seq(Nat) /\ Single(queues'[q], doubled)
                                 /\ \A x : InSeq(x, queues'[q]) => InSeq(x, queues[q])
    <3> SUFFICES ASSUME NEW q \in DOMAIN queues
                 PROVE  /\ queues'[q] \in Seq(Nat) /\ Single(queues'[q], doubled)
                        /\ \A x : InSeq(x, queues'[q]) => InSeq(x, queues[q])
      OBVIOUS
    <3>1. CASE q = stream
      BY <1>5, <3>1
    <3>2. CASE q # stream
      BY <1>1, <1>4, <3>2 DEF Once
    <3> QED
      BY <3>1, <3>2
  <2> QED
    BY <1>1, <1>2, <1>4, <2>1
<1>10. StreamType'
  BY <1>1, <1>2, <1>4, <1>8, <1>9 DEF StreamType, Sending, Handing
<1>11. Known'
  <2>1. e0 \in 1 .. saved
    BY <1>1, <1>3, <1>6 DEF Known
  <2> QED
    BY <1>1, <1>2, <1>4, <1>8, <1>9, <2>1 DEF Known
<1>12. Arriving'
  <2> SUFFICES ASSUME NEW e \in steady \ shown, e # e0 PROVE OnItsWay(e)'
    BY <1>2 DEF Arriving
  <2>1. OnItsWay(e)
    BY <1>1 DEF Arriving
  <2>2. InSeq(e, queues[stream]) => InSeq(e, queues'[stream])
    BY <1>5
  <2> QED
    BY <1>2, <2>1, <2>2 DEF OnItsWay, Handing
<1>13. Spilling'
  BY <1>1, <1>2 DEF Spilling, Target
<1>14. ASSUME NEW e \in Nat \ doubled PROVE Unspread(e)'
  <2>1. Unspread(e)
    BY <1>1 DEF Once
  <2>2. \A d \in Senders : (Carries(d, e)' <=> Carries(d, e)) /\ (Handing(d)' <=> Handing(d))
    BY <1>2 DEF Carries, Handing
  <2>3. ~InSeq(e, live) /\ e # e0 => ~InSeq(e, live')
    BY <1>8
  <2>4. ~InSeq(e, queues[stream]) => e # e0
    BY <1>6
  <2>5. InSeq(e, bus) \/ (\E d \in Senders : Carries(d, e) /\ sender[d].step = "publish") =>
          ~InSeq(e, live') /\ \A q \in DOMAIN queues : ~InSeq(e, queues'[q])
    BY <1>3, <1>9, <2>1, <2>3, <2>4 DEF Unspread
  <2>6. ASSUME NEW d \in Senders, Carries(d, e), Handing(d), NEW q \in sender[d].todo
        PROVE  /\ q \in DOMAIN queues => ~InSeq(e, queues'[q])
               /\ q = stream => ~InSeq(e, live')
    <3>1. /\ q \in DOMAIN queues => ~InSeq(e, queues[q])
          /\ q = stream => ~InSeq(e, live)
      BY <2>1, <2>6, AheadFacts
    <3> QED
      BY <1>3, <1>9, <2>3, <2>4, <3>1
  <2>7. InSeq(e, queues'[stream]) => ~InSeq(e, live')
    <3> SUFFICES ASSUME InSeq(e, queues'[stream]) PROVE ~InSeq(e, live')
      OBVIOUS
    <3>1. e # e0
      BY <1>5
    <3>2. ~InSeq(e, live)
      BY <1>3, <1>5, <2>1 DEF Unspread
    <3> QED
      BY <2>3, <3>1, <3>2
  <2>8. /\ \A c, d \in Senders : Carries(c, e) /\ Carries(d, e) => c = d
        /\ \A d \in Senders : Carries(d, e) => ~InSeq(e, bus)
    BY <2>1 DEF Unspread
  <2> QED
    BY <1>2, <1>4, <2>2, <2>5, <2>6, <2>7, <2>8 DEF Unspread
<1>15. Once'
  BY <1>1, <1>2, <1>4, <1>8, <1>9, <1>14 DEF Once
<1> QED
  BY <1>10, <1>11, <1>12, <1>13, <1>15 DEF StreamInv

\* A queue that becomes another at the place a sender is at.
LEMMA BecomeFacts ==
  ASSUME StreamType, NEW d \in Senders, NEW q \in Seq(Nat), Become(d, q)
  PROVE  /\ queues' \in [DOMAIN queues -> Seq(Nat)]
         /\ \A s \in DOMAIN queues : s # Target(d) => queues'[s] = queues[s]
         /\ Target(d) \in DOMAIN queues => queues'[Target(d)] = q
  BY DEF Become, StreamType

\* The three steps of a dispatch are steps at one queue: the event is put in, or the queue is full.
LEMMA PutStep ==
  ASSUME StreamInv, NEW d \in Senders, Put(d)
  PROVE  StreamInv'
<1>1. /\ StreamType /\ sender[d] \in Sending /\ sender[d].step = "put" /\ Handing(d)
      /\ UNCHANGED <<hooked, listener, bus, saved, begun, streams, stream, live, shown, doubled>>
  BY DEF StreamInv, StreamType, Put, Handing, browser
<1>2. sender[d].event \in Nat /\ sender[d].todo # {} /\ queues \in [DOMAIN queues -> Seq(Nat)]
  BY <1>1 DEF StreamType, Sending
<1>3. /\ Target(d) \in sender[d].todo /\ Queue(d) \in Seq(Nat)
      /\ Target(d) \in DOMAIN queues => Queue(d) = queues[Target(d)]
  BY <1>1, TargetFacts
<1>4. CASE Len(Queue(d)) < QueueSize
  <2>1. Become(d, Append(Queue(d), sender[d].event)) /\ Proceed(d) /\ steady' = steady
    BY <1>4 DEF Put, Undisturbed
  <2>2. PICK new \in Sending :
           /\ sender' = [sender EXCEPT ![d] = new]
           /\ new.todo = sender[d].todo \ {Target(d)} /\ new.step \in {"idle", "put"}
           /\ new.step = "put" => new.event = sender[d].event /\ new.todo # {}
           /\ new.step = "idle" => new.todo = {}
    BY <1>1, <2>1, ProceedFacts
  <2>3. Append(Queue(d), sender[d].event) \in Seq(Nat)
    BY <1>2, <1>3
  <2>4. /\ queues' \in [DOMAIN queues -> Seq(Nat)]
        /\ \A s \in DOMAIN queues : s # Target(d) => queues'[s] = queues[s]
        /\ Target(d) \in DOMAIN queues =>
             queues'[Target(d)] = Append(queues[Target(d)], sender[d].event)
    BY <1>1, <1>3, <2>1, <2>3, BecomeFacts
  <2>5. Target(d) = stream => Target(d) \in DOMAIN queues
    BY <1>1, <1>3 DEF StreamType, Sending
  <2> QED
    BY <1>1, <2>1, <2>2, <2>4, <2>5, HandStep
<1>5. CASE ~(Len(Queue(d)) < QueueSize)
  <2> DEFINE new == [sender[d] EXCEPT !.step = "pop"]
  <2>1. /\ new \in Sending /\ new.step = "pop" /\ new.todo = sender[d].todo
        /\ new.event = sender[d].event
    BY <1>1 DEF Sending
  <2>2. sender' = [sender EXCEPT ![d] = new] /\ queues' = queues
    BY <1>5 DEF Put
  <2>3. /\ steady' \subseteq steady
        /\ Target(d) = stream => steady' \subseteq shown
    BY <1>5 DEF Put, Disturbed, Undisturbed
  <2> HIDE DEF new
  <2> QED
    BY <1>1, <1>2, <2>1, <2>2, <2>3, HandStep
<1> QED
  BY <1>4, <1>5

\* A full queue loses its oldest event.
LEMMA PopStep ==
  ASSUME StreamInv, NEW d \in Senders, Pop(d)
  PROVE  StreamInv'
<1>1. /\ StreamType /\ sender[d] \in Sending /\ sender[d].step = "pop" /\ Handing(d)
      /\ UNCHANGED <<hooked, listener, bus, saved, begun, streams, stream, live, shown, doubled>>
      /\ steady' = steady
  BY DEF StreamInv, StreamType, Pop, Handing, browser, Undisturbed
<1>2. sender[d].event \in Nat /\ sender[d].todo # {} /\ queues \in [DOMAIN queues -> Seq(Nat)]
  BY <1>1 DEF StreamType, Sending
<1>3. /\ Target(d) \in sender[d].todo /\ Queue(d) \in Seq(Nat)
      /\ Target(d) \in DOMAIN queues => Queue(d) = queues[Target(d)]
  BY <1>1, TargetFacts
<1>4. Target(d) = stream => steady \subseteq shown
  BY <1>1 DEF StreamInv, Spilling
<1>5. CASE Queue(d) = <<>>
  <2>1. Proceed(d) /\ queues' = queues
    BY <1>5 DEF Pop
  <2>2. PICK new \in Sending :
           /\ sender' = [sender EXCEPT ![d] = new]
           /\ new.todo = sender[d].todo \ {Target(d)} /\ new.step \in {"idle", "put"}
           /\ new.step = "put" => new.event = sender[d].event /\ new.todo # {}
           /\ new.step = "idle" => new.todo = {}
    BY <1>1, <2>1, ProceedFacts
  <2> QED
    BY <1>1, <1>2, <1>4, <2>1, <2>2, HandStep
<1>6. CASE Queue(d) # <<>>
  <2> DEFINE new == [sender[d] EXCEPT !.step = "again"]
  <2>1. /\ new \in Sending /\ new.step = "again" /\ new.todo = sender[d].todo
        /\ new.event = sender[d].event
    BY <1>1 DEF Sending
  <2>2. sender' = [sender EXCEPT ![d] = new] /\ Become(d, Tail(Queue(d)))
    BY <1>6 DEF Pop
  <2>3. Tail(Queue(d)) \in Seq(Nat)
    BY <1>3, <1>6
  <2>4. /\ queues' \in [DOMAIN queues -> Seq(Nat)]
        /\ \A s \in DOMAIN queues : s # Target(d) => queues'[s] = queues[s]
        /\ Target(d) \in DOMAIN queues =>
             queues[Target(d)] # <<>> /\ queues'[Target(d)] = Tail(queues[Target(d)])
    BY <1>1, <1>3, <1>6, <2>2, <2>3, BecomeFacts
  <2> HIDE DEF new
  <2> QED
    BY <1>1, <1>2, <1>4, <2>1, <2>2, <2>4, HandStep
<1> QED
  BY <1>5, <1>6

\* The event takes the place, or is dropped.
LEMMA AgainStep ==
  ASSUME StreamInv, NEW d \in Senders, Again(d)
  PROVE  StreamInv'
<1>1. /\ StreamType /\ sender[d] \in Sending /\ sender[d].step = "again" /\ Handing(d)
      /\ UNCHANGED <<hooked, listener, bus, saved, begun, streams, stream, live, shown, doubled>>
      /\ steady' = steady /\ Proceed(d)
  BY DEF StreamInv, StreamType, Again, Handing, browser, Undisturbed
<1>2. sender[d].event \in Nat /\ sender[d].todo # {} /\ queues \in [DOMAIN queues -> Seq(Nat)]
  BY <1>1 DEF StreamType, Sending
<1>3. /\ Target(d) \in sender[d].todo /\ Queue(d) \in Seq(Nat)
      /\ Target(d) \in DOMAIN queues => Queue(d) = queues[Target(d)]
  BY <1>1, TargetFacts
<1>4. Target(d) = stream => steady \subseteq shown
  BY <1>1 DEF StreamInv, Spilling
<1>5. PICK new \in Sending :
           /\ sender' = [sender EXCEPT ![d] = new]
           /\ new.todo = sender[d].todo \ {Target(d)} /\ new.step \in {"idle", "put"}
           /\ new.step = "put" => new.event = sender[d].event /\ new.todo # {}
           /\ new.step = "idle" => new.todo = {}
  BY <1>1, ProceedFacts
<1>6. CASE Len(Queue(d)) < QueueSize
  <2>1. Become(d, Append(Queue(d), sender[d].event))
    BY <1>6 DEF Again
  <2>2. Append(Queue(d), sender[d].event) \in Seq(Nat)
    BY <1>2, <1>3
  <2>3. /\ queues' \in [DOMAIN queues -> Seq(Nat)]
        /\ \A s \in DOMAIN queues : s # Target(d) => queues'[s] = queues[s]
        /\ Target(d) \in DOMAIN queues =>
             queues'[Target(d)] = Append(queues[Target(d)], sender[d].event)
    BY <1>1, <1>3, <2>1, <2>2, BecomeFacts
  <2> QED
    BY <1>1, <1>4, <1>5, <2>3, HandStep
<1>7. CASE ~(Len(Queue(d)) < QueueSize)
  <2>1. queues' = queues
    BY <1>7 DEF Again
  <2> QED
    BY <1>1, <1>2, <1>4, <1>5, <2>1, HandStep
<1> QED
  BY <1>6, <1>7

\* The steps that take something away: the listener and its connection, the browser's
\* stream, a queue, the process.
LEMMA LossStep ==
  ASSUME StreamInv,
         LoseListener \/ RestoreListener \/ Cut \/ RestartServer \/ (\E id \in 1 .. streams : Unsubscribe(id))
  PROVE  StreamInv'
<1>1. StreamType /\ Known /\ Arriving /\ Spilling
  BY DEF StreamInv
<1>2. CASE LoseListener
  <2>1. StreamType'
    BY <1>1, <1>2 DEF LoseListener, browser, StreamType, Sending, Handing
  <2>2. steady' \subseteq shown' /\ steady' \subseteq steady
    BY <1>2 DEF LoseListener, browser, Disturbed
  <2>3. Arriving' /\ Spilling'
    BY <2>2 DEF Arriving, Spilling
  <2> QED
    BY <1>2, <2>1, <2>2, <2>3, Lessened DEF LoseListener, browser
<1>3. CASE RestoreListener
  <2>1. /\ UNCHANGED <<hooked, bus, saved, sender, queues, begun, streams, stream, live, shown, steady, doubled>>
        /\ listener' = "on"
    BY <1>3 DEF RestoreListener, browser, Undisturbed
  <2>2. StreamType'
    BY <1>1, <2>1 DEF StreamType, Sending, Handing
  <2>3. Arriving'
    BY <1>1, <2>1 DEF Arriving, OnItsWay, Handing
  <2>4. Spilling'
    BY <1>1, <2>1 DEF Spilling, Target
  <2> QED
    BY <2>1, <2>2, <2>3, <2>4, Lessened
<1>4. CASE Cut
  <2>1. StreamType'
    BY <1>1, <1>4 DEF Cut, server, StreamType, Sending, Handing
  <2>2. steady' \subseteq shown' /\ steady' \subseteq steady
    BY <1>4 DEF Cut, server, Disturbed
  <2>3. Arriving' /\ Spilling'
    BY <2>2 DEF Arriving, Spilling
  <2> QED
    BY <1>4, <2>1, <2>2, <2>3, Lessened DEF Cut, server
<1>5. CASE RestartServer
  <2>1. /\ hooked' \in BOOLEAN /\ bus' = <<>> /\ sender' = [d \in Senders |-> Idle] /\ queues' = <<>>
        /\ stream' = 0 /\ UNCHANGED <<saved, begun, streams, live, shown, doubled>>
    BY <1>5 DEF RestartServer
  <2>2. Idle \in Sending /\ Idle.step = "idle"
    BY DEF Idle, Sending
  <2>3. DOMAIN queues' = {} /\ queues' \in [DOMAIN queues' -> Seq(Nat)]
    BY <2>1
  <2>4. bus' \in Seq(Nat) /\ sender' \in [Senders -> Sending]'
    BY <2>1, <2>2 DEF Sending
  <2>5. \A d \in Senders : sender'[d].step = "idle"
    BY <2>1, <2>2
  <2>6. StreamType'
    BY <1>1, <2>1, <2>3, <2>4, <2>5 DEF StreamType, Handing
  <2>7. steady' \subseteq shown' /\ steady' \subseteq steady
    BY <1>5 DEF RestartServer, Disturbed
  <2>8. Arriving' /\ Spilling'
    BY <2>7 DEF Arriving, Spilling
  <2> QED
    BY <2>1, <2>3, <2>5, <2>6, <2>7, <2>8, Lessened
<1>6. ASSUME NEW id \in 1 .. streams, Unsubscribe(id) PROVE StreamInv'
  <2>1. /\ id # stream /\ queues' = [s \in DOMAIN queues \ {id} |-> queues[s]]
        /\ UNCHANGED <<hooked, listener, bus, saved, sender, begun, streams, stream, live, shown, steady, doubled>>
    BY <1>6 DEF Unsubscribe, browser, Undisturbed
  <2>2. /\ DOMAIN queues' = DOMAIN queues \ {id} /\ \A s \in DOMAIN queues' : queues'[s] = queues[s]
        /\ queues' \in [DOMAIN queues' -> Seq(Nat)]
    BY <1>1, <2>1 DEF StreamType
  <2>3. StreamType'
    BY <1>1, <2>1, <2>2 DEF StreamType, Sending, Handing
  <2>4. Arriving'
    <3>1. stream # 0 => queues'[stream] = queues[stream]
      BY <1>1, <2>1, <2>2 DEF StreamType
    <3>2. ASSUME NEW e \in steady \ shown PROVE OnItsWay(e)'
      <4>1. OnItsWay(e)
        BY <1>1 DEF Arriving
      <4> QED
        BY <2>1, <3>1, <4>1 DEF OnItsWay, Handing
    <3> QED
      BY <2>1, <3>2 DEF Arriving
  <2>5. Spilling'
    BY <1>1, <2>1 DEF Spilling, Target
  <2> QED
    BY <2>1, <2>2, <2>3, <2>4, <2>5, Lessened
<1> QED
  BY <1>2, <1>3, <1>4, <1>5, <1>6

\* The steps of the page: its stream opens, it asks for summaries and they arrive.
LEMMA PageStep ==
  ASSUME StreamInv,
         \/ Open \/ Begin \/ Poll \/ ToggleAutoRefresh
         \/ \E i \in 1 .. Len(requests) : Answer(i) \/ Arrive(i) \/ Fail(i)
         \/ UNCHANGED streamVars
  PROVE  StreamInv'
<1>1. 0 \notin begun
  BY DEF StreamInv, StreamType
<1>2. CASE Open
  BY <1>1, <1>2, Unmoved DEF Open, server, Undisturbed
<1>3. CASE Begin
  BY <1>1, <1>3, Unmoved DEF Begin, browser, Undisturbed
<1>4. CASE Poll
  BY <1>1, <1>4, Unmoved DEF Poll, server, Undisturbed
<1>5. CASE ToggleAutoRefresh
  BY <1>1, <1>5, Unmoved DEF ToggleAutoRefresh, server, Undisturbed
<1>6. ASSUME NEW i \in 1 .. Len(requests), Answer(i) \/ Arrive(i) \/ Fail(i) PROVE StreamInv'
  BY <1>1, <1>6, Unmoved DEF Answer, Arrive, Fail, server, Undisturbed
<1>7. CASE UNCHANGED streamVars
  BY <1>1, <1>7, Unmoved DEF streamVars, server, browser
<1> QED
  BY <1>2, <1>3, <1>4, <1>5, <1>6, <1>7

\* Every step keeps the invariant.
LEMMA StreamStep == StreamInv /\ [StreamNext]_streamVars => StreamInv'
<1> SUFFICES ASSUME StreamInv, [StreamNext]_streamVars PROVE StreamInv'
  OBVIOUS
<1>1. ASSUME NEW w \in Workers, Save(w) \/ Publish(w) PROVE StreamInv'
  BY <1>1, SaveStep, PublishStep
<1>2. ASSUME NEW d \in Senders, Put(d) \/ Pop(d) \/ Again(d) PROVE StreamInv'
  BY <1>2, PutStep, PopStep, AgainStep
<1>3. CASE Listen \/ Connect \/ Send
  BY <1>3, ListenStep, ConnectStep, SendStep
<1>4. CASE LoseListener \/ RestoreListener \/ Cut \/ RestartServer \/ (\E id \in 1 .. streams : Unsubscribe(id))
  BY <1>4, LossStep
<1>5. CASE \/ Open \/ Begin \/ Poll \/ ToggleAutoRefresh
           \/ \E i \in 1 .. Len(requests) : Answer(i) \/ Arrive(i) \/ Fail(i)
           \/ UNCHANGED streamVars
  BY <1>5, PageStep
<1> QED
  BY <1>1, <1>2, <1>3, <1>4, <1>5 DEF StreamNext

\* For any workers, queues, lists and faults: an event that is published while the
\* browser's stream and the listener are up, and that nothing comes in the way of, is shown
\* or on its way; and the browser lists an event twice only when it was published twice
\* (publish, _dispatch_local, threat_stream, useRealTimeStream).
THEOREM EventsReachTheDashboard == StreamSpec => []EventsArrive
<1>1. StreamInv => EventsArrive
  <2> SUFFICES ASSUME StreamInv PROVE EventsArrive
    OBVIOUS
  <2>1. StreamType /\ Arriving /\ Single(live, doubled)
    BY DEF StreamInv, Once
  <2>2. ASSUME NEW e \in steady \ shown
        PROVE  \/ stream # 0 /\ \E i \in 1 .. Len(queues[stream]) : queues[stream][i] = e
               \/ e \in Range(bus) \/ \E d \in Senders : sender[d].event = e
    <3>1. OnItsWay(e)
      BY <2>1 DEF Arriving
    <3>2. InSeq(e, bus) => e \in Range(bus)
      <4>1. bus \in Seq(Nat) /\ DOMAIN bus = 1 .. Len(bus)
        BY <2>1 DEF StreamType
      <4> QED
        BY <4>1 DEF InSeq, Range
    <3> QED
      BY <3>1, <3>2 DEF OnItsWay, InSeq
  <2>3. \A i, j \in 1 .. Len(live) : i < j /\ live[i] = live[j] => live[i] \in doubled
    BY <2>1 DEF Single
  <2> QED
    BY <2>2, <2>3 DEF EventsArrive
<1> QED
  BY <1>1, StreamBegins, StreamStep, PTL DEF StreamSpec

-----------------------------------------------------------------------------
(* ApiCache                                                                *)

Micro == Min({DefaultTtl, MicroTtl})
Oldest == Ttl + Micro + 2 * Slow

\* The backfill's time to live is a number.
LEMMA MicroType == Micro \in Nat
<1>1. Micro = DefaultTtl \/ Micro = MicroTtl
  <2>1. CASE DefaultTtl <= MicroTtl
    <3>1. \E x \in {DefaultTtl, MicroTtl} : \A y \in {DefaultTtl, MicroTtl} : x <= y
      BY <2>1, CacheAssumption
    <3> QED
      BY <3>1 DEF Micro, Min
  <2>2. CASE MicroTtl <= DefaultTtl
    <3>1. \E x \in {DefaultTtl, MicroTtl} : \A y \in {DefaultTtl, MicroTtl} : x <= y
      BY <2>2, CacheAssumption
    <3> QED
      BY <3>1 DEF Micro, Min
  <2> QED
    BY <2>1, <2>2, CacheAssumption
<1> QED
  BY <1>1, CacheAssumption

-----------------------------------------------------------------------------
(* The inductive invariant: the age of a copy and what it has left to live, together, *)
(* only lose; so do the age a request holds and the time the request still has.       *)

Copy == [age : Nat, left : {-1} \cup Nat]
RequestSteps == {"none", "look", "backfill", "read", "keep", "share"}

CacheType ==
  /\ l1 \in [Replicas -> Copy] /\ l2 \in Copy
  /\ request \in [Replicas -> [step : RequestSteps, age : Nat, since : 0 .. Slow]]
  /\ given \in Nat

CopiesExpire ==
  /\ l2.left > 0 => l2.age + l2.left <= Ttl + Slow
  /\ \A r \in Replicas : l1[r].left >= 0 => l1[r].age + l1[r].left <= Oldest

RequestsEnd ==
  \A r \in Replicas :
    /\ request[r].step \in {"keep", "share"} => request[r].age <= request[r].since
    /\ request[r].step = "backfill" => request[r].age <= Ttl + Slow + request[r].since

CacheInv == CacheType /\ CopiesExpire /\ RequestsEnd /\ given <= Oldest

\* The invariant holds at first.
LEMMA InitFresh == CacheInit => CacheInv
BY CacheAssumption, MicroType
   DEF CacheInit, CacheInv, CacheType, CopiesExpire, RequestsEnd, Copy, RequestSteps, Nothing, Waiting, Oldest

\* A second takes from what a copy has left what it adds to its age.
LEMMA OlderFacts ==
  ASSUME NEW c \in Copy
  PROVE  /\ Older(c) \in Copy
         /\ Older(c).left >= 0 => /\ c.left > 0
                                  /\ Older(c).age + Older(c).left = c.age + c.left
<1>1. CASE c.left <= 0
  BY <1>1 DEF Older, Nothing, Copy
<1>2. CASE c.left > 0
  <2>1. Older(c) = [age |-> c.age + 1, left |-> c.left - 1]
    BY <1>2 DEF Older, Copy
  <2>2. c.age \in Nat /\ c.left \in Nat
    BY <1>2 DEF Copy
  <2> QED
    BY <1>2, <2>1, <2>2 DEF Copy
<1> QED
  BY <1>1, <1>2 DEF Copy

\* What a request is after its step, and that the others are as they were.
LEMMA GoesFacts ==
  ASSUME CacheType, NEW r \in Replicas, NEW step \in RequestSteps, NEW age \in Nat, Goes(r, step, age)
  PROVE  /\ request'[r] = [step |-> step, age |-> age, since |-> request[r].since]
         /\ request[r].since \in 0 .. Slow
         /\ request'[r] \in [step : RequestSteps, age : Nat, since : 0 .. Slow]
         /\ \A other \in Replicas : other # r => request'[other] = request[other]
         /\ request' \in [Replicas -> [step : RequestSteps, age : Nat, since : 0 .. Slow]]
<1> DEFINE q == request[r]
<1>1. q \in [step : RequestSteps, age : Nat, since : 0 .. Slow] /\ q.since \in 0 .. Slow
  BY DEF CacheType
<1>2. [q EXCEPT !.step = step, !.age = age] = [step |-> step, age |-> age, since |-> q.since]
  <2>1. [q EXCEPT !.step = step] = [step |-> step, age |-> q.age, since |-> q.since]
    BY <1>1
  <2>2. [[step |-> step, age |-> q.age, since |-> q.since] EXCEPT !.age = age]
          = [step |-> step, age |-> age, since |-> q.since]
    OBVIOUS
  <2> QED
    BY <2>1, <2>2, Zenon
<1>3. request' = [request EXCEPT ![r] = [step |-> step, age |-> age, since |-> request[r].since]]
  BY <1>2 DEF Goes
<1>4. request[r].since \in 0 .. Slow
  BY <1>1
<1> QED
  BY <1>3, <1>4 DEF CacheType

\* Every step preserves the invariant.
LEMMA StepFresh == CacheInv /\ [CacheNext]_cacheVars => CacheInv'
<1> SUFFICES ASSUME CacheInv, [CacheNext]_cacheVars PROVE CacheInv'
  OBVIOUS
<1> USE CacheAssumption, MicroType DEF Copy, RequestSteps
<1>0. CacheType /\ CopiesExpire /\ RequestsEnd /\ given <= Oldest
  BY DEF CacheInv
<1>1. ASSUME NEW r \in Replicas, Ask(r) PROVE CacheInv'
  <2>1. CASE l1[r].left >= 0 /\ Answered(r, l1[r].age)
    BY <1>0, <1>1, <2>1 DEF Ask, Answered, CacheInv, CacheType, CopiesExpire, RequestsEnd, Waiting, Oldest
  <2>2. CASE Goes(r, "look", 0) /\ UNCHANGED given
    BY <1>0, <1>1, <2>2 DEF Ask, Goes, CacheInv, CacheType, CopiesExpire, RequestsEnd
  <2> QED
    BY <1>1, <2>1, <2>2 DEF Ask
<1>2. ASSUME NEW r \in Replicas, Look(r) PROVE CacheInv'
  <2>1. CASE l2.left > 0 /\ Goes(r, "backfill", l2.age)
    <3>1. l2.age \in Nat /\ l2.age <= Ttl + Slow
      BY <1>0, <2>1 DEF CacheType, CopiesExpire
    <3>2. /\ request'[r] = [step |-> "backfill", age |-> l2.age, since |-> request[r].since]
          /\ request[r].since \in 0 .. Slow
          /\ \A other \in Replicas : other # r => request'[other] = request[other]
          /\ request' \in [Replicas -> [step : RequestSteps, age : Nat, since : 0 .. Slow]]
      BY <1>0, <1>2, <2>1, <3>1, GoesFacts
    <3>3. RequestsEnd'
      BY <1>0, <3>1, <3>2 DEF RequestsEnd
    <3> QED
      BY <1>0, <1>2, <3>2, <3>3 DEF Look, CacheInv, CacheType, CopiesExpire, Oldest
  <2>2. CASE Goes(r, "read", 0)
    BY <1>0, <1>2, <2>2 DEF Look, Goes, CacheInv, CacheType, CopiesExpire, RequestsEnd
  <2> QED
    BY <1>2, <2>1, <2>2 DEF Look
<1>3. ASSUME NEW r \in Replicas, Backfill(r) PROVE CacheInv'
  <2>1. request[r].age <= Ttl + 2 * Slow /\ request[r].age \in Nat
    BY <1>0, <1>3 DEF Backfill, CacheType, RequestsEnd
  <2>2. l1' = [l1 EXCEPT ![r] = [age |-> request[r].age, left |-> Micro]]
    BY <1>3 DEF Backfill, Backfilled, Micro
  <2>3. request[r].age + Micro <= Oldest /\ request[r].age <= Oldest
    BY <2>1 DEF Oldest
  <2>4. UNCHANGED l2 /\ request' = [request EXCEPT ![r] = Waiting] /\ given' = request[r].age
    BY <1>3 DEF Backfill, Backfilled, Answered
  <2>5. CacheType'
    BY <1>0, <2>1, <2>2, <2>4 DEF CacheType, Waiting
  <2>6. CopiesExpire'
    BY <1>0, <2>2, <2>3, <2>4 DEF CopiesExpire, CacheType, Oldest
  <2>7. RequestsEnd'
    BY <1>0, <2>4 DEF RequestsEnd, CacheType, Waiting
  <2> QED
    BY <2>3, <2>4, <2>5, <2>6, <2>7 DEF CacheInv, Oldest
<1>4. ASSUME NEW r \in Replicas, ReadDatabase(r) PROVE CacheInv'
  <2>1. CASE Goes(r, "keep", 0)
    <3>1. /\ request'[r] = [step |-> "keep", age |-> 0, since |-> request[r].since]
          /\ request[r].since \in 0 .. Slow
          /\ \A other \in Replicas : other # r => request'[other] = request[other]
          /\ request' \in [Replicas -> [step : RequestSteps, age : Nat, since : 0 .. Slow]]
      BY <1>0, <1>4, <2>1, GoesFacts
    <3>2. RequestsEnd'
      BY <1>0, <3>1 DEF RequestsEnd
    <3> QED
      BY <1>0, <1>4, <3>1, <3>2 DEF ReadDatabase, CacheInv, CacheType, CopiesExpire, Oldest
  <2>2. CASE request' = [request EXCEPT ![r] = Waiting]
    BY <1>0, <1>4, <2>2 DEF ReadDatabase, CacheInv, CacheType, CopiesExpire, RequestsEnd, Waiting
  <2> QED
    BY <1>4, <2>1, <2>2 DEF ReadDatabase
<1>5. ASSUME NEW r \in Replicas, Keep(r) PROVE CacheInv'
  <2>1. request[r].age <= Slow /\ request[r].age \in Nat
    BY <1>0, <1>5 DEF Keep, CacheType, RequestsEnd
  <2>2. request[r].age + Ttl <= Oldest
    BY <2>1 DEF Oldest
  <2>3. Goes(r, "share", request[r].age) /\ UNCHANGED <<l2, given>>
        /\ l1' = [l1 EXCEPT ![r] = [age |-> request[r].age, left |-> Ttl]]
    BY <1>5 DEF Keep
  <2>4. /\ request'[r] = [step |-> "share", age |-> request[r].age, since |-> request[r].since]
        /\ \A other \in Replicas : other # r => request'[other] = request[other]
        /\ request' \in [Replicas -> [step : RequestSteps, age : Nat, since : 0 .. Slow]]
    BY <1>0, <2>1, <2>3, GoesFacts
  <2>5. CopiesExpire'
    BY <1>0, <2>1, <2>2, <2>3 DEF CopiesExpire, CacheType, Oldest
  <2>6. RequestsEnd'
    BY <1>0, <1>5, <2>4 DEF RequestsEnd, Keep
  <2>7. l1' \in [Replicas -> Copy]
    BY <1>0, <2>1, <2>3 DEF CacheType
  <2>8. CacheType'
    BY <1>0, <2>3, <2>4, <2>7 DEF CacheType
  <2> QED
    BY <1>0, <2>3, <2>5, <2>6, <2>8 DEF CacheInv, Oldest
<1>6. ASSUME NEW r \in Replicas, Share(r) PROVE CacheInv'
  <2>1. request[r].age <= Slow /\ request[r].age \in Nat
    BY <1>0, <1>6 DEF Share, CacheType, RequestsEnd
  <2>2. request[r].age <= Oldest
    BY <2>1 DEF Oldest
  <2> QED
    BY <1>0, <1>6, <2>1, <2>2
       DEF Share, Answered, CacheInv, CacheType, CopiesExpire, RequestsEnd, Waiting
<1>7. ASSUME NEW r \in Replicas, PushOut(r) PROVE CacheInv'
  BY <1>0, <1>7 DEF PushOut, CacheInv, CacheType, CopiesExpire, RequestsEnd, Nothing
<1>8. ASSUME NEW r \in Replicas, RestartReplica(r) PROVE CacheInv'
  BY <1>0, <1>8 DEF RestartReplica, CacheInv, CacheType, CopiesExpire, RequestsEnd, Nothing, Waiting
<1>9. ASSUME Tick PROVE CacheInv'
  <2>1. l2' \in Copy /\ (l2'.left > 0 => l2'.age + l2'.left <= Ttl + Slow)
    <3>1. l2 \in Copy /\ l2' = Older(l2)
      BY <1>0, <1>9 DEF Tick, CacheType
    <3> QED
      BY <1>0, <3>1, OlderFacts DEF CopiesExpire
  <2>2. ASSUME NEW r \in Replicas
        PROVE  l1'[r] \in Copy /\ (l1'[r].left >= 0 => l1'[r].age + l1'[r].left <= Oldest)
    <3>1. l1[r] \in Copy /\ l1'[r] = Older(l1[r])
      BY <1>0, <1>9, <2>2 DEF Tick, CacheType
    <3> QED
      BY <1>0, <2>2, <3>1, OlderFacts DEF CopiesExpire
  <2>3. ASSUME NEW r \in Replicas
        PROVE  /\ request'[r] \in [step : RequestSteps, age : Nat, since : 0 .. Slow]
               /\ request'[r].step \in {"keep", "share"} => request'[r].age <= request'[r].since
               /\ request'[r].step = "backfill" => request'[r].age <= Ttl + Slow + request'[r].since
    <3> DEFINE q == request[r]
    <3>1. /\ q \in [step : RequestSteps, age : Nat, since : 0 .. Slow]
          /\ q.step \in RequestSteps /\ q.age \in Nat /\ q.since \in 0 .. Slow
      BY <1>0, <2>3 DEF CacheType
    <3>2. CASE q.step = "none"
      <4>1. request'[r] = Waiting
        BY <1>9, <2>3, <3>2 DEF Tick
      <4> QED
        BY <4>1 DEF Waiting
    <3>3. CASE q.step # "none"
      <4>1. q.since < Slow
        BY <1>9, <2>3, <3>3 DEF Tick
      <4>2. request'[r] = [q EXCEPT !.since = @ + 1,
                                    !.age = IF q.step \in {"look", "read"} THEN 0 ELSE @ + 1]
        BY <1>9, <2>3, <3>3 DEF Tick
      <4>3. request'[r] = [step |-> q.step, since |-> q.since + 1,
                           age |-> IF q.step \in {"look", "read"} THEN 0 ELSE q.age + 1]
        BY <3>1, <4>2
      <4> QED
        BY <1>0, <2>3, <3>1, <4>1, <4>3 DEF RequestsEnd
    <3> QED
      BY <3>2, <3>3
  <2>4. CacheType'
    BY <1>0, <1>9, <2>1, <2>2, <2>3 DEF Tick, CacheType
  <2> QED
    BY <1>0, <1>9, <2>1, <2>2, <2>3, <2>4 DEF Tick, CacheInv, CopiesExpire, RequestsEnd, Oldest
<1>10. CASE RedisGoes
  BY <1>0, <1>10 DEF RedisGoes, CacheInv, CacheType, CopiesExpire, RequestsEnd
<1>11. CASE RedisReturns
  BY <1>0, <1>11 DEF RedisReturns, CacheInv, CacheType, CopiesExpire, RequestsEnd, Nothing
<1>12. CASE UNCHANGED cacheVars
  BY <1>0, <1>12 DEF cacheVars, CacheInv, CacheType, CopiesExpire, RequestsEnd
<1> QED
  BY <1>1, <1>2, <1>3, <1>4, <1>5, <1>6, <1>7, <1>8, <1>9, <1>10, <1>11, <1>12 DEF CacheNext

\* However many replicas fill their memory from Redis and Redis from their reads, an answer
\* is never older than its time to live, a backfill's, and two requests (TieredCache.get).
THEOREM Freshness == CacheSpec => []AnswersFresh
<1>1. CacheInv => AnswersFresh
  BY DEF CacheInv, AnswersFresh, Oldest, Micro
<1> QED
  BY <1>1, InitFresh, StepFresh, PTL DEF CacheSpec
=============================================================================
