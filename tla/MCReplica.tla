------------------------------ MODULE MCReplica ------------------------------
(***************************************************************************)
(* What server processes do beside the telemetry, for TLC: they migrate    *)
(* the schema when they start, stream events to the dashboard and cache    *)
(* answers.  The three share no state: a behaviour follows one of them.    *)
(***************************************************************************)
EXTENDS Migrations, EventStream, ApiCache

CONSTANTS w1, w2, r1, r2, p1, p2, p3

TwoWorkers == {w1, w2}
TwoReplicas == {r1, r2}
ThreeProcesses == {p1, p2, p3}
LastFile == {Files}

VARIABLE followed

vars == <<migrationVars, streamVars, cacheVars, followed>>

Init ==
  /\ followed \in {"schema", "stream", "cache"}
  /\ MigrationInit /\ StreamInit /\ CacheInit
  /\ followed # "stream" => ~hooked
  /\ followed # "cache" => redis /\ linked = {}

Next ==
  \/ followed = "schema" /\ MigrationNext /\ UNCHANGED <<streamVars, cacheVars, followed>>
  \/ followed = "stream" /\ StreamNext /\ UNCHANGED <<migrationVars, cacheVars, followed>>
  \/ followed = "cache" /\ CacheNext /\ UNCHANGED <<migrationVars, streamVars, followed>>

Spec == Init /\ [][Next]_vars /\ (followed = "stream" => StreamFairness)
=============================================================================
