------------------------------ MODULE ApiCache ------------------------------
(***************************************************************************)
(* One key of the response cache (TieredCache): each replica has a copy in *)
(* its memory, L1, and all of them share one in Redis, L2.  A handler asks *)
(* the cache, then the database, and fills the cache (get_stats,           *)
(* get_pc_status); it does not await, so that a replica answers one        *)
(* request at a time, while other replicas and the clock go on.            *)
(*                                                                         *)
(* A value is known by its age, the seconds since it was read from the     *)
(* database; a copy keeps the seconds it has left.  The other keys of L1   *)
(* show when they push this one out.                                       *)
(***************************************************************************)
EXTENDS Integers, FiniteSetsExt

CONSTANTS
  Replicas,    \* server processes
  Ttl,         \* what the handler gives its values to live
  DefaultTtl,  \* default_ttl of the cache
  MicroTtl,    \* the most a backfill gives
  Slow         \* bound: the seconds a request may take

ASSUME CacheAssumption ==
  DefaultTtl \in Nat /\ Ttl \in 1 .. DefaultTtl /\ MicroTtl \in Nat \ {0} /\ Slow \in Nat

VARIABLES
  l1,       \* the copy in each replica's memory
  l2,       \* the copy in Redis
  redis,    \* whether Redis answers
  linked,   \* the replicas that found Redis when they started
  request,  \* what each replica's handler is about to do, with the age of the value it holds
  given     \* the age of the value answered with last

cacheVars == <<l1, l2, redis, linked, request, given>>

Nothing == [age |-> 0, left |-> -1]
Waiting == [step |-> "none", age |-> 0, since |-> 0]

CacheInit ==
  /\ l1 = [r \in Replicas |-> Nothing] /\ l2 = Nothing /\ redis \in BOOLEAN
  /\ request = [r \in Replicas |-> Waiting] /\ given = 0 /\ linked \in SUBSET Replicas

Reached(r) == redis /\ r \in linked
Goes(r, step, age) == request' = [request EXCEPT ![r] = [@ EXCEPT !.step = step, !.age = age]]
Answered(r, age) == request' = [request EXCEPT ![r] = Waiting] /\ given' = age

\* TieredCache.get: an answer from memory, unless it has expired.
Ask(r) ==
  /\ request[r].step = "none"
  /\ IF l1[r].left >= 0 THEN Answered(r, l1[r].age)
     ELSE Goes(r, "look", 0) /\ UNCHANGED given
  /\ UNCHANGED <<l1, l2, redis, linked>>

\* Redis is asked when it answers a ping; the key is gone as soon as its time is up.
Look(r) ==
  /\ request[r].step = "look"
  /\ IF Reached(r) /\ l2.left > 0 THEN Goes(r, "backfill", l2.age) ELSE Goes(r, "read", 0)
  /\ UNCHANGED <<l1, l2, redis, linked, given>>

\* Variant: the value is set as a new one, in both places.
Backfilled_Set(r) ==
  /\ l1' = [l1 EXCEPT ![r] = [age |-> request[r].age, left |-> DefaultTtl]]
  /\ l2' = IF Reached(r) THEN [age |-> request[r].age, left |-> DefaultTtl] ELSE l2

\* A value from Redis lives in memory for a short time of its own.
Backfilled(r) ==
  /\ l1' = [l1 EXCEPT ![r] = [age |-> request[r].age, left |-> Min({DefaultTtl, MicroTtl})]]
  /\ UNCHANGED l2

Backfill(r) ==
  /\ request[r].step = "backfill" /\ Backfilled(r) /\ Answered(r, request[r].age)
  /\ UNCHANGED <<redis, linked>>

\* The database is read, or the request fails.
ReadDatabase(r) ==
  /\ request[r].step = "read"
  /\ Goes(r, "keep", 0) \/ request' = [request EXCEPT ![r] = Waiting]
  /\ UNCHANGED <<l1, l2, redis, linked, given>>

\* TieredCache.set, in memory and then, when it answers, in Redis.
Keep(r) ==
  /\ request[r].step = "keep"
  /\ l1' = [l1 EXCEPT ![r] = [age |-> request[r].age, left |-> Ttl]]
  /\ Goes(r, "share", request[r].age) /\ UNCHANGED <<l2, redis, linked, given>>
Share(r) ==
  /\ request[r].step = "share"
  /\ l2' = IF Reached(r) THEN [age |-> request[r].age, left |-> Ttl] ELSE l2
  /\ Answered(r, request[r].age) /\ UNCHANGED <<l1, redis, linked>>

-----------------------------------------------------------------------------
(* The surroundings *)

Older(copy) == IF copy.left <= 0 THEN Nothing ELSE [age |-> copy.age + 1, left |-> copy.left - 1]

\* A second passes for the values kept and for those a handler holds.
Tick ==
  /\ \A r \in Replicas : request[r].step # "none" => request[r].since < Slow
  /\ l1' = [r \in Replicas |-> Older(l1[r])] /\ l2' = Older(l2)
  /\ request' = [r \in Replicas |->
       IF request[r].step = "none" THEN Waiting
       ELSE [request[r] EXCEPT !.since = @ + 1,
                               !.age = IF request[r].step \in {"look", "read"} THEN 0 ELSE @ + 1]]
  /\ UNCHANGED <<redis, linked, given>>

RedisGoes == redis /\ redis' = FALSE /\ UNCHANGED <<l1, l2, linked, request, given>>
RedisReturns == ~redis /\ redis' = TRUE /\ l2' \in {l2, Nothing} /\ UNCHANGED <<l1, linked, request, given>>
PushOut(r) == l1' = [l1 EXCEPT ![r] = Nothing] /\ UNCHANGED <<l2, redis, linked, request, given>>
RestartReplica(r) ==
  /\ l1' = [l1 EXCEPT ![r] = Nothing] /\ request' = [request EXCEPT ![r] = Waiting]
  /\ linked' = IF redis THEN linked \cup {r} ELSE linked \ {r}
  /\ UNCHANGED <<l2, redis, given>>

CacheNext ==
  \/ \E r \in Replicas : Ask(r) \/ Look(r) \/ Backfill(r) \/ ReadDatabase(r) \/ Keep(r) \/ Share(r)
                         \/ PushOut(r) \/ RestartReplica(r)
  \/ Tick \/ RedisGoes \/ RedisReturns

CacheSpec == CacheInit /\ [][CacheNext]_cacheVars

-----------------------------------------------------------------------------
(* Properties *)

\* However replicas fill their memory from Redis and Redis from their reads, no answer is
\* older than the time its value was given, once more a backfill's, and the time of the
\* request that stored it and of the one that fetched it (TieredCache.get, set).
AnswersFresh == given <= Ttl + Min({DefaultTtl, MicroTtl}) + 2 * Slow
=============================================================================
