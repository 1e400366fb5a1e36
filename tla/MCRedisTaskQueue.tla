-------------------------- MODULE MCRedisTaskQueue --------------------------
(* Instances of RedisTaskQueue for TLC. *)
EXTENDS RedisTaskQueue

CONSTANTS w1, w2, t1, t2

TwoWorkers == {w1, w2}
TwoTasks == {t1, t2}
OneTask == {t1}
=============================================================================
