--------------------------- MODULE MCPgTaskQueue ---------------------------
(* Instances of PgTaskQueue for TLC. *)
EXTENDS PgTaskQueue

CONSTANTS w1, w2, t1, t2

TwoWorkers == {w1, w2}
TwoTasks == {t1, t2}
OneTask == {t1}
=============================================================================
