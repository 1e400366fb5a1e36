----------------------------- MODULE MCAnalysis -----------------------------
(* Instances of Analysis for TLC. *)
EXTENDS Analysis

CONSTANTS w1, w2, t1, t2, u1, standard

TwoWorkers == {w1, w2}
OneUser == {u1}
OneRole == {standard}
RoleOfAll == [u \in OneUser |-> standard]
InSync == [w \in TwoWorkers |-> 0]
Ahead == [w \in TwoWorkers |-> IF w = w1 THEN 2 ELSE 0]

\* A payload the detectors find benign or critical, and one without
\* corroboration that may be idle.
TwoTasks == {t1, t2}
UserOfTwo == [t \in TwoTasks |-> u1]
SecondIdle == {t2}
RawOfTwo == [t \in TwoTasks |-> IF t = t1 THEN {3000, 9500} ELSE {4000}]
FirstConfirmed == {t1}
OneRetry == [t \in TwoTasks |-> IF t = t1 THEN 2 ELSE 1]
=============================================================================
