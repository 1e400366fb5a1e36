------------------------ MODULE MCClickHouseBatcher ------------------------
(* Small instances of ClickHouseBatcher for TLC. *)
EXTENDS ClickHouseBatcher

CONSTANTS r1, r2, r3

ThreeRows == {r1, r2, r3}

\* anomalies is the one table the server feeds whose name is a single word.
TwoTables == {"anomalies", "raw_payloads"}
SingleWord == {"anomalies"}

OfThreeRows == [r \in ThreeRows |-> IF r = r3 THEN "raw_payloads" ELSE "anomalies"]
=============================================================================
