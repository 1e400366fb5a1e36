------------------------------ MODULE MCIngest ------------------------------
(* Instances of Ingest for TLC. *)
EXTENDS Ingest

CONSTANTS p1, p2, e1, e2, e3, a, b, i1, n1, n2

TwoReplicas == {p1, p2}
OneReplica == {p1}

\* e1 and e2 hold the same payload, encrypted twice; e3 another one with the same
\* payload_id, collected later, with a password in it.
ThreeEnvelopes == {e1, e2, e3}
TwoTexts == {a, b}
TextOfThree == [e \in ThreeEnvelopes |-> IF e = e3 THEN b ELSE a]
OneId == {i1}
TwoTimes == {n1, n2}
IdOfTwo == [t \in TwoTexts |-> i1]
TimeOfTwo == [t \in TwoTexts |-> IF t = a THEN n1 ELSE n2]
LaterHasSecret == {b}
=============================================================================
