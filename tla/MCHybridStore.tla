--------------------------- MODULE MCHybridStore ---------------------------
(* Instances of HybridStore for TLC. *)
EXTENDS HybridStore, TLC

CONSTANTS r1, r2, p1, p2, alice, bob

MCWeek == (p1 :> 0 @@ p2 :> 1)
MCOwner == (p1 :> alice @@ p2 :> bob)
MCLevel == (p1 :> 3 @@ p2 :> 1)
Mixed == {(r1 :> TRUE @@ r2 :> FALSE)}

============================================================================
