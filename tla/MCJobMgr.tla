------------------------------ MODULE MCJobMgr ------------------------------
(* Instances of JobMgr for TLC. *)
EXTENDS JobMgr, TLC

CONSTANTS a, b, j1, j2

OneOwner == {a}
OwnerOfBoth == j1 :> a @@ j2 :> a
OwnerOfOne == j1 :> a
=============================================================================
