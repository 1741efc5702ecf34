------------------------------ MODULE MCAdoption ------------------------------
(* Instances of Adoption for TLC: two drafts, each with a .env of its own.  *)
EXTENDS Adoption

CONSTANTS d1, d2, p1, p2, c1, c2

EnvOfDraft == d1 :> p1 @@ d2 :> p2

AnyCall == Permutations(Calls)
=============================================================================
