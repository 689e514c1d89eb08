------------------------- MODULE MCEmptyClaimCache -------------------------
(* EmptyClaimCache on small instances.                                       *)
EXTENDS EmptyClaimCache, TLC

Symmetry == Permutations(Rows) \cup Permutations(Claims)
=============================================================================
