----------------------------- MODULE MCStacking -----------------------------
(* Stacking over a key range small enough that a gap runs out.              *)
EXTENDS Stacking, TLC

MCLowest == -4
Symmetry == Permutations(Cards) \cup Permutations(Columns) \cup Permutations(Requests)
=============================================================================
