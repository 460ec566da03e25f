---------------------------- MODULE MCMembership ----------------------------
(* Two people and the machine, a role besides the admin's, two requests.  *)
EXTENDS Membership, TLC

Symmetry == Permutations(People \ {Agent}) \cup Permutations(Calls)
=============================================================================
