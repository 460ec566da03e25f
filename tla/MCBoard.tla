------------------------------ MODULE MCBoard ------------------------------
(* The board at a size TLC can search: one card, one sub-task, one goal.     *)
EXTENDS Board, TLC

CONSTANTS c1, s1

MCParentOf == [s \in {s1} |-> c1]
Symmetry == Permutations(Requests) \cup Permutations(Columns)
=============================================================================
