---------------------------- MODULE MCLiveBoard ----------------------------
(* Two processes, one tab open on the board, one agent polling its prompt. *)
EXTENDS LiveBoard, TLC

Symmetry == Permutations(Processes)
=============================================================================
