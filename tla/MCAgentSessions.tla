-------------------------- MODULE MCAgentSessions --------------------------
(* Sessions at a size TLC can search.                                       *)
EXTENDS AgentSessions, TLC

Symmetry == Permutations(Cards) \cup Permutations(Requests)
=============================================================================
