--------------------------- MODULE MCHookCourier ---------------------------
(* Hooks at a size TLC can search.                                          *)
EXTENDS HookCourier
=============================================================================
