---------------------------- MODULE MCPresence -----------------------------
(* One card, one conversation, two processes, one permission.               *)
EXTENDS Presence
=============================================================================
