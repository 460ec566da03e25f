---------------------------- MODULE SecretStore ----------------------------
(***************************************************************************)
(* What whoever keeps a credential in the vault, or a signing secret on a  *)
(* hook, is promised: it reads back as it was last given, until somebody   *)
(* gives it another value or removes it.  Keys are not mentioned.          *)
(***************************************************************************)
CONSTANTS Secrets, Values, Requests, None, Lost

VARIABLES
    secret,    \* secret -> its value; None has no value; Lost cannot be read
    asked      \* request -> the <<secret, value>> it would set, or None

vars == <<secret, asked>>

Init ==
    /\ secret \in [Secrets -> Values \cup {None, Lost}]
    /\ asked = [q \in Requests |-> None]

\* Somebody asks for a value, or, with None, for the secret to be removed.
Ask(q) ==
    /\ asked[q] = None
    /\ \E s \in Secrets, v \in Values \cup {None} :
           asked' = [asked EXCEPT ![q] = <<s, v>>]
    /\ UNCHANGED secret

Give(q) ==
    /\ asked[q] # None
    /\ secret' = [secret EXCEPT ![asked[q][1]] = asked[q][2]]
    /\ asked' = [asked EXCEPT ![q] = None]

\* Requests that are refused, or that a restart cuts short, change nothing.
Drop ==
    /\ \E Q \in SUBSET Requests :
           asked' = [q \in Requests |-> IF q \in Q THEN None ELSE asked[q]]
    /\ UNCHANGED secret

Next == Drop \/ \E q \in Requests : Ask(q) \/ Give(q)

Spec == Init /\ [][Next]_vars
=============================================================================
