---------------------------- MODULE ContentStore ----------------------------
(***************************************************************************)
(* What whoever uploads a file or a skill is promised: it reads back as    *)
(* the bytes last uploaded under it, until somebody replaces or deletes    *)
(* it.  Rows, digests shared by many and sweeps are not mentioned.         *)
(***************************************************************************)
CONSTANTS Items, Contents, Requests, None

VARIABLES
    content,   \* item -> what it reads back as, or None if there is no such item
    asked      \* request -> the items it would change, and what it would make them

vars == <<content, asked>>

Nothing == [of |-> {}, to |-> None]

Init ==
    /\ content = [i \in Items |-> None]
    /\ asked = [q \in Requests |-> Nothing]

\* Somebody uploads one item or, with None, deletes any number of them.
Ask(q) ==
    /\ asked[q] = Nothing
    /\ \/ \E i \in Items, c \in Contents : asked' = [asked EXCEPT ![q] = [of |-> {i}, to |-> c]]
       \/ \E S \in SUBSET Items : asked' = [asked EXCEPT ![q] = [of |-> S, to |-> None]]
    /\ UNCHANGED content

\* All of it at once.  What a deletion takes away, some of the requests under
\* way have nothing left to do about.
Give(q) ==
    /\ content' = [i \in Items |-> IF i \in asked[q].of THEN asked[q].to ELSE content[i]]
    /\ \E late \in SUBSET Requests :
          /\ asked[q].to # None => late = {}
          /\ asked' = [r \in Requests |->
                          IF r = q THEN Nothing
                          ELSE IF r \in late THEN [asked[r] EXCEPT !.of = @ \ asked[q].of]
                          ELSE asked[r]]

\* A request that is refused, or cut short, changes nothing.
Drop(q) ==
    /\ asked' = [asked EXCEPT ![q] = Nothing]
    /\ UNCHANGED content

Next == \E q \in Requests : Ask(q) \/ Give(q) \/ Drop(q)

Spec == Init /\ [][Next]_vars
=============================================================================
