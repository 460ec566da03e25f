------------------------------ MODULE Stacking ------------------------------
(***************************************************************************)
(* The order cards are stacked in within a column.  A card's position is a *)
(* sparse sort key: placing a card writes that card alone, and a column is *)
(* spread back out only when the slot asked for has no integer left in it. *)
(* Every placement locks the column it places into before it reads         *)
(* anything, and holds the lock until it commits; leaving a column locks   *)
(* nothing.                                                                *)
(***************************************************************************)
EXTENDS Integers, FiniteSets

CONSTANTS
    Cards, Columns, Requests,
    GAP,              \* room left between neighbours
    LOWEST, HIGHEST,  \* the range of a stored key
    None              \* no column, no key, the bottom of a stack

ASSUME StackingConstants ==
    /\ GAP \in Nat /\ GAP >= 2
    /\ HIGHEST \in Nat /\ HIGHEST >= GAP
    /\ LOWEST \in Int /\ LOWEST + GAP <= 0
    /\ None \notin Columns
    /\ IsFiniteSet(Cards) /\ Cardinality(Cards) < HIGHEST

Keys == LOWEST..HIGHEST

-----------------------------------------------------------------------------
(* The arithmetic of keys.                                                  *)

NoRoom == HIGHEST + 1

\* A mutant: halves a gap of one, and lands on the neighbour above.
BetweenTouching(above, below) == above + (below - above) \div 2

\* A key strictly between two neighbours.
Between(above, below) ==
    IF below - above < 2 THEN NoRoom ELSE above + (below - above) \div 2

\* A mutant: the range of the stored key is forgotten at the top.
AboveTopUnbounded(below) == below - GAP

\* A key above the top card, and a key below the bottom one.
AboveTop(below) == IF below - GAP >= LOWEST THEN below - GAP ELSE NoRoom
BelowBottom(above) == IF above + GAP <= HIGHEST THEN above + GAP ELSE NoRoom

Smaller(a, b) == IF a <= b THEN a ELSE b

\* How far apart a column of `count' cards is spread, and the key of the card
\* of rank `rank', counted from one.
Step(count) == Smaller(GAP, HIGHEST \div (count + 1))
SpreadKey(count, rank) == rank * Step(count)

\* The card of a set with n others above it, for a stack keyed by `key'.
RankIn(key, S, c) == Cardinality({d \in S : key[d] < key[c]})

\* The key that sits `index' cards from the top of the stack S, or NoRoom.
KeyAt(key, S, index) ==
    LET n == Cardinality(S)
        nth(i) == key[CHOOSE c \in S : RankIn(key, S, c) = i]
    IN  CASE n = 0                      -> 0
          [] n > 0 /\ index = 0         -> AboveTop(nth(0))
          [] n > 0 /\ index \in 1..n-1  -> Between(nth(index - 1), nth(index))
          [] OTHER                      -> BelowBottom(nth(n - 1))

\* A mutant: ranked from the bottom.
RespacedDescending(key, S) ==
    [c \in S |-> SpreadKey(Cardinality(S), Cardinality(S) - RankIn(key, S, c))]

\* The keys of a column spread back out, in the order it had.
Respaced(key, S) ==
    [c \in S |-> SpreadKey(Cardinality(S), RankIn(key, S, c) + 1)]

-----------------------------------------------------------------------------
(* Placements.                                                              *)

VARIABLES
    col,  \* the column each card is in, or None off the board
    key,  \* its position there
    req   \* the placement each session is in the middle of

vars == <<col, key, req>>

Idle == [card |-> None, to |-> None, index |-> None, seen |-> None,
         state |-> "idle", key |-> None, spread |-> <<>>, above |-> {}]

Stack(column) == {c \in Cards : col[c] = column}

InFlight(r) == req[r].state # "idle"

\* The column's row lock, and the rows a spread has rewritten.
ColumnFree(r, column) ==
    \A q \in Requests \ {r} : req[q].state = "placed" => req[q].to # column
RowFree(r, c) ==
    \A q \in Requests \ {r} : c \notin DOMAIN req[q].spread

\* A request loads its card.  There are at most Cardinality(Cards) - 1 others to
\* count, and an index past the bottom of a shorter stack is clamped to it.  Two
\* requests in flight are about different cards: Board.tla says what happens
\* to one card moved twice at once.
Load(r) ==
    \E c \in Cards, to \in Columns, index \in 0..Cardinality(Cards) - 1 :
        /\ ~InFlight(r)
        /\ \A q \in Requests : req[q].card # c
        /\ req' = [req EXCEPT ![r] =
                     [Idle EXCEPT !.card = c, !.to = to, !.index = index,
                                  !.seen = [col |-> col[c], key |-> key[c]],
                                  !.state = "loaded"]]
        /\ UNCHANGED <<col, key>>

\* A mutant: the neighbours are read without the column's lock.
SlotUnlocked(r) ==
    LET to == req[r].to
        k  == KeyAt(key, Stack(to) \ {req[r].card}, req[r].index)
    IN  /\ req[r].state = "loaded"
        /\ k # NoRoom
        /\ req' = [req EXCEPT ![r].key = k, ![r].state = "placed",
                     ![r].above = {c \in Stack(to) \ {req[r].card} : key[c] < k}]
        /\ UNCHANGED <<col, key>>

\* A mutant: the card being placed is counted as one of its own neighbours.
SlotCountingItself(r) ==
    LET to == req[r].to
        k  == KeyAt(key, Stack(to), req[r].index)
    IN  /\ req[r].state = "loaded"
        /\ ColumnFree(r, to)
        /\ k # NoRoom
        /\ req' = [req EXCEPT ![r].key = k, ![r].state = "placed",
                     ![r].above = {c \in Stack(to) \ {req[r].card} : key[c] < k}]
        /\ UNCHANGED <<col, key>>

\* Lock the column, choose a key, and spread the column out first if the slot
\* has no room.  `above' is a history variable: the cards the key was chosen
\* to sit below.
Slot(r) ==
    LET c      == req[r].card
        to     == req[r].to
        all    == Stack(to)
        others == all \ {c}
        direct == KeyAt(key, others, req[r].index)
        spread == IF direct = NoRoom THEN Respaced(key, all) ELSE <<>>
        now    == [d \in Cards |-> IF d \in DOMAIN spread THEN spread[d] ELSE key[d]]
        chosen == KeyAt(now, others, req[r].index)
    IN  /\ req[r].state = "loaded"
        /\ ColumnFree(r, to)
        /\ \A d \in DOMAIN spread : RowFree(r, d)
        /\ req' = [req EXCEPT ![r].key = chosen, ![r].spread = spread,
                     ![r].state = IF chosen = NoRoom THEN "failed" ELSE "placed",
                     ![r].above = IF chosen = NoRoom THEN {}
                                  ELSE {d \in others : now[d] < chosen}]
        /\ UNCHANGED <<col, key>>

\* The card is written where it differs from what this request holds of it:
\* what it loaded, or the key its own spread gave it.
Commit(r) ==
    LET c       == req[r].card
        spread  == req[r].spread
        now     == [d \in Cards |-> IF d \in DOMAIN spread THEN spread[d] ELSE key[d]]
        held    == IF c \in DOMAIN spread THEN spread[c] ELSE req[r].seen.key
        newKey  == IF req[r].key # held THEN req[r].key ELSE now[c]
        newCol  == IF req[r].to # req[r].seen.col THEN req[r].to ELSE col[c]
    IN  /\ req[r].state = "placed"
        /\ RowFree(r, c)
        \* uq_task_column_id_position
        /\ \A d \in Cards \ {c} : col[d] = newCol => now[d] # newKey
        /\ col' = [col EXCEPT ![c] = newCol]
        /\ key' = [now EXCEPT ![c] = newKey]
        /\ req' = [req EXCEPT ![r] = Idle]

\* Stored or deleted: a hole is left, and no column is locked.
Leave(c) ==
    /\ col[c] # None
    /\ \A r \in Requests : req[r].card # c /\ c \notin DOMAIN req[r].spread
    /\ col' = [col EXCEPT ![c] = None]
    /\ key' = [key EXCEPT ![c] = None]
    /\ UNCHANGED req

Abort(r) ==
    /\ InFlight(r)
    /\ req' = [req EXCEPT ![r] = Idle]
    /\ UNCHANGED <<col, key>>

Init ==
    /\ col = [c \in Cards |-> None]
    /\ key = [c \in Cards |-> None]
    /\ req = [r \in Requests |-> Idle]

Next ==
    \/ \E r \in Requests : Load(r) \/ Slot(r) \/ Commit(r) \/ Abort(r)
    \/ \E c \in Cards : Leave(c)

Spec == Init /\ [][Next]_vars

-----------------------------------------------------------------------------
(* Properties.                                                              *)

\* A card is in a column exactly when it has a key, and the key fits the
\* 32-bit column it is stored in (stacking.py, LOWEST and HIGHEST).
TypeOK ==
    /\ col \in [Cards -> Columns \cup {None}]
    /\ \A c \in Cards : IF col[c] = None THEN key[c] = None ELSE key[c] \in Keys
    /\ \A r \in Requests : req[r].state = "placed" => req[r].key \in Keys

\* A key chosen under the column's lock is still free when its card takes it:
\* the unique constraint is a backstop that is never reached (stacking.py, 14-20).
ChosenKeyStaysFree ==
    \A r \in Requests : req[r].state = "placed" =>
        \A d \in Cards \ {req[r].card} :
            col[d] = req[r].to /\ d \notin DOMAIN req[r].spread => key[d] # req[r].key

\* Neither does what the key was chosen between change before it is taken:
\* the cards above it stay above it and no other card arrives above it, so the
\* card lands at the index asked for, less the cards that left.
ChosenPlaceHolds ==
    \A r \in Requests : req[r].state = "placed" =>
        \A d \in Cards \ {req[r].card} :
            col[d] = req[r].to =>
                LET k == IF d \in DOMAIN req[r].spread THEN req[r].spread[d] ELSE key[d]
                IN  (k < req[r].key) <=> (d \in req[r].above)

\* The place chosen is the index asked for, clamped to the bottom.
ChosenWhereAsked ==
    [][\A r \in Requests :
          (req[r].state = "loaded" /\ req'[r].state = "placed") =>
              LET others == Stack(req[r].to) \ {req[r].card} IN
              Cardinality(req'[r].above) = Smaller(req[r].index, Cardinality(others))]_vars

\* No step changes the order of two cards that neither was placed by it nor
\* left: a placement, and a spread, disturb nothing around the card.
OthersKeepTheirOrder ==
    [][\A c, d \in Cards :
          LET placed == {req[r].card : r \in {q \in Requests :
                             req[q].state = "placed" /\ req'[q].state = "idle"}}
          IN  ( /\ c \notin placed /\ d \notin placed
                /\ col[c] # None /\ col[c] = col[d]
                /\ col'[c] = col[c] /\ col'[d] = col[d] )
              => ((key[c] < key[d]) <=> (key'[c] < key'[d]))]_vars

=============================================================================
