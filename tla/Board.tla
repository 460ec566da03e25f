------------------------------- MODULE Board -------------------------------
(***************************************************************************)
(* One project's board: its columns, the cards in them, the sub-tasks      *)
(* split out of a card, the goals cards are work towards, and cold         *)
(* storage.  Every request is one READ COMMITTED database transaction.  It *)
(* loads its rows, takes the row lock the rule it is held to asks for,     *)
(* reads afresh under that lock, and commits.  Between those steps any     *)
(* other request may commit, so what was loaded may be stale.              *)
(*                                                                         *)
(* A commit writes the fields that differ from what the request loaded,    *)
(* not the whole row: that is how the ORM spells an UPDATE.                *)
(***************************************************************************)
EXTENDS Naturals, FiniteSets, Sequences

CONSTANTS
    Cards,       \* tasks that are cards on the board
    Subs,        \* tasks split out of a card
    ParentOf,    \* the card each sub-task belongs to
    Goals,
    Columns,     \* every column the board may ever have
    Starters,    \* how many columns a new board starts with
    Requests,    \* database sessions, each running one request at a time
    None,        \* no column, no goal, no task
    RowsSerial,  \* TRUE: two requests in flight never write the same row
    EndMovesIdle \* TRUE: the last place passes between empty columns only,
                 \*       and while no request is in flight

Tasks == Cards \cup Subs

ASSUME BoardConstants ==
    /\ ParentOf \in [Subs -> Cards]
    /\ Cards \cap Subs = {}
    /\ Tasks \cap Goals = {}
    /\ None \notin Tasks \cup Goals \cup Columns
    /\ Starters \in Nat /\ Starters >= 2
    /\ RowsSerial \in BOOLEAN
    /\ EndMovesIdle \in BOOLEAN

VARIABLES
    board,  \* the columns, left to right
    row,    \* the task table
    box,    \* whether a card has an open tick box on its checklist
    goal,   \* the goal table
    req     \* what each session is in the middle of

vars == <<board, row, box, goal, req>>

Row == [life      : {"unborn", "live", "gone"},
        col       : Columns \cup {None},
        stored    : BOOLEAN,
        finished  : BOOLEAN,
        cancelled : BOOLEAN,
        goal      : Goals \cup {None}]

Unborn == [life |-> "unborn", col |-> None, stored |-> FALSE,
           finished |-> FALSE, cancelled |-> FALSE, goal |-> None]

\* `at' is achieved_at: whether the goal says when it was reached.
Goal == [status : {"unborn", "open", "achieved", "dropped", "gone"}, at : BOOLEAN]

Idle == [op |-> "idle", on |-> None, to |-> None, seen |-> <<>>,
         seenGoal |-> None, last |-> None, holds |-> {}, ready |-> FALSE]

Last == board[Len(board)]
OnBoard == {board[i] : i \in 1..Len(board)}

IsLive(t) == row[t].life = "live"
Settled(t) == row[t].cancelled \/ row[t].finished
SubsOf(c) == {s \in Subs : ParentOf[s] = c /\ IsLive(s)}
Done(c) == row[c].stored \/ row[c].col = Last

\* What the move into the last column refuses to leave behind it.
OpenWork(c) == box[c] \/ \E s \in SubsOf(c) : ~Settled(s)

GoalExists(g) == goal[g].status \notin {"unborn", "gone"}

\* A card that keeps a goal from being achieved.
OpenCard(c) == IsLive(c) /\ ~row[c].cancelled /\ row[c].col \notin {None, Last}

\* The table's CHECK constraints: a statement that breaks one fails, and the
\* transaction with it.
Constraints(t, new) ==
    /\ (t \in Cards /\ ~new.stored) <=> new.col # None
    /\ new.stored => t \in Cards /\ new.finished
    /\ new.goal # None => t \in Cards

-----------------------------------------------------------------------------
(* A request from its load to its commit.                                   *)

InFlight(r) == req[r].op # "idle"

\* The rows a request will write.
Writes(r) == DOMAIN req[r].seen \cup {req[r].on}

Free(r, x) == \A q \in Requests \ {r} : x \notin req[q].holds

Serial(r, targets) ==
    RowsSerial =>
        \A q \in Requests \ {r} : InFlight(q) => Writes(q) \cap targets = {}

\* `seen' is the rows as this request loaded them, and stays as it was.
\* `ready' says there is no lock left for it to take.
Load(r, op, on, to, loaded, needsLock) ==
    /\ ~InFlight(r)
    /\ Serial(r, loaded \cup {on})
    /\ req' = [req EXCEPT ![r] =
                 [op |-> op, on |-> on, to |-> to,
                  seen |-> [t \in loaded |-> row[t]],
                  seenGoal |-> IF on \in Goals THEN goal[on] ELSE None,
                  last |-> Last, holds |-> {}, ready |-> ~needsLock]]
    /\ UNCHANGED <<board, row, box, goal>>

\* A mutant: read without keeping the lock, as both ends of the rules once did.
TakeUnheld(r, x) ==
    /\ InFlight(r) /\ ~req[r].ready
    /\ req' = [req EXCEPT ![r].ready = TRUE]
    /\ UNCHANGED <<board, row, box, goal>>

\* Take the row lock on x, if nobody has it, and carry on past the check.
Take(r, x) ==
    /\ InFlight(r) /\ ~req[r].ready
    /\ Free(r, x)
    /\ req' = [req EXCEPT ![r].holds = {x}, ![r].ready = TRUE]
    /\ UNCHANGED <<board, row, box, goal>>

Finish(r) == req' = [req EXCEPT ![r] = Idle]

\* The row after this request's UPDATE: the fields it changed, over what is
\* committed now.
Merged(r, t, new) ==
    [f \in DOMAIN new |-> IF new[f] # req[r].seen[t][f] THEN new[f]
                                                        ELSE row[t][f]]

Commit(r, op) == req[r].op = op /\ req[r].ready /\ Finish(r)

UpdateRow(r, t, new) ==
    LET merged == Merged(r, t, new) IN
    /\ Free(r, t)
    /\ IsLive(t)
    /\ Constraints(t, merged)
    /\ row' = [row EXCEPT ![t] = merged]

\* A refusal, an error, a caller who hung up, a deadlock the database broke:
\* the transaction rolls back, and its locks go with it.
Abort(r) == InFlight(r) /\ Finish(r) /\ UNCHANGED <<board, row, box, goal>>

-----------------------------------------------------------------------------
(* Loading: which row a request is about, and whether it has a lock to take *)
(* before it may commit, decided on what it loaded.                         *)

ArrivingAtEnd(r) == req[r].to = req[r].last
                    /\ req[r].seen[req[r].on].col # req[r].last

LoadMove(r) ==
    \E c \in Cards, col \in OnBoard :
        LET leavingEnd == row[c].col = Last /\ col # Last
            arriving   == col = Last /\ row[c].col # Last
        IN  /\ IsLive(c) /\ ~row[c].stored
            /\ Load(r, "move", c, col, {c},
                    arriving \/ ( leavingEnd /\ ~row[c].cancelled
                                  /\ row[c].goal # None ))

LoadSetFinished(r) ==
    \E s \in Subs :
        /\ IsLive(s)
        /\ \/ ~row[s].finished /\ Load(r, "tick", s, None, {s}, FALSE)
           \/ row[s].finished /\ Load(r, "untick", s, None, {s}, TRUE)

LoadChangeStatus(r) ==
    \E t \in Tasks :
        /\ IsLive(t)
        /\ \/ Load(r, "cancel", t, None, {t}, FALSE)
           \/ Load(r, "uncancel", t, None, {t},
                   /\ row[t].cancelled /\ ~row[t].finished
                   /\ t \in Subs \/ row[t].goal # None)

LoadCreate(r) ==
    \/ \E c \in Cards, g \in Goals \cup {None} :
          /\ row[c].life = "unborn"
          /\ g # None => GoalExists(g)
          /\ Load(r, "create", c, g, {c}, g # None)
    \/ \E s \in Subs :
          /\ row[s].life = "unborn"
          /\ IsLive(ParentOf[s]) /\ ~row[ParentOf[s]].stored
          /\ Load(r, "split", s, None, {s}, TRUE)

LoadAssign(r) ==
    \E c \in Cards, g \in Goals \cup {None} :
        /\ IsLive(c) /\ g # row[c].goal
        /\ g # None => GoalExists(g)
        /\ Load(r, "assign", c, g, {c},
                g # None /\ ~row[c].finished /\ ~row[c].cancelled)

LoadStore(r) ==
    LET finished == {c \in Cards : IsLive(c) /\ row[c].col = Last} IN
    /\ finished # {}
    /\ Load(r, "store", None, None, finished, FALSE)

LoadRestore(r) ==
    \E c \in Cards : IsLive(c) /\ row[c].stored
                     /\ Load(r, "restore", c, Last, {c}, TRUE)

LoadGoal(r) ==
    \E g \in Goals, to \in {"open", "achieved", "dropped"} :
        /\ GoalExists(g) /\ goal[g].status # to
        /\ Load(r, "goalStatus", g, to, {}, to = "achieved")

-----------------------------------------------------------------------------
(* Locking: each takes one row and reads, under the lock, what it decides on *)

\* moves.refuse_open_work: a card arriving at the board's end, by a move or
\* back from cold storage.
LockToArrive(r) ==
    LET c == req[r].on IN
    /\ \/ req[r].op = "restore"
       \/ req[r].op = "move" /\ ArrivingAtEnd(r)
    /\ Take(r, c)
    /\ ~OpenWork(c)

\* parentage.refuse_open_under_finished: a sub-task about to be open.
LockParent(r) ==
    LET p == ParentOf[req[r].on] IN
    /\ \/ req[r].op \in {"untick", "split"}
       \/ req[r].op = "uncancel" /\ req[r].on \in Subs
    /\ Take(r, p)
    /\ ~row[p].finished

\* goals.refuse_open_card_on_achieved: a card about to be open on a goal.
LockGoal(r) ==
    LET t == req[r].on
        g == IF req[r].op \in {"create", "assign"} THEN req[r].to
                                                    ELSE req[r].seen[t].goal
    IN  /\ \/ req[r].op \in {"create", "assign"}
           \/ req[r].op = "uncancel" /\ t \in Cards
           \/ req[r].op = "move" /\ ~ArrivingAtEnd(r)
        /\ Take(r, g)
        /\ goal[g].status \in {"open", "dropped"}

\* A mutant: the cards are read before the goal is locked, not after.
LockToAchieveUnheld(r) ==
    LET g == req[r].on IN
    /\ req[r].op = "goalStatus" /\ ~req[r].ready
    /\ GoalExists(g)
    /\ \A c \in Cards : row[c].goal = g => ~OpenCard(c)
    /\ req' = [req EXCEPT ![r].ready = TRUE, ![r].seenGoal = goal[g]]
    /\ UNCHANGED <<board, row, box, goal>>

\* goals.update to achieved: the goal's lock, then its cards read afresh.
LockToAchieve(r) ==
    LET g == req[r].on IN
    /\ req[r].op = "goalStatus" /\ ~req[r].ready
    /\ Free(r, g) /\ GoalExists(g)
    /\ goal[g].status # "achieved" =>
           \A c \in Cards : row[c].goal = g => ~OpenCard(c)
    /\ req' = [req EXCEPT ![r].holds = {g}, ![r].ready = TRUE, ![r].seenGoal = goal[g]]
    /\ UNCHANGED <<board, row, box, goal>>

-----------------------------------------------------------------------------
(* Committing: what each operation writes.                                  *)

\* A mutant: a card leaving the last column keeps its finished_at.
MoveStillFinished(r) ==
    LET c    == req[r].on
        old  == req[r].seen[c]
    IN  /\ Commit(r, "move")
        /\ req[r].to \in OnBoard
        /\ UpdateRow(r, c, [old EXCEPT !.col = req[r].to,
                                       !.finished = @ \/ req[r].to = req[r].last])
        /\ UNCHANGED <<board, box, goal>>

\* A move within the column it was loaded in changes the card's place in the
\* stack and nothing kept here.
Move(r) ==
    LET c    == req[r].on
        old  == req[r].seen[c]
        new  == IF req[r].to = old.col THEN old
                ELSE [old EXCEPT !.col = req[r].to,
                                 !.finished = req[r].to = req[r].last]
    IN  /\ Commit(r, "move")
        /\ req[r].to \in OnBoard
        /\ UpdateRow(r, c, new)
        /\ UNCHANGED <<board, box, goal>>

SetFinished(r) ==
    LET s == req[r].on IN
    /\ \/ Commit(r, "tick") /\ UpdateRow(r, s, [req[r].seen[s] EXCEPT !.finished = TRUE])
       \/ Commit(r, "untick") /\ UpdateRow(r, s, [req[r].seen[s] EXCEPT !.finished = FALSE])
    /\ UNCHANGED <<board, box, goal>>

ChangeStatus(r) ==
    LET t == req[r].on IN
    /\ \/ Commit(r, "cancel") /\ UpdateRow(r, t, [req[r].seen[t] EXCEPT !.cancelled = TRUE])
       \/ Commit(r, "uncancel") /\ UpdateRow(r, t, [req[r].seen[t] EXCEPT !.cancelled = FALSE])
    /\ UNCHANGED <<board, box, goal>>

\* A new card lands in the first column, or in the leftmost its template allows,
\* which may be any column and so the last.  It is not finished even there.
CreateCard(r) ==
    LET c == req[r].on IN
    /\ Commit(r, "create")
    /\ row[c].life = "unborn"
    /\ req[r].to # None => GoalExists(req[r].to)
    /\ \E col \in OnBoard :
          row' = [row EXCEPT ![c] = [Unborn EXCEPT !.life = "live", !.col = col,
                                                  !.goal = req[r].to]]
    /\ UNCHANGED <<board, box, goal>>

CreateSubtask(r) ==
    LET s == req[r].on IN
    /\ Commit(r, "split")
    /\ row[s].life = "unborn" /\ IsLive(ParentOf[s])
    /\ row' = [row EXCEPT ![s] = [Unborn EXCEPT !.life = "live"]]
    /\ UNCHANGED <<board, box, goal>>

Assign(r) ==
    LET c == req[r].on IN
    /\ Commit(r, "assign")
    /\ req[r].to # None => GoalExists(req[r].to)
    /\ UpdateRow(r, c, [req[r].seen[c] EXCEPT !.goal = req[r].to])
    /\ UNCHANGED <<board, box, goal>>

\* The whole column, or nothing: one row that fails its constraints takes
\* the run with it.
StoreFinished(r) ==
    LET cards == DOMAIN req[r].seen
        new(c) == Merged(r, c, [req[r].seen[c] EXCEPT !.stored = TRUE, !.col = None,
                                                      !.finished = TRUE])
    IN  /\ Commit(r, "store")
        /\ \A c \in cards : Free(r, c) /\ IsLive(c) /\ Constraints(c, new(c))
        /\ row' = [t \in Tasks |-> IF t \in cards THEN new(t) ELSE row[t]]
        /\ UNCHANGED <<board, box, goal>>

Restore(r) ==
    LET c == req[r].on IN
    /\ Commit(r, "restore")
    /\ req[r].to \in OnBoard
    /\ UpdateRow(r, c, [req[r].seen[c] EXCEPT !.stored = FALSE, !.col = req[r].to,
                                              !.finished = TRUE])
    /\ UNCHANGED <<board, box, goal>>

\* achieved_at goes with the status, each written where it differs from the
\* goal as this request last read it.
SetGoalStatus(r) ==
    LET g   == req[r].on
        new == [status |-> req[r].to, at |-> req[r].to = "achieved"]
    IN  /\ Commit(r, "goalStatus")
        /\ Free(r, g) /\ GoalExists(g)
        /\ goal' = IF req[r].to = req[r].seenGoal.status THEN goal
                   ELSE [goal EXCEPT ![g] =
                           [f \in DOMAIN new |-> IF new[f] # req[r].seenGoal[f]
                                                 THEN new[f] ELSE goal[g][f]]]
        /\ UNCHANGED <<board, row, box>>

-----------------------------------------------------------------------------
(* Operations that decide nothing on what they loaded: one step each.       *)

\* A deleted card takes its sub-tasks with it.
DeleteTask(t) ==
    LET gone == {t} \cup IF t \in Cards THEN SubsOf(t) ELSE {} IN
    /\ IsLive(t)
    /\ \A r \in Requests : gone \cap req[r].holds = {}
    /\ row' = [u \in Tasks |-> IF u \in gone THEN [Unborn EXCEPT !.life = "gone"]
                                             ELSE row[u]]
    /\ UNCHANGED <<board, box, goal, req>>

CreateGoal(g) ==
    /\ goal[g].status = "unborn"
    /\ goal' = [goal EXCEPT ![g].status = "open"]
    /\ UNCHANGED <<board, row, box, req>>

\* ON DELETE SET NULL: the goal's cards stay, unlinked.
DeleteGoal(g) ==
    /\ GoalExists(g)
    /\ \A r \in Requests : ({g} \cup {c \in Cards : row[c].goal = g}) \cap req[r].holds = {}
    /\ goal' = [goal EXCEPT ![g] = [status |-> "gone", at |-> FALSE]]
    /\ row' = [t \in Tasks |-> IF row[t].goal = g THEN [row[t] EXCEPT !.goal = None]
                                                 ELSE row[t]]
    /\ UNCHANGED <<board, box, req>>

\* A tick box is opened or settled whatever its card is doing.
UpdateChecklistItem(c) ==
    /\ IsLive(c)
    /\ box' = [box EXCEPT ![c] = ~@]
    /\ UNCHANGED <<board, row, goal, req>>

\* Which column is last is a fact about a position, so a column gains or
\* loses the last place without being touched.
EndMoves == board'[Len(board')] # Last

EndMayMove ==
    EndMovesIdle /\ EndMoves =>
        /\ \A r \in Requests : ~InFlight(r)
        /\ \A c \in Cards : row[c].col \notin {Last, board'[Len(board')]}

CreateColumn ==
    /\ \E col \in Columns \ OnBoard : board' = Append(board, col)
    /\ EndMayMove
    /\ UNCHANGED <<row, box, goal, req>>

Reorder ==
    /\ board' \in [1..Len(board) -> OnBoard]
    /\ \A i, j \in 1..Len(board) : board'[i] = board'[j] => i = j
    /\ board' # board
    /\ EndMayMove
    /\ UNCHANGED <<row, box, goal, req>>

\* The columns, without the i-th.
Without(i) ==
    [j \in 1..(Len(board) - 1) |-> IF j < i THEN board[j] ELSE board[j + 1]]

\* A mutant: the minimum is counted with the column about to go.
DeleteColumnToOne(col) ==
    /\ Len(board) >= 2
    /\ \A c \in Cards : row[c].col # col
    /\ \E i \in 1..Len(board) : board[i] = col /\ board' = Without(i)
    /\ EndMayMove
    /\ UNCHANGED <<row, box, goal, req>>

DeleteColumn(col) ==
    /\ Len(board) > 2
    /\ \A c \in Cards : row[c].col # col
    /\ \E i \in 1..Len(board) : board[i] = col /\ board' = Without(i)
    /\ EndMayMove
    /\ UNCHANGED <<row, box, goal, req>>

-----------------------------------------------------------------------------
Init ==
    /\ board \in [1..Starters -> Columns]   \* which they are makes no difference
    /\ \A i, j \in 1..Starters : board[i] = board[j] => i = j
    /\ row = [t \in Tasks |-> Unborn]
    /\ box = [c \in Cards |-> FALSE]
    /\ goal = [g \in Goals |-> [status |-> "unborn", at |-> FALSE]]
    /\ req = [r \in Requests |-> Idle]

Next ==
    \/ \E r \in Requests :
          \/ LoadMove(r) \/ LoadSetFinished(r) \/ LoadChangeStatus(r)
          \/ LoadCreate(r) \/ LoadAssign(r) \/ LoadStore(r)
          \/ LoadRestore(r) \/ LoadGoal(r)
          \/ LockToArrive(r) \/ LockParent(r) \/ LockGoal(r) \/ LockToAchieve(r)
          \/ Move(r) \/ SetFinished(r) \/ ChangeStatus(r)
          \/ CreateCard(r) \/ CreateSubtask(r) \/ Assign(r)
          \/ StoreFinished(r) \/ Restore(r) \/ SetGoalStatus(r)
          \/ Abort(r)
    \/ \E t \in Tasks : DeleteTask(t)
    \/ \E g \in Goals : CreateGoal(g) \/ DeleteGoal(g)
    \/ \E c \in Cards : UpdateChecklistItem(c)
    \/ CreateColumn \/ Reorder \/ \E col \in Columns : DeleteColumn(col)

Spec == Init /\ [][Next]_vars
-----------------------------------------------------------------------------
(* Properties.                                                              *)

\* Every row keeps the shape the tables' types and CHECK constraints give it
\* (models/task.py), whatever the requests interleave to.
TypeOK ==
    /\ board \in Seq(Columns) /\ Len(board) >= 2
    /\ row \in [Tasks -> Row]
    /\ \A t \in Tasks : IsLive(t) => Constraints(t, row[t])
    /\ box \in [Cards -> BOOLEAN]
    /\ goal \in [Goals -> Goal]
    /\ \A r \in Requests : req[r].holds \subseteq Tasks \cup Goals

\* A sub-task left open under a card that says it is finished.
OpenUnder(s) == IsLive(s) /\ ~Settled(s) /\ row[ParentOf[s]].finished

\* No step leaves a sub-task open under a finished card on the board: not a
\* move or a restore of the card, not a sub-task split, reopened or
\* uncancelled under it (tasks/parentage.py, both ends of the lock).  One way
\* round the rule is left: cold storage finishes a card that was created in
\* the last column without asking what is open under it
\* (tasks/cold_storage.py), and such a card cannot be restored while it is.
KeepsFinishedClosed ==
    \A s \in Subs : OpenUnder(s)' =>
        LET p == ParentOf[s] IN
        /\ row'[p].stored
        /\ \/ OpenUnder(s)
           \/ IsLive(s) /\ ~Settled(s) /\ row[p].col = Last /\ ~row[p].finished

NothingOpensUnderFinished == [][KeepsFinishedClosed]_vars

\* An achieved goal has no open card on it (goals.py, both ends of the lock).
NoOpenCardOnAchieved ==
    \A c \in Cards : OpenCard(c) /\ row[c].goal # None =>
        goal[row[c].goal].status # "achieved"

\* finished_at follows the card's place: written on the way into the last
\* column and cleared on the way out, kept in cold storage and on the way
\* back.  A card is done and not finished only while it stays where it was
\* created (tasks/moves.py, tasks/lifecycle.py).
FollowsPlace ==
    \A c \in Cards :
        \/ row'[c].finished <=> Done(c)'
        \/ /\ Done(c)' /\ ~row'[c].finished
           /\ ~IsLive(c) \/ (Done(c) /\ ~row[c].finished)

FinishedFollowsPlace == [][FollowsPlace]_vars

\* A finished card is in the last column or stored from it: one that has left
\* has had its finished_at cleared (tasks/moves.py).
FinishedMeansDone ==
    \A c \in Cards : row[c].finished => Done(c)

=============================================================================
