---------------------------- MODULE BoardProofs ----------------------------
(***************************************************************************)
(* Board, for any cards, sub-tasks, goals, columns and requests.           *)
(*                                                                         *)
(* The shape of the tables (TypeCorrect) stands whatever the requests do.  *)
(* The rules stand when no two requests in flight write the same row       *)
(* and the last place passes between empty columns only: the runs show how *)
(* they break otherwise.                                                   *)
(*                                                                         *)
(* No rule is inductive alone, for each is a promise about a commit made   *)
(* by a request that looked earlier.  What carries it is what a request in *)
(* flight may still believe (Kept): the rows it loaded have not changed    *)
(* (AsLoaded), and what it found under its lock is still so (ArrivalKept,  *)
(* ParentKept, GoalKept, AchievedKept), because whoever would make it      *)
(* untrue needs a lock that it holds (Apart).                              *)
(***************************************************************************)
EXTENDS Board, TLAPS

\* The operations, by what they are about.
OnCard == {"move", "restore", "assign", "create"}
OnSub == {"tick", "untick", "split"}
OnTask == OnCard \cup OnSub \cup {"cancel", "uncancel"}

Ops == {"idle", "store", "goalStatus"} \cup OnTask
GoalMoves == {"open", "achieved", "dropped"}

ReqType == [op : Ops, on : Tasks \cup Goals \cup {None},
            to : Columns \cup Goals \cup GoalMoves \cup {None},
            seen : UNION {[S -> Row] : S \in SUBSET Tasks}, seenGoal : Goal \cup {None},
            last : Columns \cup {None}, holds : SUBSET (Tasks \cup Goals), ready : BOOLEAN]

\* What a request is about, and where it takes it.
ReqTyped(k) ==
    /\ k.op \in OnCard => k.on \in Cards
    /\ k.op \in OnSub => k.on \in Subs
    /\ k.op \in OnTask => k.on \in Tasks /\ k.seen \in [{k.on} -> Row]
    /\ k.op = "store" => \E S \in SUBSET Cards : k.seen \in [S -> Row]
    /\ k.op \in {"move", "restore"} => k.to \in Columns
    /\ k.op \in {"create", "assign"} => k.to \in Goals \cup {None}
    /\ k.op = "goalStatus" => k.on \in Goals /\ k.to \in GoalMoves /\ k.seenGoal \in Goal

\* The lock it has still to take is on a row that exists.
LockTyped(k) ==
    ~k.ready =>
       /\ k.op \in {"create", "assign"} => k.to \in Goals
       /\ k.op = "uncancel" /\ k.on \in Cards => k.seen[k.on].goal \in Goals
       /\ k.op = "move" => \/ k.to = k.last /\ k.seen[k.on].col # k.last
                           \/ k.seen[k.on].goal \in Goals

Typed ==
    /\ TypeOK
    /\ req \in [Requests -> ReqType]
    /\ \A r \in Requests : ReqTyped(req[r]) /\ LockTyped(req[r])

-----------------------------------------------------------------------------
\* A row as it was, but perhaps without its goal: a goal deleted under a
\* request takes itself off its cards.
Lasting(o, n) ==
    /\ n.life = o.life /\ n.col = o.col /\ n.stored = o.stored
    /\ n.finished = o.finished /\ n.cancelled = o.cancelled
    /\ n.goal \in {o.goal, None}

\* What a request loaded is still so of every row that is still live.
AsLoaded(k) ==
    k.op # "idle" =>
        /\ k.last = Last
        /\ \A t \in DOMAIN k.seen : IsLive(t) => Lasting(k.seen[t], row[t])

\* What an operation's load asked of the rows it read.
Asked(k) ==
    /\ k.op = "move" => ~k.seen[k.on].stored
    /\ k.op = "restore" => k.to = k.last
    /\ k.op = "store" => \A c \in DOMAIN k.seen : k.seen[c].col = k.last

\* A goal this request has locked, and that takes open cards.
Welcoming(k, g) == g \in k.holds /\ goal[g].status \in {"open", "dropped"}

SubsSettled(c) == \A s \in SubsOf(c) : Settled(s)

\* A card about to arrive at the end has nothing open under it.
ArrivalKept(k) ==
    k.ready /\ ( \/ k.op = "restore"
                 \/ k.op = "move" /\ k.to = k.last /\ k.seen[k.on].col # k.last ) =>
        k.on \in k.holds /\ SubsSettled(k.on)

\* The card a sub-task is about to be open under is not finished.
ParentKept(k) ==
    k.ready /\ ( \/ k.op \in {"untick", "split"}
                 \/ k.op = "uncancel" /\ k.on \in Subs
                    /\ k.seen[k.on].cancelled /\ ~k.seen[k.on].finished ) =>
        ParentOf[k.on] \in k.holds /\ ~row[ParentOf[k.on]].finished

\* The goal a card is about to be open on is not achieved.
GoalKept(k) ==
    k.ready =>
        /\ k.op = "create" /\ k.to # None => Welcoming(k, k.to)
        /\ k.op = "assign" /\ k.to # None /\ ~k.seen[k.on].finished
              /\ ~k.seen[k.on].cancelled => Welcoming(k, k.to)
        /\ k.op = "uncancel" /\ k.on \in Cards /\ k.seen[k.on].cancelled
              /\ ~k.seen[k.on].finished /\ k.seen[k.on].goal # None =>
                 Welcoming(k, k.seen[k.on].goal)
        /\ k.op = "move" /\ k.seen[k.on].col = k.last /\ k.to # k.last
              /\ ~k.seen[k.on].cancelled /\ k.seen[k.on].goal # None =>
                 Welcoming(k, k.seen[k.on].goal)

\* The goal about to be achieved has no open card.
AchievedKept(k) ==
    k.ready /\ k.op = "goalStatus" /\ k.to = "achieved" =>
        k.on \in k.holds /\ \A c \in Cards : OpenCard(c) => row[c].goal # k.on

\* What a request in flight may still believe.
Kept(k) == /\ Asked(k) /\ AsLoaded(k) /\ ArrivalKept(k) /\ ParentKept(k)
           /\ GoalKept(k) /\ AchievedKept(k)

\* Two requests write different rows and hold different locks.
Apart(k, m) ==
    /\ k.op # "idle" /\ m.op # "idle" =>
         (DOMAIN k.seen \cup {k.on}) \cap (DOMAIN m.seen \cup {m.on}) = {}
    /\ k.holds \cap m.holds = {}

\* A task not yet there, or gone, is in no column and not stored.
Bare == \A t \in Tasks : ~IsLive(t) => row[t].col = None /\ ~row[t].stored

Distinct == \A i, j \in 1..Len(board) : board[i] = board[j] => i = j

\* A card that says it is finished, on the board, has nothing open under it.
ClosedOnBoard == \A s \in Subs : OpenUnder(s) => row[ParentOf[s]].stored

IInv ==
    /\ Typed
    /\ Distinct
    /\ Bare
    /\ ClosedOnBoard
    /\ NoOpenCardOnAchieved
    /\ FinishedMeansDone
    /\ \A r \in Requests : Kept(req[r])
    /\ \A r \in Requests : \A q \in Requests \ {r} : Apart(req[r], req[q])

\* What a step owes the rules: the invariant after it, and what the two rules
\* about steps say of it.
Stands == IInv' /\ KeepsFinishedClosed /\ FollowsPlace

-----------------------------------------------------------------------------
LEMMA UnbornRow == Unborn \in Row /\ \A t \in Tasks : ~(Unborn.life = "live")
BY DEF Unborn, Row

\* What an UPDATE of one row makes of it, field by field.
LEMMA MergedRow ==
  ASSUME NEW r, NEW t, NEW new \in Row, req[r].seen[t] \in Row, row[t] \in Row
  PROVE  LET k == req[r].seen[t]
             m == Merged(r, t, new)
         IN  /\ m \in Row
             /\ m.life = IF new.life # k.life THEN new.life ELSE row[t].life
             /\ m.col = IF new.col # k.col THEN new.col ELSE row[t].col
             /\ m.stored = IF new.stored # k.stored THEN new.stored ELSE row[t].stored
             /\ m.finished = IF new.finished # k.finished THEN new.finished ELSE row[t].finished
             /\ m.cancelled = IF new.cancelled # k.cancelled THEN new.cancelled ELSE row[t].cancelled
             /\ m.goal = IF new.goal # k.goal THEN new.goal ELSE row[t].goal
BY DEF Merged, Row

LEMMA IdleTyped == Idle \in ReqType /\ ReqTyped(Idle) /\ LockTyped(Idle)
<1>1. <<>> \in [{} -> Row]
  OBVIOUS
<1>2. Idle \in ReqType
  BY <1>1 DEF Idle, ReqType, Ops
<1>3. QED
  BY <1>2 DEF Idle, ReqTyped, LockTyped, OnCard, OnSub, OnTask

\* A board's last column is one of its columns.
LEMMA LastIsColumn ==
  ASSUME TypeOK
  PROVE  /\ Last \in Columns /\ Last \in OnBoard /\ OnBoard \subseteq Columns
BY DEF TypeOK, Last, OnBoard

LEMMA RowOf ==
  ASSUME TypeOK, NEW t \in Tasks
  PROVE  row[t] \in Row
BY DEF TypeOK

\* One request's record changes, and nothing else.
LEMMA RequestTyped ==
  ASSUME Typed, NEW r \in Requests, NEW k \in ReqType, ReqTyped(k), LockTyped(k),
         req' = [req EXCEPT ![r] = k], UNCHANGED <<board, row, box, goal>>
  PROVE  Typed'
<1>1. TypeOK'
  <2>1. \A q \in Requests : req'[q].holds \subseteq Tasks \cup Goals
    BY DEF Typed, ReqType
  <2>2. QED
    BY <2>1 DEF Typed, TypeOK, IsLive
<1>2. QED
  BY <1>1 DEF Typed, ReqTyped, LockTyped

\* A request's record as Load leaves it.
Loaded(op, on, to, loaded, needsLock) ==
    [op |-> op, on |-> on, to |-> to, seen |-> [t \in loaded |-> row[t]],
     seenGoal |-> IF on \in Goals THEN goal[on] ELSE None,
     last |-> Last, holds |-> {}, ready |-> ~needsLock]

LEMMA LoadTyped ==
  ASSUME Typed, NEW r \in Requests, NEW op \in Ops, NEW on \in Tasks \cup Goals \cup {None},
         NEW to \in Columns \cup Goals \cup GoalMoves \cup {None},
         NEW loaded \in SUBSET Tasks, NEW needsLock \in BOOLEAN,
         Load(r, op, on, to, loaded, needsLock),
         ReqTyped(Loaded(op, on, to, loaded, needsLock)),
         LockTyped(Loaded(op, on, to, loaded, needsLock))
  PROVE  Typed'
<1>1. [t \in loaded |-> row[t]] \in [loaded -> Row]
  BY RowOf DEF Typed
<1>2. (IF on \in Goals THEN goal[on] ELSE None) \in Goal \cup {None}
  BY DEF Typed, TypeOK
<1>3. Loaded(op, on, to, loaded, needsLock) \in ReqType
  BY <1>1, <1>2, LastIsColumn DEF ReqType, Typed, Loaded
<1>4. req' = [req EXCEPT ![r] = Loaded(op, on, to, loaded, needsLock)] /\ UNCHANGED <<board, row, box, goal>>
  BY DEF Load, Loaded
<1>5. QED
  BY <1>3, <1>4, RequestTyped

LEMMA LoadsTyped ==
  ASSUME Typed, NEW r \in Requests,
         \/ LoadMove(r) \/ LoadSetFinished(r) \/ LoadChangeStatus(r) \/ LoadCreate(r)
         \/ LoadAssign(r) \/ LoadStore(r) \/ LoadRestore(r) \/ LoadGoal(r)
  PROVE  Typed'
<1> USE DEF OnCard, OnSub, OnTask
<1>1. OnTask \cup {"store", "goalStatus"} \subseteq Ops /\ Cards \subseteq Tasks /\ Subs \subseteq Tasks
      /\ None \in Tasks \cup Goals \cup {None} /\ TypeOK
  BY DEF Ops, Tasks, Typed
<1>2. ASSUME NEW op \in OnTask, NEW t \in Tasks,
             NEW to \in Columns \cup Goals \cup GoalMoves \cup {None}, NEW needsLock \in BOOLEAN,
             Load(r, op, t, to, {t}, needsLock),
             op \in OnCard => t \in Cards, op \in OnSub => t \in Subs,
             op \in {"move", "restore"} => to \in Columns,
             op \in {"create", "assign"} => to \in Goals \cup {None},
             needsLock =>
               /\ op \in {"create", "assign"} => to \in Goals
               /\ op = "uncancel" /\ t \in Cards => row[t].goal \in Goals
               /\ op = "move" => \/ to = Last /\ row[t].col # Last
                                 \/ row[t].goal \in Goals
      PROVE  Typed'
  <2> DEFINE k == Loaded(op, t, to, {t}, needsLock)
  <2>1. /\ k.op = op /\ k.on = t /\ k.to = to /\ k.last = Last
        /\ k.seen = [u \in {t} |-> row[u]] /\ k.ready = ~needsLock
    BY DEF Loaded
  <2>2. k.seen \in [{t} -> Row] /\ k.seen[t] = row[t]
    BY <1>1, <2>1, RowOf
  <2> HIDE DEF k
  <2>3. ReqTyped(k)
    BY <1>2, <2>1, <2>2 DEF ReqTyped
  <2>4. LockTyped(k)
    BY <1>2, <2>1, <2>2 DEF LockTyped
  <2>5. QED
    BY <1>1, <1>2, <2>3, <2>4, LoadTyped DEF k
<1>3. CASE LoadMove(r)
  <2>1. PICK c \in Cards, col \in OnBoard :
           Load(r, "move", c, col, {c},
                (col = Last /\ row[c].col # Last)
                \/ ((row[c].col = Last /\ col # Last) /\ ~row[c].cancelled /\ row[c].goal # None))
    BY <1>3 DEF LoadMove
  <2>2. c \in Tasks /\ row[c] \in Row /\ col \in Columns
    BY <1>1, RowOf, LastIsColumn
  <2>3. row[c].goal # None => row[c].goal \in Goals
    BY <2>2 DEF Row
  <2>4. QED
    BY <1>2, <2>1, <2>2, <2>3
<1>4. CASE LoadSetFinished(r)
  BY <1>1, <1>2, <1>4 DEF LoadSetFinished
<1>5. CASE LoadChangeStatus(r)
  <2>1. PICK t \in Tasks :
           \/ Load(r, "cancel", t, None, {t}, FALSE)
           \/ Load(r, "uncancel", t, None, {t},
                   /\ row[t].cancelled /\ ~row[t].finished
                   /\ t \in Subs \/ row[t].goal # None)
    BY <1>5 DEF LoadChangeStatus
  <2>2. row[t].goal # None => row[t].goal \in Goals
    BY <1>1, RowOf DEF Row
  <2>3. t \in Cards => t \notin Subs
    BY BoardConstants
  <2>4. QED
    BY <1>2, <2>1, <2>2, <2>3
<1>6. CASE LoadCreate(r)
  BY <1>1, <1>2, <1>6 DEF LoadCreate
<1>7. CASE LoadAssign(r)
  BY <1>1, <1>2, <1>7 DEF LoadAssign
<1>8. CASE LoadStore(r)
  <2> DEFINE S == {c \in Cards : IsLive(c) /\ row[c].col = Last}
             k == Loaded("store", None, None, S, FALSE)
  <2>1. Load(r, "store", None, None, S, FALSE)
    BY <1>8 DEF LoadStore
  <2>2. k.op = "store" /\ k.seen = [t \in S |-> row[t]] /\ k.ready
    BY DEF Loaded
  <2>3. S \subseteq Cards /\ S \subseteq Tasks
    BY <1>1
  <2> HIDE DEF k, S
  <2>4. k.seen \in [S -> Row]
    BY <1>1, <2>2, <2>3, RowOf
  <2>5. ReqTyped(k) /\ LockTyped(k)
    BY <2>2, <2>3, <2>4 DEF ReqTyped, LockTyped
  <2>6. QED
    BY <1>1, <2>1, <2>3, <2>5, LoadTyped DEF k
<1>9. CASE LoadRestore(r)
  BY <1>1, <1>2, <1>9, LastIsColumn DEF LoadRestore
<1>10. CASE LoadGoal(r)
  <2>1. PICK g \in Goals, to \in GoalMoves : Load(r, "goalStatus", g, to, {}, to = "achieved")
    BY <1>10 DEF LoadGoal, GoalMoves
  <2> DEFINE k == Loaded("goalStatus", g, to, {}, to = "achieved")
  <2>2. k.op = "goalStatus" /\ k.on = g /\ k.to = to /\ k.seenGoal = goal[g]
    BY DEF Loaded
  <2> HIDE DEF k
  <2>3. ReqTyped(k) /\ LockTyped(k)
    BY <1>1, <2>2 DEF ReqTyped, LockTyped, TypeOK
  <2>4. QED
    BY <1>1, <2>1, <2>3, LoadTyped DEF k
<1>11. QED
  BY <1>3, <1>4, <1>5, <1>6, <1>7, <1>8, <1>9, <1>10

\* A row of a request that is about a task.
LEMMA SeenRow ==
  ASSUME Typed, NEW r \in Requests, req[r].op \in OnTask
  PROVE  /\ req[r].on \in Tasks /\ req[r].seen[req[r].on] \in Row
         /\ DOMAIN req[r].seen = {req[r].on}
BY DEF Typed, ReqTyped

LEMMA LocksTyped ==
  ASSUME Typed, NEW r \in Requests,
         LockToArrive(r) \/ LockParent(r) \/ LockGoal(r) \/ LockToAchieve(r)
  PROVE  Typed'
<1> DEFINE k == req[r]
<1>1. k \in ReqType /\ ReqTyped(k) /\ LockTyped(k) /\ TypeOK
  BY DEF Typed
<1>2. ASSUME NEW x \in Tasks \cup Goals, Take(r, x)
      PROVE  Typed'
  <2> DEFINE m == [k EXCEPT !.holds = {x}, !.ready = TRUE]
  <2>1. m \in ReqType
    BY <1>1 DEF ReqType
  <2>2. /\ m.op = k.op /\ m.on = k.on /\ m.to = k.to /\ m.seen = k.seen
        /\ m.seenGoal = k.seenGoal /\ m.ready
    BY <1>1 DEF ReqType
  <2>3. req' = [req EXCEPT ![r] = m] /\ UNCHANGED <<board, row, box, goal>>
    BY <1>2 DEF Take, Typed
  <2> HIDE DEF m, k
  <2>4. ReqTyped(m) /\ LockTyped(m)
    BY <1>1, <2>2 DEF ReqTyped, LockTyped
  <2>5. QED
    BY <2>1, <2>3, <2>4, RequestTyped
<1>3. CASE LockToArrive(r)
  <2>1. k.on \in Tasks
    BY <1>1, <1>3 DEF LockToArrive, ReqTyped, OnTask, OnCard
  <2>2. QED
    BY <1>2, <1>3, <2>1 DEF LockToArrive
<1>4. CASE LockParent(r)
  <2>1. k.on \in Subs
    BY <1>1, <1>4 DEF LockParent, ReqTyped, OnSub
  <2>2. ParentOf[k.on] \in Tasks
    BY <2>1, BoardConstants DEF Tasks
  <2>3. QED
    BY <1>2, <1>4, <2>2 DEF LockParent
<1>5. CASE LockGoal(r)
  <2>1. (IF k.op \in {"create", "assign"} THEN k.to ELSE k.seen[k.on].goal) \in Goals
    BY <1>1, <1>5 DEF LockGoal, Take, LockTyped, ArrivingAtEnd
  <2>2. QED
    BY <1>2, <1>5, <2>1 DEF LockGoal
<1>6. CASE LockToAchieve(r)
  <2> DEFINE m == [k EXCEPT !.holds = {k.on}, !.ready = TRUE, !.seenGoal = goal[k.on]]
  <2>1. k.on \in Goals /\ goal[k.on] \in Goal
    BY <1>1, <1>6 DEF LockToAchieve, ReqTyped, TypeOK
  <2>2. m \in ReqType
    BY <1>1, <2>1 DEF ReqType
  <2>3. /\ m.op = k.op /\ m.on = k.on /\ m.to = k.to /\ m.seen = k.seen
        /\ m.seenGoal \in Goal /\ m.ready
    BY <1>1, <2>1 DEF ReqType
  <2>4. req' = [req EXCEPT ![r] = m] /\ UNCHANGED <<board, row, box, goal>>
    BY <1>6 DEF LockToAchieve, Typed
  <2> HIDE DEF m, k
  <2>5. ReqTyped(m) /\ LockTyped(m)
    BY <1>1, <2>3 DEF ReqTyped, LockTyped
  <2>6. QED
    BY <2>2, <2>4, <2>5, RequestTyped
<1>7. QED
  BY <1>3, <1>4, <1>5, <1>6

\* A commit, or a rollback, that leaves well-formed rows and goals behind it.
LEMMA CommitTyped ==
  ASSUME Typed, NEW r \in Requests, Finish(r),
         row' \in [Tasks -> Row], goal' \in [Goals -> Goal],
         \A t \in Tasks : row'[t].life = "live" => Constraints(t, row'[t]),
         UNCHANGED <<board, box>>
  PROVE  Typed'
<1>1. req' \in [Requests -> ReqType] /\ \A q \in Requests : req'[q] = req[q] \/ req'[q] = Idle
  BY IdleTyped DEF Finish, Typed
<1>2. \A q \in Requests : ReqTyped(req'[q]) /\ LockTyped(req'[q])
  BY <1>1, IdleTyped DEF Typed
<1>3. \A q \in Requests : req'[q].holds \subseteq Tasks \cup Goals
  BY <1>1 DEF ReqType
<1>4. TypeOK'
  BY <1>3 DEF Typed, TypeOK, IsLive
<1>5. QED
  BY <1>1, <1>2, <1>4 DEF Typed, ReqTyped, LockTyped

\* The rows and goals change under the requests in flight.
LEMMA DirectTyped ==
  ASSUME Typed, row' \in [Tasks -> Row], goal' \in [Goals -> Goal],
         box' \in [Cards -> BOOLEAN], board' \in Seq(Columns), Len(board') >= 2,
         \A t \in Tasks : row'[t].life = "live" => Constraints(t, row'[t]),
         UNCHANGED req
  PROVE  Typed'
BY DEF Typed, TypeOK, IsLive, ReqTyped, LockTyped

LEMMA UpdateTyped ==
  ASSUME Typed, NEW r \in Requests, NEW t \in Tasks, NEW new \in Row,
         req[r].seen[t] \in Row, UpdateRow(r, t, new), Finish(r),
         UNCHANGED <<board, box, goal>>
  PROVE  Typed'
<1> DEFINE m == Merged(r, t, new)
<1>1. m \in Row
  BY MergedRow, RowOf DEF Typed
<1>2. Constraints(t, m) /\ row' = [row EXCEPT ![t] = m]
  BY DEF UpdateRow
<1> HIDE DEF m
<1>3. row' \in [Tasks -> Row] /\ goal' \in [Goals -> Goal]
  BY <1>1, <1>2 DEF Typed, TypeOK
<1>4. \A u \in Tasks : row'[u].life = "live" => Constraints(u, row'[u])
  BY <1>2 DEF Typed, TypeOK, IsLive
<1>5. QED
  BY <1>3, <1>4, CommitTyped

LEMMA UpdatesTyped ==
  ASSUME Typed, NEW r \in Requests,
         \/ Move(r) \/ SetFinished(r) \/ ChangeStatus(r) \/ Assign(r) \/ Restore(r)
  PROVE  Typed'
<1> USE DEF OnTask, OnCard, OnSub
<1> DEFINE t == req[r].on
           old == req[r].seen[t]
<1>1. ASSUME req[r].op \in OnTask
      PROVE  /\ t \in Tasks /\ old \in Row
             /\ \A col \in Columns, f \in BOOLEAN :
                   [old EXCEPT !.col = col, !.finished = f] \in Row
             /\ \A f \in BOOLEAN : [old EXCEPT !.finished = f] \in Row
             /\ \A f \in BOOLEAN : [old EXCEPT !.cancelled = f] \in Row
             /\ \A g \in Goals \cup {None} : [old EXCEPT !.goal = g] \in Row
             /\ \A col \in Columns :
                   [old EXCEPT !.stored = FALSE, !.col = col, !.finished = TRUE] \in Row
  BY <1>1, SeenRow DEF Row
<1>2. ReqTyped(req[r])
  BY DEF Typed
<1>3. CASE Move(r)
  <2>1. req[r].op = "move" /\ req[r].to \in Columns
    BY <1>2, <1>3 DEF Move, Commit, ReqTyped
  <2> DEFINE new == IF req[r].to = old.col THEN old
                    ELSE [old EXCEPT !.col = req[r].to, !.finished = req[r].to = req[r].last]
  <2>2. new \in Row
    BY <1>1, <2>1
  <2>3. UpdateRow(r, t, new) /\ Finish(r) /\ UNCHANGED <<board, box, goal>>
    BY <1>3 DEF Move, Commit
  <2>4. QED
    BY <1>1, <2>1, <2>2, <2>3, UpdateTyped
<1>4. CASE SetFinished(r)
  BY <1>1, <1>4, UpdateTyped DEF SetFinished, Commit
<1>5. CASE ChangeStatus(r)
  BY <1>1, <1>5, UpdateTyped DEF ChangeStatus, Commit
<1>6. CASE Assign(r)
  BY <1>1, <1>2, <1>6, UpdateTyped DEF Assign, Commit, ReqTyped
<1>7. CASE Restore(r)
  BY <1>1, <1>2, <1>7, UpdateTyped DEF Restore, Commit, ReqTyped
<1>8. QED
  BY <1>3, <1>4, <1>5, <1>6, <1>7

LEMMA CreatesTyped ==
  ASSUME Typed, NEW r \in Requests, CreateCard(r) \/ CreateSubtask(r)
  PROVE  Typed'
<1> USE DEF OnTask, OnCard, OnSub
<1>1. ReqTyped(req[r]) /\ TypeOK
  BY DEF Typed
<1>2. ASSUME NEW t \in Tasks, NEW n \in Row, row' = [row EXCEPT ![t] = n],
             Constraints(t, n), Finish(r), UNCHANGED <<board, box, goal>>
      PROVE  Typed'
  <2>1. row' \in [Tasks -> Row] /\ goal' \in [Goals -> Goal]
    BY <1>1, <1>2 DEF TypeOK
  <2>2. \A u \in Tasks : row'[u].life = "live" => Constraints(u, row'[u])
    BY <1>1, <1>2 DEF TypeOK, IsLive
  <2>3. QED
    BY <1>2, <2>1, <2>2, CommitTyped
<1>3. CASE CreateCard(r)
  <2>0. PICK col \in OnBoard :
           row' = [row EXCEPT ![req[r].on] = [Unborn EXCEPT !.life = "live", !.col = col,
                                                           !.goal = req[r].to]]
    BY <1>3 DEF CreateCard
  <2> DEFINE n == [Unborn EXCEPT !.life = "live", !.col = col, !.goal = req[r].to]
  <2>1. req[r].on \in Cards /\ req[r].on \in Tasks /\ req[r].to \in Goals \cup {None}
    BY <1>1, <1>3 DEF CreateCard, Commit, ReqTyped
  <2>2. col \in Columns /\ col # None
    BY <1>1, <2>0, LastIsColumn, BoardConstants
  <2>3. n \in Row /\ Constraints(req[r].on, n)
    BY <2>1, <2>2 DEF Unborn, Row, Constraints
  <2>4. QED
    BY <1>2, <1>3, <2>0, <2>1, <2>3 DEF CreateCard, Commit
<1>4. CASE CreateSubtask(r)
  <2> DEFINE n == [Unborn EXCEPT !.life = "live"]
  <2>1. req[r].on \in Subs /\ req[r].on \in Tasks /\ req[r].on \notin Cards
    BY <1>1, <1>4, BoardConstants DEF CreateSubtask, Commit, ReqTyped
  <2>2. n \in Row /\ Constraints(req[r].on, n)
    BY <2>1 DEF Unborn, Row, Constraints
  <2>3. QED
    BY <1>2, <1>4, <2>1, <2>2 DEF CreateSubtask, Commit
<1>5. QED
  BY <1>3, <1>4

\* What StoreFinished writes to one of its cards.
Put(r, c) == Merged(r, c, [req[r].seen[c] EXCEPT !.stored = TRUE, !.col = None,
                                                 !.finished = TRUE])

LEMMA StoreShape ==
  ASSUME Typed, NEW r \in Requests, StoreFinished(r)
  PROVE  /\ Commit(r, "store") /\ UNCHANGED <<board, box, goal>>
         /\ DOMAIN req[r].seen \subseteq Cards
         /\ \A c \in DOMAIN req[r].seen :
               /\ req[r].seen[c] \in Row
               /\ [req[r].seen[c] EXCEPT !.stored = TRUE, !.col = None, !.finished = TRUE] \in Row
               /\ Put(r, c) \in Row /\ Free(r, c) /\ IsLive(c) /\ Constraints(c, Put(r, c))
         /\ row' = [t \in Tasks |-> IF t \in DOMAIN req[r].seen THEN Put(r, t) ELSE row[t]]
<1>1. Commit(r, "store") /\ UNCHANGED <<board, box, goal>>
  BY DEF StoreFinished
<1>2. PICK S \in SUBSET Cards : req[r].seen \in [S -> Row]
  BY <1>1 DEF Typed, ReqTyped, Commit
<1>3. \A c \in DOMAIN req[r].seen :
         /\ req[r].seen[c] \in Row
         /\ [req[r].seen[c] EXCEPT !.stored = TRUE, !.col = None, !.finished = TRUE] \in Row
  BY <1>2 DEF Row
<1>4. \A c \in DOMAIN req[r].seen : Put(r, c) \in Row
  <2>1. TAKE c \in DOMAIN req[r].seen
  <2>2. row[c] \in Row
    BY <1>2, RowOf DEF Typed, Tasks
  <2>3. QED
    BY <1>3, <2>2, MergedRow DEF Put
<1>5. \A c \in DOMAIN req[r].seen : Free(r, c) /\ IsLive(c) /\ Constraints(c, Put(r, c))
  BY DEF StoreFinished, Put
<1>6. row' = [t \in Tasks |-> IF t \in DOMAIN req[r].seen THEN Put(r, t) ELSE row[t]]
  BY DEF StoreFinished, Put
<1>7. QED
  BY <1>1, <1>2, <1>3, <1>4, <1>5, <1>6

LEMMA StoreTyped ==
  ASSUME Typed, NEW r \in Requests, StoreFinished(r)
  PROVE  Typed'
<1>1. TypeOK /\ Finish(r)
  BY StoreShape DEF Typed, Commit
<1>2. row' \in [Tasks -> Row] /\ goal' \in [Goals -> Goal]
  BY <1>1, StoreShape DEF TypeOK
<1>3. \A t \in Tasks : row'[t].life = "live" => Constraints(t, row'[t])
  BY <1>1, StoreShape DEF TypeOK, IsLive
<1>4. QED
  BY <1>1, <1>2, <1>3, StoreShape, CommitTyped

\* What SetGoalStatus makes of a goal.
LEMMA GoalShape ==
  ASSUME Typed, NEW r \in Requests, SetGoalStatus(r)
  PROVE  LET k == req[r] IN
         /\ k.op = "goalStatus" /\ k.ready /\ k.on \in Goals /\ Free(r, k.on)
         /\ k.to \in GoalMoves
         /\ Finish(r) /\ UNCHANGED <<board, row, box>>
         /\ \E n \in Goal : /\ goal' = [goal EXCEPT ![k.on] = n]
                            /\ n.status \in {goal[k.on].status, k.to}
<1> DEFINE k == req[r]
           g == k.on
           new == [status |-> k.to, at |-> k.to = "achieved"]
           n == [f \in DOMAIN new |-> IF new[f] # k.seenGoal[f] THEN new[f] ELSE goal[g][f]]
<1>1. /\ k.op = "goalStatus" /\ k.ready /\ g \in Goals /\ Free(r, g) /\ k.to \in GoalMoves
      /\ Finish(r) /\ UNCHANGED <<board, row, box>>
  BY DEF SetGoalStatus, Commit, Typed, ReqTyped
<1>2. goal[g] \in Goal /\ goal \in [Goals -> Goal] /\ k.seenGoal \in Goal
  BY <1>1 DEF Typed, TypeOK, ReqTyped
<1>3. CASE k.to = k.seenGoal.status
  <2>1. goal' = goal
    BY <1>3 DEF SetGoalStatus
  <2>2. goal' = [goal EXCEPT ![g] = goal[g]]
    BY <1>2, <2>1
  <2>3. QED
    BY <1>1, <1>2, <2>2
<1>4. CASE k.to # k.seenGoal.status
  <2>1. goal' = [goal EXCEPT ![g] = n]
    BY <1>4 DEF SetGoalStatus
  <2>2. n \in Goal /\ n.status \in {goal[g].status, k.to}
    BY <1>1, <1>2 DEF Goal, GoalMoves
  <2>3. QED
    BY <1>1, <2>1, <2>2
<1>5. QED
  BY <1>3, <1>4

LEMMA GoalStatusTyped ==
  ASSUME Typed, NEW r \in Requests, SetGoalStatus(r)
  PROVE  Typed'
<1>1. Finish(r) /\ UNCHANGED <<board, row, box>> /\ TypeOK
  BY GoalShape DEF Typed
<1>2. goal' \in [Goals -> Goal]
  BY <1>1, GoalShape DEF TypeOK
<1>3. QED
  BY <1>1, <1>2, CommitTyped DEF TypeOK, IsLive

LEMMA AbortTyped ==
  ASSUME Typed, NEW r \in Requests, Abort(r)
  PROVE  Typed'
BY CommitTyped DEF Abort, Typed, TypeOK, IsLive

LEMMA DeletesTyped ==
  ASSUME Typed
  PROVE  /\ \A t \in Tasks : DeleteTask(t) => Typed'
         /\ \A g \in Goals : CreateGoal(g) \/ DeleteGoal(g) => Typed'
         /\ \A c \in Cards : UpdateChecklistItem(c) => Typed'
<1>1. TypeOK
  BY DEF Typed
<1>2. ASSUME NEW t \in Tasks, DeleteTask(t)
      PROVE  Typed'
  <2> DEFINE gone == {t} \cup IF t \in Cards THEN SubsOf(t) ELSE {}
             n == [Unborn EXCEPT !.life = "gone"]
  <2>1. row' = [u \in Tasks |-> IF u \in gone THEN n ELSE row[u]]
        /\ UNCHANGED <<board, box, goal, req>>
    BY <1>2 DEF DeleteTask
  <2>2. n \in Row /\ n.life # "live"
    BY DEF Unborn, Row
  <2> HIDE DEF gone, n
  <2>3. row' \in [Tasks -> Row]
    BY <1>1, <2>1, <2>2 DEF TypeOK
  <2>4. \A u \in Tasks : row'[u].life = "live" => Constraints(u, row'[u])
    BY <1>1, <2>1, <2>2 DEF TypeOK, IsLive
  <2>5. QED
    BY <1>1, <2>1, <2>3, <2>4, DirectTyped DEF TypeOK
<1>3. ASSUME NEW g \in Goals, CreateGoal(g)
      PROVE  Typed'
  <2>1. goal' \in [Goals -> Goal] /\ UNCHANGED <<board, row, box, req>>
    BY <1>1, <1>3 DEF CreateGoal, TypeOK, Goal
  <2>2. QED
    BY <1>1, <2>1, DirectTyped DEF TypeOK, IsLive
<1>4. ASSUME NEW g \in Goals, DeleteGoal(g)
      PROVE  Typed'
  <2>1. /\ row' = [t \in Tasks |-> IF row[t].goal = g THEN [row[t] EXCEPT !.goal = None] ELSE row[t]]
        /\ goal' = [goal EXCEPT ![g] = [status |-> "gone", at |-> FALSE]]
        /\ UNCHANGED <<board, box, req>>
    BY <1>4 DEF DeleteGoal
  <2>2. goal' \in [Goals -> Goal]
    BY <1>1, <2>1 DEF TypeOK, Goal
  <2>3. \A t \in Tasks : row[t] \in Row /\ [row[t] EXCEPT !.goal = None] \in Row
    BY <1>1, RowOf DEF Row
  <2>4. row' \in [Tasks -> Row]
    BY <2>1, <2>3
  <2>5. \A t \in Tasks : row'[t].life = "live" => Constraints(t, row'[t])
    <3>1. TAKE t \in Tasks
    <3>2. HAVE row'[t].life = "live"
    <3>3. /\ row'[t].life = row[t].life /\ row'[t].col = row[t].col
          /\ row'[t].stored = row[t].stored /\ row'[t].finished = row[t].finished
          /\ row'[t].goal \in {row[t].goal, None}
      BY <2>1, <2>3 DEF Row
    <3>4. Constraints(t, row[t])
      BY <1>1, <3>2, <3>3 DEF TypeOK, IsLive
    <3>5. QED
      BY <3>3, <3>4 DEF Constraints
  <2>6. QED
    BY <1>1, <2>1, <2>2, <2>4, <2>5, DirectTyped DEF TypeOK
<1>5. ASSUME NEW c \in Cards, UpdateChecklistItem(c)
      PROVE  Typed'
  <2>1. box' \in [Cards -> BOOLEAN] /\ UNCHANGED <<board, row, goal, req>>
    BY <1>1, <1>5 DEF UpdateChecklistItem, TypeOK
  <2>2. QED
    BY <1>1, <2>1, DirectTyped DEF TypeOK, IsLive
<1>6. QED
  BY <1>2, <1>3, <1>4, <1>5

LEMMA WithoutColumn ==
  ASSUME TypeOK, Distinct, Len(board) > 2, NEW i \in 1..Len(board)
  PROVE  LET b == Without(i) IN
         /\ b \in Seq(Columns) /\ Len(b) = Len(board) - 1
         /\ \A p, q \in 1..Len(b) : b[p] = b[q] => p = q
<1> DEFINE b == Without(i)
<1>1. PICK n \in Nat : n = Len(board) /\ DOMAIN board = 1..n /\ \A j \in 1..n : board[j] \in Columns
  BY DEF TypeOK
<1>2. \A j \in 1..(n - 1) : j \in 1..n /\ j + 1 \in 1..n
  BY <1>1
<1>3. b = [j \in 1..(n - 1) |-> IF j < i THEN board[j] ELSE board[j + 1]]
  BY <1>1 DEF Without
<1>4. b \in [1..(n - 1) -> Columns] /\ n - 1 \in Nat
  BY <1>1, <1>2, <1>3
<1>5. b \in Seq(Columns) /\ Len(b) = n - 1
  BY <1>4
<1>6. ASSUME NEW p \in 1..(n - 1), NEW q \in 1..(n - 1), b[p] = b[q]
      PROVE  p = q
  <2> DEFINE at(j) == IF j < i THEN j ELSE j + 1
  <2>1. b[p] = board[at(p)] /\ b[q] = board[at(q)] /\ at(p) \in 1..n /\ at(q) \in 1..n
    BY <1>2, <1>3
  <2>2. at(p) = at(q)
    BY <1>1, <1>6, <2>1 DEF Distinct
  <2>3. QED
    BY <2>2
<1>7. QED
  BY <1>1, <1>5, <1>6

\* However the columns are changed, the board stays one of two columns at
\* least, no two of them the same.
LEMMA ColumnsTyped ==
  ASSUME Typed, Distinct,
         CreateColumn \/ Reorder \/ \E col \in Columns : DeleteColumn(col)
  PROVE  Typed' /\ Distinct'
<1>1. TypeOK /\ UNCHANGED <<row, box, goal, req>>
  BY DEF Typed, CreateColumn, Reorder, DeleteColumn
<1>2. SUFFICES /\ board' \in Seq(Columns) /\ Len(board') >= 2
               /\ \A i, j \in 1..Len(board') : board'[i] = board'[j] => i = j
  BY <1>1, DirectTyped DEF TypeOK, IsLive, Distinct
<1>3. CASE CreateColumn
  <2>1. PICK col \in Columns \ OnBoard : board' = Append(board, col)
    BY <1>3 DEF CreateColumn
  <2>2. /\ board' \in Seq(Columns) /\ Len(board') = Len(board) + 1
        /\ board'[Len(board) + 1] = col /\ \A i \in 1..Len(board) : board'[i] = board[i]
    BY <1>1, <2>1 DEF TypeOK
  <2>3. Len(board) \in Nat /\ \A i \in 1..Len(board) : board[i] # col
    BY <1>1 DEF TypeOK, OnBoard
  <2>4. ASSUME NEW i \in 1..Len(board'), NEW j \in 1..Len(board'), board'[i] = board'[j]
        PROVE  i = j
    <3>1. i \in 1..Len(board) \/ i = Len(board) + 1
      BY <2>2, <2>3
    <3>2. j \in 1..Len(board) \/ j = Len(board) + 1
      BY <2>2, <2>3
    <3>3. QED
      BY <2>2, <2>3, <2>4, <3>1, <3>2 DEF Distinct
  <2>5. QED
    BY <1>1, <2>2, <2>4 DEF TypeOK
<1>4. CASE Reorder
  <2>1. board' \in [1..Len(board) -> OnBoard]
        /\ \A i, j \in 1..Len(board) : board'[i] = board'[j] => i = j
    BY <1>4 DEF Reorder
  <2>2. Len(board) \in Nat /\ Len(board) >= 2 /\ OnBoard \subseteq Columns
    BY <1>1, LastIsColumn DEF TypeOK
  <2>3. board' \in Seq(Columns) /\ Len(board') = Len(board)
    BY <2>1, <2>2
  <2>4. QED
    BY <2>1, <2>2, <2>3
<1>5. CASE \E col \in Columns : DeleteColumn(col)
  <2>1. PICK i \in 1..Len(board) : board' = Without(i)
    BY <1>5 DEF DeleteColumn
  <2>2. Len(board) > 2 /\ Len(board) \in Nat
    BY <1>1, <1>5 DEF DeleteColumn, TypeOK
  <2>3. QED
    BY <1>1, <2>1, <2>2, WithoutColumn
<1>6. QED
  BY <1>3, <1>4, <1>5

LEMMA InitTyped == Init => Typed /\ Distinct
<1> SUFFICES ASSUME Init PROVE Typed /\ Distinct
  OBVIOUS
<1>1. board \in [1..Starters -> Columns] /\ Starters \in Nat /\ Starters >= 2
      /\ \A i, j \in 1..Starters : board[i] = board[j] => i = j
  BY BoardConstants DEF Init
<1>2. board \in Seq(Columns) /\ Len(board) = Starters
  BY <1>1
<1>3. row \in [Tasks -> Row] /\ \A t \in Tasks : ~IsLive(t)
  BY UnbornRow DEF Init, IsLive
<1>4. goal \in [Goals -> Goal] /\ box \in [Cards -> BOOLEAN]
  BY DEF Init, Goal
<1>5. req = [r \in Requests |-> Idle] /\ \A r \in Requests : req[r].holds = {}
  BY DEF Init, Idle
<1>6. TypeOK
  BY <1>1, <1>2, <1>3, <1>4, <1>5 DEF TypeOK
<1>7. QED
  BY <1>1, <1>2, <1>5, <1>6, IdleTyped DEF Typed, Distinct

\* No action leaves a board, a row, a goal or a request ill-formed.
LEMMA NextTyped ==
  ASSUME Typed, Distinct, [Next]_vars
  PROVE  Typed' /\ Distinct'
<1>1. CASE UNCHANGED vars
  BY <1>1 DEF vars, Typed, TypeOK, IsLive, Distinct, ReqTyped, LockTyped
<1>2. CASE CreateColumn \/ Reorder \/ \E col \in Columns : DeleteColumn(col)
  BY <1>2, ColumnsTyped
<1>3. CASE /\ UNCHANGED board
           /\ \/ \E t \in Tasks : DeleteTask(t)
              \/ \E g \in Goals : CreateGoal(g) \/ DeleteGoal(g)
              \/ \E c \in Cards : UpdateChecklistItem(c)
  BY <1>3, DeletesTyped DEF Distinct
<1>4. ASSUME NEW r \in Requests,
             \/ LoadMove(r) \/ LoadSetFinished(r) \/ LoadChangeStatus(r) \/ LoadCreate(r)
             \/ LoadAssign(r) \/ LoadStore(r) \/ LoadRestore(r) \/ LoadGoal(r)
      PROVE  Typed' /\ Distinct'
  <2>1. UNCHANGED board
    BY <1>4 DEF LoadMove, LoadSetFinished, LoadChangeStatus, LoadCreate, LoadAssign,
                LoadStore, LoadRestore, LoadGoal, Load
  <2>2. QED
    BY <1>4, <2>1, LoadsTyped DEF Distinct
<1>5. ASSUME NEW r \in Requests,
             LockToArrive(r) \/ LockParent(r) \/ LockGoal(r) \/ LockToAchieve(r)
      PROVE  Typed' /\ Distinct'
  <2>1. UNCHANGED board
    BY <1>5 DEF LockToArrive, LockParent, LockGoal, LockToAchieve, Take
  <2>2. QED
    BY <1>5, <2>1, LocksTyped DEF Distinct
<1>6. ASSUME NEW r \in Requests,
             \/ Move(r) \/ SetFinished(r) \/ ChangeStatus(r) \/ Assign(r) \/ Restore(r)
             \/ CreateCard(r) \/ CreateSubtask(r) \/ StoreFinished(r) \/ SetGoalStatus(r)
             \/ Abort(r)
      PROVE  Typed' /\ Distinct'
  <2>1. UNCHANGED board
    BY <1>6 DEF Move, SetFinished, ChangeStatus, Assign, Restore, CreateCard, CreateSubtask,
                StoreFinished, SetGoalStatus, Abort
  <2>2. QED
    BY <1>6, <2>1, UpdatesTyped, CreatesTyped, StoreTyped, GoalStatusTyped, AbortTyped DEF Distinct
<1>7. (\E t \in Tasks : DeleteTask(t)) => UNCHANGED board
  BY DEF DeleteTask
<1>8. (\E g \in Goals : CreateGoal(g) \/ DeleteGoal(g)) => UNCHANGED board
  BY DEF CreateGoal, DeleteGoal
<1>9. (\E c \in Cards : UpdateChecklistItem(c)) => UNCHANGED board
  BY DEF UpdateChecklistItem
<1>10. QED
  BY <1>1, <1>2, <1>3, <1>4, <1>5, <1>6, <1>7, <1>8, <1>9 DEF Next

\* The board keeps two columns at least, no two of them the same, and every
\* live row the shape the tables' types and CHECK constraints give it
\* (columns.py, models/task.py), for any number of requests interleaving in any
\* way, whether or not they write the same rows.
THEOREM TypeCorrect == Spec => [](TypeOK /\ Distinct)
<1>1. Typed => TypeOK
  BY DEF Typed
<1>2. QED
  BY <1>1, InitTyped, NextTyped, PTL DEF Spec
-----------------------------------------------------------------------------
(* The rules, when no two requests in flight write the same row and the last *)
(* place passes between empty columns only.                                  *)

\* A request nobody touches still stands on what it found, when the rows
\* change under it: a card is newly open on a goal, or a sub-task newly open,
\* only under the locks in H, none of which this request has.
LEMMA KeptStays ==
  ASSUME NEW k \in ReqType, ReqTyped(k), Kept(k), NEW H, H \cap k.holds = {}, Last' = Last,
         \A c \in Cards : OpenCard(c)' /\ row'[c].goal # None =>
            \/ OpenCard(c) /\ row[c].goal = row'[c].goal
            \/ row'[c].goal \in H,
         \A s \in Subs : IsLive(s)' /\ ~Settled(s)' =>
            \/ IsLive(s) /\ ~Settled(s)
            \/ ParentOf[s] \in H,
         k.op # "idle" => \A t \in DOMAIN k.seen :
            IsLive(t)' => IsLive(t) /\ Lasting(row[t], row'[t]),
         \A c \in Cards \cap k.holds : row'[c].finished => row[c].finished,
         \A g \in Goals \cap k.holds : goal'[g].status = goal[g].status
  PROVE  Kept(k)'
<1> USE DEF OnTask, OnCard, OnSub
<1>1. Asked(k)'
  BY DEF Kept, Asked
<1>2. AsLoaded(k)'
  BY DEF Kept, AsLoaded, Lasting
<1>3. ASSUME NEW c \in Cards, c \in k.holds, SubsSettled(c)
      PROVE  SubsSettled(c)'
  BY <1>3 DEF SubsSettled, SubsOf
<1>4. ArrivalKept(k)'
  BY <1>3 DEF Kept, ArrivalKept, ReqTyped
<1>5. ParentKept(k)'
  BY BoardConstants DEF Kept, ParentKept, ReqTyped
<1>6. ASSUME NEW g \in Goals, Welcoming(k, g)
      PROVE  Welcoming(k, g)'
  BY <1>6 DEF Welcoming
<1>7. GoalKept(k)'
  <2>1. k.op \in {"move", "uncancel"} => k.seen[k.on].goal \in Goals \cup {None}
    BY DEF ReqTyped, Row
  <2>2. k.op \in {"create", "assign"} => k.to \in Goals \cup {None}
    BY DEF ReqTyped
  <2>3. QED
    BY <1>6, <2>1, <2>2 DEF Kept, GoalKept
<1>8. AchievedKept(k)'
  <2>1. k.op = "goalStatus" => k.on # None
    BY BoardConstants DEF ReqTyped
  <2>2. QED
    BY <2>1 DEF Kept, AchievedKept
<1>9. QED
  BY <1>1, <1>2, <1>4, <1>5, <1>7, <1>8 DEF Kept

LEMMA IdleIsKept == Kept(Idle) /\ Kept(Idle)'
BY DEF Kept, Asked, AsLoaded, ArrivalKept, ParentKept, GoalKept, AchievedKept, Idle

\* A card finished after a step without a look under it: it was, or it was in
\* the last column and is stored by this step.
Closing(c) ==
    \/ row[c].finished /\ ~row[c].stored
    \/ row'[c].stored /\ (row[c].finished \/ row[c].col = Last)

\* A card done and not finished after a step: created there, by it or before.
StaysUnfinished(c) == ~IsLive(c) \/ (Done(c) /\ ~row[c].finished)

\* What is enough of a step that changes rows and goals for the rules to
\* stand after it.  The requests of S are those it leaves in flight; it opens
\* a card or a sub-task only under the locks in H.
Harmless(S, H) ==
    /\ Distinct' /\ Last' = Last
    /\ \A q \in Requests \ S : req'[q] = Idle
    /\ \A q \in S : req'[q] = req[q] /\ H \cap req[q].holds = {}
    /\ \A c \in Cards : OpenCard(c)' /\ row'[c].goal # None =>
          \/ OpenCard(c) /\ row[c].goal = row'[c].goal
          \/ row'[c].goal \in H /\ goal[row'[c].goal].status \in {"open", "dropped"}
    /\ \A s \in Subs : IsLive(s)' /\ ~Settled(s)' =>
          \/ IsLive(s) /\ ~Settled(s)
          \/ /\ ParentOf[s] \in H /\ ~row[ParentOf[s]].finished
             /\ ~row'[ParentOf[s]].finished
    /\ \A c \in Cards : row'[c].finished => Closing(c) \/ SubsSettled(c)
    /\ \A c \in Cards : Done(c)' /\ ~row'[c].finished => StaysUnfinished(c)
    /\ FinishedMeansDone' /\ Bare'
    /\ \A q \in S : req[q].op # "idle" => \A t \in DOMAIN req[q].seen :
          IsLive(t)' => IsLive(t) /\ Lasting(row[t], row'[t])
    /\ \A q \in S : \A c \in Cards \cap req[q].holds : row'[c].finished => row[c].finished
    /\ \A g \in Goals : goal'[g].status # goal[g].status =>
          /\ \A q \in S : g \notin req[q].holds
          /\ goal'[g].status = "achieved" =>
               \A c \in Cards : OpenCard(c)' => row'[c].goal # g

LEMMA RulesStand ==
  ASSUME IInv, Typed', NEW S \in SUBSET Requests, NEW H, Harmless(S, H)
  PROVE  Stands
<1> USE DEF Harmless
<1>1. ASSUME NEW s \in Subs, OpenUnder(s)'
      PROVE  LET p == ParentOf[s] IN
             /\ row'[p].stored
             /\ \/ OpenUnder(s)
                \/ IsLive(s) /\ ~Settled(s) /\ row[p].col = Last /\ ~row[p].finished
  <2>1. ParentOf[s] \in Cards
    BY BoardConstants
  <2>2. IsLive(s) /\ ~Settled(s)
    BY <1>1 DEF OpenUnder
  <2>3. ~SubsSettled(ParentOf[s])
    BY <2>2 DEF SubsSettled, SubsOf
  <2>4. Closing(ParentOf[s])
    BY <1>1, <2>1, <2>3 DEF OpenUnder
  <2>5. QED
    BY <2>2, <2>4 DEF Closing, OpenUnder, IInv, ClosedOnBoard
<1>2. ClosedOnBoard' /\ KeepsFinishedClosed
  BY <1>1 DEF ClosedOnBoard, KeepsFinishedClosed
<1>3. FollowsPlace
  BY DEF FollowsPlace, StaysUnfinished, FinishedMeansDone
<1>4. NoOpenCardOnAchieved'
  <2> SUFFICES ASSUME NEW c \in Cards, OpenCard(c)', row'[c].goal # None,
                      goal'[row'[c].goal].status = "achieved"
               PROVE  FALSE
    BY DEF NoOpenCardOnAchieved
  <2>1. row'[c] \in Row
    BY DEF Typed, TypeOK, Tasks
  <2>2. row'[c].goal \in Goals
    BY <2>1 DEF Row
  <2>3. goal'[row'[c].goal].status = goal[row'[c].goal].status
    BY <2>2
  <2>4. QED
    BY <2>3 DEF IInv, NoOpenCardOnAchieved
<1>5. ASSUME NEW q \in Requests
      PROVE  Kept(req[q])'
  <2>1. CASE q \notin S
    <3>1. req'[q] = Idle
      BY <2>1
    <3>2. QED
      BY <3>1 DEF Kept, Asked, AsLoaded, ArrivalKept, ParentKept, GoalKept,
                  AchievedKept, Idle
  <2>2. CASE q \in S
    <3>1. PICK k : k = req[q]
      OBVIOUS
    <3>2. k \in ReqType /\ ReqTyped(k) /\ Kept(k) /\ req'[q] = k /\ H \cap k.holds = {}
      BY <2>2, <3>1 DEF IInv, Typed
    <3>3. k.op # "idle" => \A t \in DOMAIN k.seen :
            IsLive(t)' => IsLive(t) /\ Lasting(row[t], row'[t])
      BY <2>2, <3>1
    <3>4. /\ \A c \in Cards \cap k.holds : row'[c].finished => row[c].finished
          /\ \A g \in Goals \cap k.holds : goal'[g].status = goal[g].status
      BY <2>2, <3>1
    <3>5. Kept(k)'
      BY <3>2, <3>3, <3>4, KeptStays
    <3>6. QED
      BY <3>2, <3>5
  <2>3. QED
    BY <2>1, <2>2
<1>6. ASSUME NEW p \in Requests, NEW q \in Requests \ {p}
      PROVE  Apart(req[p], req[q])'
  <2>1. Apart(req[p], req[q])
    BY DEF IInv
  <2>2. CASE p \in S /\ q \in S
    BY <2>1, <2>2 DEF Apart
  <2>3. CASE p \notin S \/ q \notin S
    BY <2>3 DEF Apart, Idle
  <2>4. QED
    BY <2>2, <2>3
<1>7. QED
  BY <1>2, <1>3, <1>4, <1>5, <1>6 DEF IInv, Stands

\* A request that writes one row and is done.
LEMMA OneRowStands ==
  ASSUME IInv, Typed', NEW r \in Requests, Finish(r), UNCHANGED <<board, box, goal>>,
         req[r].op # "idle", NEW t \in Tasks, t = req[r].on,
         NEW n \in Row, row' = [row EXCEPT ![t] = n],
         n.life = "live", Free(r, t) \/ ~n.finished,
         t \in Cards /\ n.finished => n.stored \/ n.col = Last,
         t \in Cards /\ n.finished =>
            (row[t].finished /\ (n.stored <=> row[t].stored)) \/ SubsSettled(t),
         t \in Cards /\ ~n.finished /\ (n.stored \/ n.col = Last) => StaysUnfinished(t),
         t \in Cards /\ ~n.cancelled /\ n.col \notin {None, Last} /\ n.goal # None =>
            \/ OpenCard(t) /\ row[t].goal = n.goal
            \/ Welcoming(req[r], n.goal),
         t \in Subs /\ ~n.cancelled /\ ~n.finished =>
            \/ IsLive(t) /\ ~Settled(t)
            \/ ParentOf[t] \in req[r].holds /\ ~row[ParentOf[t]].finished
  PROVE  Stands
<1> DEFINE H == req[r].holds
           S == Requests \ {r}
<1>1. /\ row'[t] = n /\ \A u \in Tasks \ {t} : row'[u] = row[u]
      /\ Cards \subseteq Tasks /\ Subs \subseteq Tasks /\ Cards \cap Subs = {}
      /\ ParentOf \in [Subs -> Cards] /\ Last' = Last
  BY BoardConstants DEF IInv, Typed, TypeOK, Tasks, Last
<1>2. req'[r] = Idle /\ \A q \in S : req'[q] = req[q]
  BY DEF Finish, IInv, Typed
<1>3. \A q \in S : Apart(req[r], req[q])
  BY DEF IInv
<1>4. \A q \in S : H \cap req[q].holds = {}
  BY <1>3 DEF Apart
<1>5. \A c \in Cards : OpenCard(c)' /\ row'[c].goal # None =>
            \/ OpenCard(c) /\ row[c].goal = row'[c].goal
            \/ row'[c].goal \in H /\ goal[row'[c].goal].status \in {"open", "dropped"}
  BY <1>1 DEF OpenCard, IsLive, Welcoming
<1>6. \A s \in Subs : IsLive(s)' /\ ~Settled(s)' =>
            \/ IsLive(s) /\ ~Settled(s)
            \/ /\ ParentOf[s] \in H /\ ~row[ParentOf[s]].finished
               /\ ~row'[ParentOf[s]].finished
  <2>1. TAKE s \in Subs
  <2>2. CASE s # t
    BY <1>1, <2>2 DEF IsLive, Settled
  <2>3. CASE s = t
    <3>1. ParentOf[s] \in Cards /\ ParentOf[s] # t
      BY <1>1, <2>3
    <3>2. row'[ParentOf[s]] = row[ParentOf[s]]
      BY <1>1, <3>1
    <3>3. QED
      BY <1>1, <2>3, <3>2 DEF IsLive, Settled
  <2>4. QED
    BY <2>2, <2>3
<1>7. /\ \A c \in Cards : row'[c].finished => Closing(c) \/ SubsSettled(c)
      /\ \A c \in Cards : Done(c)' /\ ~row'[c].finished => StaysUnfinished(c)
  <2>1. ASSUME NEW c \in Cards, c # t
        PROVE  /\ row'[c].finished => Closing(c)
               /\ Done(c)' /\ ~row'[c].finished => StaysUnfinished(c)
    <3>1. row'[c] = row[c] /\ (Done(c)' <=> Done(c))
      BY <1>1, <2>1 DEF Done
    <3>2. QED
      BY <3>1 DEF Closing, StaysUnfinished
  <2>2. CASE t \in Cards
    <3>1. row'[t].finished => Closing(t) \/ SubsSettled(t)
      BY <1>1, <2>2 DEF Closing
    <3>2. Done(t)' /\ ~row'[t].finished => StaysUnfinished(t)
      BY <1>1, <2>2 DEF Done
    <3>3. QED
      BY <2>1, <3>1, <3>2
  <2>3. QED
    BY <2>1, <2>2
<1>8. FinishedMeansDone'
  <2>1. \A c \in Cards : c # t => row'[c] = row[c]
    BY <1>1
  <2>2. QED
    BY <1>1, <2>1 DEF IInv, FinishedMeansDone, Done
<1>9. Bare'
  BY <1>1 DEF IInv, Bare, IsLive
<1>10. \A q \in S : req[q].op # "idle" => \A u \in DOMAIN req[q].seen :
            IsLive(u)' => IsLive(u) /\ Lasting(row[u], row'[u])
  <2>1. TAKE q \in S
  <2>2. HAVE req[q].op # "idle"
  <2>3. t \notin DOMAIN req[q].seen
    BY <1>3, <2>2 DEF Apart
  <2>4. DOMAIN req[q].seen \subseteq Tasks
    BY DEF IInv, Typed, ReqType
  <2>5. QED
    BY <1>1, <2>3, <2>4 DEF IsLive, Lasting
<1>11. \A q \in S : \A c \in Cards \cap req[q].holds : row'[c].finished => row[c].finished
  BY <1>1 DEF Free
<1>12. Distinct'
  BY DEF IInv, Distinct
<1>13. S \in SUBSET Requests /\ \A q \in Requests \ S : req'[q] = Idle
  BY <1>2
<1>14. \A q \in S : req'[q] = req[q] /\ H \cap req[q].holds = {}
  BY <1>2, <1>4
<1>15. \A g \in Goals : goal'[g].status # goal[g].status =>
            /\ \A q \in S : g \notin req[q].holds
            /\ goal'[g].status = "achieved" =>
                 \A c \in Cards : OpenCard(c)' => row'[c].goal # g
  OBVIOUS
<1> HIDE DEF H, S
<1>16. Last' = Last
  BY <1>1
<1>17. QED
  BY <1>5, <1>6, <1>7, <1>8, <1>9, <1>10, <1>11, <1>12, <1>13, <1>14, <1>15, <1>16, RulesStand DEF Harmless

\* An UPDATE of the one row a request loaded leaves the fields it asked for:
\* what it loaded is still so, but for a goal that is gone.
Updated(t, old, new) ==
    \E n \in Row :
        /\ row' = [row EXCEPT ![t] = n]
        /\ Constraints(t, n)
        /\ n.life = "live" /\ n.col = new.col /\ n.stored = new.stored
        /\ n.finished = new.finished /\ n.cancelled = new.cancelled
        /\ n.goal = IF new.goal # old.goal THEN new.goal ELSE row[t].goal

LEMMA UpdateShape ==
  ASSUME IInv, NEW r \in Requests, req[r].op \in OnTask, NEW new \in Row,
         UpdateRow(r, req[r].on, new), new.life = req[r].seen[req[r].on].life
  PROVE  /\ Free(r, req[r].on) /\ IsLive(req[r].on)
         /\ Lasting(req[r].seen[req[r].on], row[req[r].on])
         /\ req[r].last = Last
         /\ Updated(req[r].on, req[r].seen[req[r].on], new)
<1> DEFINE t == req[r].on
           old == req[r].seen[t]
           n == Merged(r, t, new)
<1>1. t \in Tasks /\ old \in Row /\ t \in DOMAIN req[r].seen /\ row[t] \in Row
  BY SeenRow, RowOf DEF IInv, Typed
<1>2. Free(r, t) /\ IsLive(t) /\ Constraints(t, n) /\ row' = [row EXCEPT ![t] = n]
  BY DEF UpdateRow
<1>3. req[r].last = Last /\ Lasting(old, row[t])
  BY <1>1, <1>2 DEF IInv, Kept, AsLoaded, OnTask, OnCard, OnSub
<1>4. /\ n \in Row
      /\ n.life = IF new.life # old.life THEN new.life ELSE row[t].life
      /\ n.col = IF new.col # old.col THEN new.col ELSE row[t].col
      /\ n.stored = IF new.stored # old.stored THEN new.stored ELSE row[t].stored
      /\ n.finished = IF new.finished # old.finished THEN new.finished ELSE row[t].finished
      /\ n.cancelled = IF new.cancelled # old.cancelled THEN new.cancelled ELSE row[t].cancelled
      /\ n.goal = IF new.goal # old.goal THEN new.goal ELSE row[t].goal
  BY <1>1, MergedRow
<1> HIDE DEF n
<1>5. n.life = "live" /\ n.col = new.col /\ n.stored = new.stored
      /\ n.finished = new.finished /\ n.cancelled = new.cancelled
  BY <1>2, <1>3, <1>4 DEF Lasting, IsLive
<1>6. Updated(t, old, new)
  BY <1>2, <1>4, <1>5 DEF Updated
<1>7. QED
  BY <1>2, <1>3, <1>6

LEMMA MoveStands ==
  ASSUME IInv, Typed', NEW r \in Requests, Move(r)
  PROVE  Stands
<1> USE DEF OnTask, OnCard, OnSub
<1> DEFINE k == req[r]
           c == k.on
           old == k.seen[c]
           new == IF k.to = old.col THEN old
                  ELSE [old EXCEPT !.col = k.to, !.finished = k.to = k.last]
<1>1. /\ k.op = "move" /\ k.ready /\ Finish(r) /\ UNCHANGED <<board, box, goal>>
      /\ UpdateRow(r, c, new)
  BY DEF Move, Commit
<1>2. c \in Cards /\ c \in Tasks /\ old \in Row /\ k.to \in Columns /\ k.to # None
  BY <1>1, SeenRow, BoardConstants DEF IInv, Typed, ReqTyped
<1>3. /\ new \in Row /\ new.life = old.life /\ new.stored = old.stored /\ new.col = k.to
      /\ new.cancelled = old.cancelled /\ new.goal = old.goal
      /\ new.finished = IF k.to = old.col THEN old.finished ELSE k.to = k.last
  BY <1>2 DEF Row
<1> HIDE DEF new
<1>4. /\ Free(r, c) /\ IsLive(c) /\ Lasting(old, row[c]) /\ k.last = Last
      /\ Updated(c, old, new)
  BY <1>1, <1>3, UpdateShape
<1>5. PICK n \in Row :
            /\ row' = [row EXCEPT ![c] = n]
            /\ n.life = "live" /\ n.col = k.to /\ n.stored = old.stored
            /\ n.finished = (IF k.to = old.col THEN old.finished ELSE k.to = k.last)
            /\ n.cancelled = old.cancelled /\ n.goal = row[c].goal
  BY <1>3, <1>4 DEF Updated
<1>6. /\ ~old.stored /\ Kept(k) /\ Constraints(c, row[c])
      /\ row[c].finished => Done(c)
  BY <1>1, <1>2, <1>4 DEF IInv, Kept, Asked, Typed, TypeOK, FinishedMeansDone
<1>7. /\ row[c].col = old.col /\ row[c].col # None /\ ~row[c].stored
      /\ row[c].finished = old.finished /\ row[c].cancelled = old.cancelled
      /\ row[c].goal \in {old.goal, None}
  BY <1>2, <1>4, <1>6 DEF Lasting, Constraints
<1>8. n.finished => n.stored \/ n.col = Last
  BY <1>4, <1>5, <1>6, <1>7 DEF Done
<1>9. n.finished => (row[c].finished /\ (n.stored <=> row[c].stored)) \/ SubsSettled(c)
  BY <1>1, <1>4, <1>5, <1>6, <1>7 DEF Kept, ArrivalKept
<1>10. ~n.finished /\ (n.stored \/ n.col = Last) => StaysUnfinished(c)
  BY <1>4, <1>5, <1>6, <1>7 DEF Done, StaysUnfinished
<1>11. ~n.cancelled /\ n.col \notin {None, Last} /\ n.goal # None =>
            \/ OpenCard(c) /\ row[c].goal = n.goal
            \/ Welcoming(k, n.goal)
  <2>1. CASE row[c].col # Last
    BY <1>4, <1>5, <1>7, <2>1 DEF OpenCard
  <2>2. CASE row[c].col = Last
    BY <1>1, <1>4, <1>5, <1>6, <1>7, <2>2 DEF Kept, GoalKept
  <2>3. QED
    BY <2>1, <2>2
<1>12. c \notin Subs
  BY <1>2, BoardConstants
<1> HIDE DEF old
<1>13. /\ row' = [row EXCEPT ![c] = n] /\ n.life = "live" /\ Free(r, c) /\ Finish(r)
       /\ UNCHANGED <<board, box, goal>> /\ k.op # "idle" /\ c \in Tasks
  BY <1>1, <1>2, <1>4, <1>5
<1> HIDE DEF k, c
<1>14. QED
  BY <1>8, <1>9, <1>10, <1>11, <1>12, <1>13, OneRowStands DEF k, c

LEMMA SetFinishedStands ==
  ASSUME IInv, Typed', NEW r \in Requests, SetFinished(r)
  PROVE  Stands
<1> USE DEF OnTask, OnCard, OnSub
<1> DEFINE k == req[r]
           s == k.on
           old == k.seen[s]
<1>1. PICK f \in BOOLEAN :
         /\ k.op = IF f THEN "tick" ELSE "untick"
         /\ k.ready /\ Finish(r) /\ UNCHANGED <<board, box, goal>>
         /\ UpdateRow(r, s, [old EXCEPT !.finished = f])
  BY DEF SetFinished, Commit
<1>2. s \in Subs /\ s \in Tasks /\ s \notin Cards /\ old \in Row
  BY <1>1, SeenRow, BoardConstants DEF IInv, Typed, ReqTyped
<1> DEFINE new == [old EXCEPT !.finished = f]
<1>3. new \in Row /\ new.life = old.life /\ new.finished = f
  BY <1>2 DEF Row
<1>4. UpdateRow(r, s, new)
  BY <1>1
<1> HIDE DEF new
<1>5. Free(r, s) /\ Updated(s, old, new)
  BY <1>1, <1>3, <1>4, UpdateShape
<1>6. PICK n \in Row : row' = [row EXCEPT ![s] = n] /\ n.life = "live" /\ n.finished = f
  BY <1>3, <1>5 DEF Updated
<1>7. ~f => ParentOf[s] \in k.holds /\ ~row[ParentOf[s]].finished
  BY <1>1 DEF IInv, Kept, ParentKept
<1> HIDE DEF old
<1>8. QED
  BY <1>1, <1>2, <1>5, <1>6, <1>7, OneRowStands

LEMMA ChangeStatusStands ==
  ASSUME IInv, Typed', NEW r \in Requests, ChangeStatus(r)
  PROVE  Stands
<1> USE DEF OnTask, OnCard, OnSub
<1> DEFINE k == req[r]
           t == k.on
           old == k.seen[t]
<1>1. PICK f \in BOOLEAN :
         /\ k.op = IF f THEN "cancel" ELSE "uncancel"
         /\ k.ready /\ Finish(r) /\ UNCHANGED <<board, box, goal>>
         /\ UpdateRow(r, t, [old EXCEPT !.cancelled = f])
  BY DEF ChangeStatus, Commit
<1>2. t \in Tasks /\ old \in Row /\ Kept(k)
  BY <1>1, SeenRow DEF IInv, Typed
<1> DEFINE new == [old EXCEPT !.cancelled = f]
<1>3. /\ new \in Row /\ new.life = old.life /\ new.cancelled = f /\ new.finished = old.finished
      /\ new.stored = old.stored /\ new.col = old.col /\ new.goal = old.goal
  BY <1>2 DEF Row
<1>4. UpdateRow(r, t, new)
  BY <1>1
<1> HIDE DEF new
<1>5. /\ Free(r, t) /\ IsLive(t) /\ Lasting(old, row[t])
      /\ Updated(t, old, new)
  BY <1>1, <1>3, <1>4, UpdateShape
<1>6. PICK n \in Row :
            /\ row' = [row EXCEPT ![t] = n]
            /\ n.life = "live" /\ n.col = row[t].col /\ n.stored = row[t].stored
            /\ n.finished = row[t].finished /\ n.cancelled = f /\ n.goal = row[t].goal
  BY <1>3, <1>5 DEF Lasting, Updated
<1>7. /\ old.cancelled = row[t].cancelled /\ old.finished = row[t].finished
      /\ row[t].goal \in {old.goal, None}
  BY <1>5 DEF Lasting
<1>8. t \in Cards /\ row[t].finished => row[t].stored \/ row[t].col = Last
  BY <1>5 DEF IInv, FinishedMeansDone, Done
<1>9. /\ n.finished => row[t].finished /\ (n.stored <=> row[t].stored)
      /\ ~n.finished /\ (n.stored \/ n.col = Last) => StaysUnfinished(t)
  BY <1>6 DEF Done, StaysUnfinished
<1>10. t \in Cards /\ ~n.cancelled /\ n.col \notin {None, Last} /\ n.goal # None =>
            \/ OpenCard(t) /\ row[t].goal = n.goal
            \/ Welcoming(k, n.goal)
  <2> SUFFICES ASSUME t \in Cards, ~n.cancelled, n.col \notin {None, Last}, n.goal # None
               PROVE  \/ OpenCard(t) /\ row[t].goal = n.goal
                      \/ Welcoming(k, n.goal)
    OBVIOUS
  <2>1. CASE ~row[t].cancelled
    BY <1>5, <1>6, <2>1 DEF OpenCard
  <2>2. CASE row[t].cancelled
    <3>1. Constraints(t, row[t])
      BY <1>2, <1>5 DEF IInv, Typed, TypeOK
    <3>2. ~row[t].finished
      BY <1>6, <1>8, <3>1 DEF Constraints
    <3>3. k.op = "uncancel" /\ old.goal = n.goal
      BY <1>1, <1>6, <1>7
    <3>4. QED
      BY <1>1, <1>2, <1>7, <2>2, <3>2, <3>3 DEF Kept, GoalKept
  <2>3. QED
    BY <2>1, <2>2
<1>11. t \in Subs /\ ~n.cancelled /\ ~n.finished =>
            \/ IsLive(t) /\ ~Settled(t)
            \/ ParentOf[t] \in k.holds /\ ~row[ParentOf[t]].finished
  BY <1>1, <1>2, <1>5, <1>6, <1>7 DEF Settled, Kept, ParentKept
<1> HIDE DEF old
<1>12. k.op # "idle"
  BY <1>1
<1>13. t \in Cards /\ n.finished => n.stored \/ n.col = Last
  BY <1>6, <1>8
<1>14. QED
  BY <1>1, <1>2, <1>5, <1>6, <1>9, <1>10, <1>11, <1>12, <1>13, OneRowStands

LEMMA AssignStands ==
  ASSUME IInv, Typed', NEW r \in Requests, Assign(r)
  PROVE  Stands
<1> USE DEF OnTask, OnCard, OnSub
<1> DEFINE k == req[r]
           t == k.on
           old == k.seen[t]
<1>1. /\ k.op = "assign" /\ k.ready /\ Finish(r) /\ UNCHANGED <<board, box, goal>>
      /\ UpdateRow(r, t, [old EXCEPT !.goal = k.to])
  BY DEF Assign, Commit
<1>2. /\ t \in Tasks /\ old \in Row /\ Kept(k) /\ t \in Cards /\ t \notin Subs
      /\ k.to \in Goals \cup {None}
  BY <1>1, SeenRow, BoardConstants DEF IInv, Typed, ReqTyped
<1> DEFINE new == [old EXCEPT !.goal = k.to]
<1>3. /\ new \in Row /\ new.life = old.life /\ new.cancelled = old.cancelled
      /\ new.finished = old.finished /\ new.stored = old.stored /\ new.col = old.col
      /\ new.goal = k.to
  BY <1>2 DEF Row
<1>4. UpdateRow(r, t, new)
  BY <1>1
<1> HIDE DEF new
<1>5. /\ Free(r, t) /\ IsLive(t) /\ Lasting(old, row[t])
      /\ Updated(t, old, new)
  BY <1>1, <1>3, <1>4, UpdateShape
<1>6. PICK n \in Row :
            /\ row' = [row EXCEPT ![t] = n] /\ Constraints(t, n)
            /\ n.life = "live" /\ n.col = row[t].col /\ n.stored = row[t].stored
            /\ n.finished = row[t].finished /\ n.cancelled = row[t].cancelled
            /\ n.goal \in {k.to, row[t].goal}
  BY <1>3, <1>5 DEF Lasting, Updated
<1>7. old.cancelled = row[t].cancelled /\ old.finished = row[t].finished
  BY <1>5 DEF Lasting
<1>8. row[t].finished => row[t].stored \/ row[t].col = Last
  BY <1>2, <1>5 DEF IInv, FinishedMeansDone, Done
<1>9. /\ n.finished => row[t].finished /\ (n.stored <=> row[t].stored)
      /\ ~n.finished /\ (n.stored \/ n.col = Last) => StaysUnfinished(t)
  BY <1>6 DEF Done, StaysUnfinished
<1>10. ~n.cancelled /\ n.col \notin {None, Last} /\ n.goal # None =>
            \/ OpenCard(t) /\ row[t].goal = n.goal
            \/ Welcoming(k, n.goal)
  <2> SUFFICES ASSUME ~n.cancelled, n.col \notin {None, Last}, n.goal # None
               PROVE  \/ OpenCard(t) /\ row[t].goal = n.goal
                      \/ Welcoming(k, n.goal)
    OBVIOUS
  <2>1. CASE n.goal = row[t].goal
    BY <1>5, <1>6, <2>1 DEF OpenCard
  <2>2. CASE n.goal = k.to
    <3>1. ~row[t].finished
      BY <1>2, <1>6, <1>8 DEF Constraints
    <3>2. QED
      BY <1>1, <1>2, <1>6, <1>7, <2>2, <3>1 DEF Kept, GoalKept
  <2>3. QED
    BY <1>6, <2>1, <2>2
<1> HIDE DEF old
<1>11. k.op # "idle"
  BY <1>1
<1>12. n.finished => n.stored \/ n.col = Last
  BY <1>6, <1>8
<1>13. /\ row' = [row EXCEPT ![t] = n] /\ n.life = "live" /\ Free(r, t)
       /\ Finish(r) /\ UNCHANGED <<board, box, goal>>
  BY <1>1, <1>5, <1>6
<1>14. t \in Tasks /\ t \notin Subs
  BY <1>2
<1>15. QED
  BY <1>9, <1>10, <1>11, <1>12, <1>13, <1>14, OneRowStands

LEMMA RestoreStands ==
  ASSUME IInv, Typed', NEW r \in Requests, Restore(r)
  PROVE  Stands
<1> USE DEF OnTask, OnCard, OnSub
<1> DEFINE k == req[r]
           t == k.on
           old == k.seen[t]
           new == [old EXCEPT !.stored = FALSE, !.col = k.to, !.finished = TRUE]
<1>1. /\ k.op = "restore" /\ k.ready /\ Finish(r) /\ UNCHANGED <<board, box, goal>>
      /\ UpdateRow(r, t, new)
  BY DEF Restore, Commit
<1>2. /\ t \in Tasks /\ old \in Row /\ Kept(k) /\ t \in Cards /\ t \notin Subs
      /\ k.to \in Columns
  BY <1>1, SeenRow, BoardConstants DEF IInv, Typed, ReqTyped
<1>3. /\ new \in Row /\ new.life = old.life /\ new.finished /\ ~new.stored /\ new.col = k.to
  BY <1>2 DEF Row
<1> HIDE DEF new
<1>4. Free(r, t) /\ k.last = Last /\ Updated(t, old, new)
  BY <1>1, <1>3, UpdateShape
<1>5. k.to = k.last /\ SubsSettled(t)
  BY <1>1, <1>2 DEF Kept, Asked, ArrivalKept
<1>6. PICK n \in Row : /\ row' = [row EXCEPT ![t] = n]
                       /\ n.life = "live" /\ n.col = Last /\ n.finished
  BY <1>3, <1>4, <1>5 DEF Updated
<1> HIDE DEF old
<1>7. k.op # "idle"
  BY <1>1
<1>8. QED
  BY <1>1, <1>2, <1>4, <1>5, <1>6, <1>7, OneRowStands

LEMMA CreatesStand ==
  ASSUME IInv, Typed', NEW r \in Requests, CreateCard(r) \/ CreateSubtask(r)
  PROVE  Stands
<1> USE DEF OnTask, OnCard, OnSub
<1> DEFINE k == req[r]
<1>1. ReqTyped(k) /\ Kept(k) /\ TypeOK
  BY DEF IInv, Typed
<1>2. CASE CreateCard(r)
  <2> DEFINE c == k.on
  <2>0. PICK col \in OnBoard :
           row' = [row EXCEPT ![c] = [Unborn EXCEPT !.life = "live", !.col = col,
                                                   !.goal = k.to]]
    BY <1>2 DEF CreateCard
  <2> DEFINE n == [Unborn EXCEPT !.life = "live", !.col = col, !.goal = k.to]
  <2>1. /\ k.op = "create" /\ k.ready /\ Finish(r) /\ UNCHANGED <<board, box, goal>>
        /\ row' = [row EXCEPT ![c] = n] /\ ~IsLive(c)
    BY <1>2, <2>0 DEF CreateCard, Commit, IsLive
  <2>2. c \in Cards /\ c \in Tasks /\ c \notin Subs /\ k.to \in Goals \cup {None}
    BY <1>1, <2>1, BoardConstants DEF ReqTyped, Tasks
  <2>3. col \in Columns
    BY <1>1, <2>0, LastIsColumn
  <2>4. n \in Row /\ n.life = "live" /\ ~n.finished /\ n.goal = k.to
    BY <2>2, <2>3 DEF Unborn, Row
  <2>5. n.goal # None => Welcoming(k, n.goal)
    BY <1>1, <2>1, <2>4 DEF Kept, GoalKept
  <2> HIDE DEF n
  <2>6. k.op # "idle" /\ StaysUnfinished(c)
    BY <2>1 DEF StaysUnfinished
  <2>7. QED
    BY <2>1, <2>2, <2>4, <2>5, <2>6, OneRowStands
<1>3. CASE CreateSubtask(r)
  <2> DEFINE s == k.on
             n == [Unborn EXCEPT !.life = "live"]
  <2>1. /\ k.op = "split" /\ k.ready /\ Finish(r) /\ UNCHANGED <<board, box, goal>>
        /\ row' = [row EXCEPT ![s] = n]
    BY <1>3 DEF CreateSubtask, Commit
  <2>2. s \in Subs /\ s \in Tasks /\ s \notin Cards
    BY <1>1, <2>1, BoardConstants DEF ReqTyped, Tasks
  <2>3. n \in Row /\ n.life = "live" /\ ~n.finished
    BY DEF Unborn, Row
  <2>4. ParentOf[s] \in k.holds /\ ~row[ParentOf[s]].finished
    BY <1>1, <2>1 DEF Kept, ParentKept
  <2> HIDE DEF n
  <2>5. k.op # "idle"
    BY <2>1
  <2>6. QED
    BY <2>1, <2>2, <2>3, <2>4, <2>5, OneRowStands
<1>4. QED
  BY <1>2, <1>3

\* A step that opens nothing and finishes nothing newly needs no lock.
LEMMA NothingOpens ==
  ASSUME IInv, Typed', Distinct', Last' = Last, NEW S \in SUBSET Requests,
         \A q \in Requests \ S : req'[q] = Idle,
         \A q \in S : req'[q] = req[q],
         \A c \in Cards : OpenCard(c)' /\ row'[c].goal # None =>
            OpenCard(c) /\ row[c].goal = row'[c].goal,
         \A s \in Subs : IsLive(s)' /\ ~Settled(s)' => IsLive(s) /\ ~Settled(s),
         \A c \in Cards : row'[c].finished => Closing(c),
         \A c \in Cards : Done(c)' /\ ~row'[c].finished => StaysUnfinished(c),
         FinishedMeansDone', Bare',
         \A q \in S : req[q].op # "idle" => \A t \in DOMAIN req[q].seen :
            IsLive(t)' => IsLive(t) /\ Lasting(row[t], row'[t]),
         \A q \in S : \A c \in Cards \cap req[q].holds : row'[c].finished => row[c].finished,
         \A g \in Goals : goal'[g].status # goal[g].status =>
            /\ \A q \in S : g \notin req[q].holds
            /\ goal'[g].status = "achieved" =>
                 \A c \in Cards : OpenCard(c)' => row'[c].goal # g
  PROVE  Stands
<1>1. Harmless(S, {})
  BY DEF Harmless
<1>2. QED
  BY <1>1, RulesStand

\* The whole last column is put away at once, and each card in it is done
\* before and after.
LEMMA StoreStands ==
  ASSUME IInv, Typed', NEW r \in Requests, StoreFinished(r)
  PROVE  Stands
<1> DEFINE D == DOMAIN req[r].seen
           S == Requests \ {r}
<1>1. /\ req[r].op = "store" /\ Finish(r) /\ UNCHANGED <<board, box, goal>>
      /\ D \subseteq Cards /\ D \subseteq Tasks /\ D \cap Subs = {}
      /\ row' = [t \in Tasks |-> IF t \in D THEN Put(r, t) ELSE row[t]]
  BY StoreShape, BoardConstants DEF IInv, Commit, Tasks
<1>2. ASSUME NEW c \in D
      PROVE  /\ row'[c] = Put(r, c) /\ Free(r, c) /\ row[c].col = Last
             /\ Put(r, c).life = "live" /\ Put(r, c).stored /\ Put(r, c).finished
             /\ Put(r, c).col = None
  <2> DEFINE old == req[r].seen[c]
             new == [old EXCEPT !.stored = TRUE, !.col = None, !.finished = TRUE]
             n == Merged(r, c, new)
  <2>1. old \in Row /\ new \in Row /\ row[c] \in Row /\ IsLive(c) /\ Free(r, c)
    BY <1>1, StoreShape, RowOf DEF IInv, Typed
  <2>2. Lasting(old, row[c]) /\ old.col = Last
    BY <1>1, <2>1 DEF IInv, Kept, AsLoaded, Asked
  <2>3. /\ new.life = old.life /\ new.stored /\ new.finished /\ new.col = None
    BY <2>1 DEF Row
  <2>4. Put(r, c) = n
    BY DEF Put
  <2> HIDE DEF new
  <2>5. /\ n.life = IF new.life # old.life THEN new.life ELSE row[c].life
        /\ n.col = IF new.col # old.col THEN new.col ELSE row[c].col
        /\ n.stored = IF new.stored # old.stored THEN new.stored ELSE row[c].stored
        /\ n.finished = IF new.finished # old.finished THEN new.finished ELSE row[c].finished
    BY <2>1, MergedRow
  <2>6. row[c].col = Last /\ row'[c] = n
    BY <1>1, <2>2, <2>4 DEF Lasting
  <2> HIDE DEF n
  <2>7. n.life = "live" /\ n.stored /\ n.finished /\ n.col = None
    BY <2>1, <2>2, <2>3, <2>5 DEF Lasting, IsLive, Row
  <2>8. QED
    BY <2>1, <2>6, <2>7, <2>4
<1>3. \A t \in Tasks \ D : row'[t] = row[t]
  BY <1>1
<1> HIDE DEF D
<1>4. Cards \subseteq Tasks /\ Subs \subseteq Tasks /\ Last' = Last
  BY <1>1 DEF Tasks, Last
<1>5. \A c \in Cards : OpenCard(c)' /\ row'[c].goal # None =>
            OpenCard(c) /\ row[c].goal = row'[c].goal
  BY <1>2, <1>3, <1>4 DEF OpenCard, IsLive
<1>6. \A s \in Subs : IsLive(s)' /\ ~Settled(s)' => IsLive(s) /\ ~Settled(s)
  <2>1. \A s \in Subs : row'[s] = row[s]
    BY <1>1, <1>3, <1>4
  <2>2. QED
    BY <2>1 DEF IsLive, Settled
<1>7. /\ \A c \in Cards : row'[c].finished => Closing(c)
      /\ \A c \in Cards : Done(c)' /\ ~row'[c].finished => StaysUnfinished(c)
  BY <1>2, <1>3, <1>4 DEF Done, Closing, StaysUnfinished
<1>8. FinishedMeansDone'
  BY <1>2, <1>3, <1>4 DEF IInv, FinishedMeansDone, Done
<1>9. Bare'
  BY <1>2, <1>3, <1>4 DEF IInv, Bare, IsLive
<1>10. \A q \in S : req[q].op # "idle" => \A u \in DOMAIN req[q].seen :
            IsLive(u)' => IsLive(u) /\ Lasting(row[u], row'[u])
  <2>1. TAKE q \in S
  <2>2. HAVE req[q].op # "idle"
  <2>3. D \cap DOMAIN req[q].seen = {}
    BY <1>1, <2>2 DEF IInv, Apart, D
  <2>4. DOMAIN req[q].seen \subseteq Tasks
    BY DEF IInv, Typed, ReqType
  <2>5. QED
    BY <1>3, <2>3, <2>4 DEF IsLive, Lasting
<1>11. \A q \in S : \A c \in Cards \cap req[q].holds : row'[c].finished => row[c].finished
  BY <1>2, <1>3, <1>4 DEF Free
<1>12. Distinct'
  BY <1>1 DEF IInv, Distinct
<1>13. S \in SUBSET Requests /\ \A q \in Requests \ S : req'[q] = Idle
  BY <1>1 DEF Finish, IInv, Typed
<1>14. \A q \in S : req'[q] = req[q]
  BY <1>1 DEF Finish, IInv, Typed
<1>15. \A g \in Goals : goal'[g].status # goal[g].status =>
            /\ \A q \in S : g \notin req[q].holds
            /\ goal'[g].status = "achieved" =>
                 \A c \in Cards : OpenCard(c)' => row'[c].goal # g
  BY <1>1
<1> HIDE DEF S
<1>16. QED
  BY <1>4, <1>5, <1>6, <1>7, <1>8, <1>9, <1>10, <1>11, <1>12, <1>13, <1>14, <1>15, NothingOpens

\* A goal's status changes under its lock, and becomes achieved only when the
\* request found no open card on it.
LEMMA GoalStatusStands ==
  ASSUME IInv, Typed', NEW r \in Requests, SetGoalStatus(r)
  PROVE  Stands
<1> DEFINE k == req[r]
           S == Requests \ {r}
<1>1. /\ k.op = "goalStatus" /\ k.ready /\ k.on \in Goals /\ Free(r, k.on)
      /\ Finish(r) /\ UNCHANGED <<board, row, box>>
      /\ \E n \in Goal : /\ goal' = [goal EXCEPT ![k.on] = n]
                         /\ n.status \in {goal[k.on].status, k.to}
  BY GoalShape DEF IInv
<1>2. Last' = Last /\ Distinct' /\ FinishedMeansDone' /\ Bare'
  BY <1>1 DEF IInv, Last, Distinct, FinishedMeansDone, Done, Bare, IsLive
<1>3. S \in SUBSET Requests /\ \A q \in Requests \ S : req'[q] = Idle
  BY <1>1 DEF Finish, IInv, Typed
<1>4. \A q \in S : req'[q] = req[q]
  BY <1>1 DEF Finish, IInv, Typed
<1>5. \A g \in Goals : goal'[g].status # goal[g].status =>
            /\ \A q \in S : g \notin req[q].holds
            /\ goal'[g].status = "achieved" =>
                 \A c \in Cards : OpenCard(c)' => row'[c].goal # g
  <2>1. TAKE g \in Goals
  <2>2. HAVE goal'[g].status # goal[g].status
  <2>3. goal \in [Goals -> Goal]
    BY DEF IInv, Typed, TypeOK
  <2>4. g = k.on /\ goal'[g].status = k.to
    BY <1>1, <2>2, <2>3
  <2>5. \A c \in Cards : OpenCard(c)' <=> OpenCard(c)
    BY <1>1, <1>2 DEF OpenCard, IsLive
  <2>6. k.to = "achieved" => \A c \in Cards : OpenCard(c) => row[c].goal # g
    BY <1>1, <2>4 DEF IInv, Kept, AchievedKept
  <2>7. QED
    BY <1>1, <2>4, <2>5, <2>6 DEF Free
<1>6. \A c \in Cards : OpenCard(c)' /\ row'[c].goal # None =>
            OpenCard(c) /\ row[c].goal = row'[c].goal
  BY <1>1, <1>2 DEF OpenCard, IsLive
<1>7. /\ \A s \in Subs : IsLive(s)' /\ ~Settled(s)' => IsLive(s) /\ ~Settled(s)
      /\ \A c \in Cards : row'[c].finished => Closing(c)
      /\ \A c \in Cards : Done(c)' /\ ~row'[c].finished => StaysUnfinished(c)
  BY <1>1, <1>2 DEF IsLive, Settled, Done, Closing, StaysUnfinished
<1>8. \A q \in S : req[q].op # "idle" => \A u \in DOMAIN req[q].seen :
            IsLive(u)' => IsLive(u) /\ Lasting(row[u], row'[u])
  BY <1>1 DEF IsLive, Lasting
<1>9. \A q \in S : \A c \in Cards \cap req[q].holds : row'[c].finished => row[c].finished
  BY <1>1
<1> HIDE DEF S
<1>10. QED
  BY <1>2, <1>3, <1>4, <1>5, <1>6, <1>7, <1>8, <1>9, NothingOpens

LEMMA KeptAsItWas ==
  ASSUME NEW k, Kept(k), UNCHANGED <<row, goal>>, Last' = Last
  PROVE  Kept(k)'
BY DEF Kept, Asked, AsLoaded, ArrivalKept, ParentKept, GoalKept, AchievedKept,
       Lasting, SubsSettled, SubsOf, Settled, IsLive, Welcoming, OpenCard

\* Where no row changes, the rules about steps follow from the invariant.
LEMMA SameRowsStand ==
  ASSUME IInv', UNCHANGED row, \A c \in Cards : Done(c)' <=> Done(c)
  PROVE  Stands
<1>1. KeepsFinishedClosed
  BY DEF IInv, ClosedOnBoard, KeepsFinishedClosed, OpenUnder, IsLive, Settled
<1>2. FollowsPlace
  BY DEF IInv, FinishedMeansDone, FollowsPlace
<1>3. QED
  BY <1>1, <1>2 DEF Stands

\* Nothing the rules are about changes.
LEMMA RulesAsTheyWere ==
  ASSUME IInv, Typed', Distinct', UNCHANGED <<row, goal, req>>, Last' = Last
  PROVE  Stands
<1>1. /\ Bare' /\ ClosedOnBoard' /\ NoOpenCardOnAchieved' /\ FinishedMeansDone'
  BY DEF IInv, Bare, ClosedOnBoard, OpenUnder, NoOpenCardOnAchieved, FinishedMeansDone,
         Done, OpenCard, Settled, IsLive
<1>2. \A q \in Requests : Kept(req[q])'
  <2>1. TAKE q \in Requests
  <2>2. PICK k : k = req[q]
    OBVIOUS
  <2>3. Kept(k)'
    BY <2>2, KeptAsItWas DEF IInv
  <2>4. QED
    BY <2>2, <2>3
<1>3. IInv'
  BY <1>1, <1>2 DEF IInv, Apart
<1>4. QED
  BY <1>3, SameRowsStand DEF Done

\* A step that changes one request's record and nothing on the board.
LEMMA RequestStands ==
  ASSUME IInv, Typed', NEW r \in Requests, NEW k, Kept(k), req' = [req EXCEPT ![r] = k],
         UNCHANGED <<board, row, box, goal>>,
         \A q \in Requests \ {r} : Apart(k, req[q]) /\ Apart(req[q], k)
  PROVE  Stands
<1>1. /\ Distinct' /\ Bare' /\ ClosedOnBoard' /\ NoOpenCardOnAchieved'
      /\ FinishedMeansDone'
  BY DEF IInv, Distinct, Bare, ClosedOnBoard, OpenUnder, NoOpenCardOnAchieved,
         FinishedMeansDone, Done, OpenCard, Settled, IsLive, Last
<1>2. \A q \in Requests : req'[q] = IF q = r THEN k ELSE req[q]
  BY DEF IInv, Typed
<1>3. \A q \in Requests : Kept(req[q])'
  <2>1. TAKE q \in Requests
  <2>2. PICK m : m = req'[q]
    OBVIOUS
  <2>3. Kept(m)
    BY <1>2, <2>2 DEF IInv
  <2>4. Kept(m)'
    BY <2>3, KeptAsItWas DEF Last
  <2>5. QED
    BY <2>2, <2>4
<1>4. \A p \in Requests : \A q \in Requests \ {p} : Apart(req[p], req[q])'
  <2>1. TAKE p \in Requests
  <2>2. TAKE q \in Requests \ {p}
  <2>3. Apart(req'[p], req'[q])
    BY <1>2 DEF IInv
  <2>4. QED
    BY <2>3 DEF Apart
<1>5. IInv'
  BY <1>1, <1>3, <1>4 DEF IInv
<1>6. QED
  BY <1>5, SameRowsStand DEF Done, Last

LEMMA AbortStands ==
  ASSUME IInv, Typed', NEW r \in Requests, Abort(r)
  PROVE  Stands
<1>1. \A q \in Requests \ {r} : Apart(Idle, req[q]) /\ Apart(req[q], Idle)
  BY DEF Apart, Idle
<1>2. req' = [req EXCEPT ![r] = Idle] /\ UNCHANGED <<board, row, box, goal>>
  BY DEF Abort, Finish
<1>3. QED
  BY <1>1, <1>2, IdleIsKept, RequestStands

LEMMA LocksStand ==
  ASSUME IInv, Typed', NEW r \in Requests,
         LockToArrive(r) \/ LockParent(r) \/ LockGoal(r) \/ LockToAchieve(r)
  PROVE  Stands
<1> USE DEF OnTask, OnCard, OnSub
<1>1. PICK k : k = req[r]
  OBVIOUS
<1>2. k \in ReqType /\ ReqTyped(k) /\ LockTyped(k) /\ TypeOK /\ Kept(k)
  BY <1>1 DEF IInv, Typed
<1>3. \A q \in Requests \ {r} : Apart(k, req[q]) /\ Apart(req[q], k)
  BY <1>1 DEF IInv
<1>4. ASSUME NEW x \in Tasks \cup Goals, NEW m \in ReqType, Free(r, x), Kept(m),
             m.op = k.op, m.on = k.on, m.seen = k.seen, m.holds = {x},
             req' = [req EXCEPT ![r] = m], UNCHANGED <<board, row, box, goal>>
      PROVE  Stands
  <2>1. \A q \in Requests \ {r} : Apart(m, req[q]) /\ Apart(req[q], m)
    BY <1>3, <1>4 DEF Apart, Free
  <2>2. QED
    BY <1>4, <2>1, RequestStands
<1>5. ASSUME NEW x \in Tasks \cup Goals, Take(r, x),
             \A m \in ReqType : /\ m.op = k.op /\ m.on = k.on /\ m.to = k.to
                                /\ m.seen = k.seen /\ m.last = k.last
                                /\ m.holds = {x} /\ m.ready
                                => ArrivalKept(m) /\ ParentKept(m) /\ GoalKept(m)
                                   /\ AchievedKept(m)
      PROVE  Stands
  <2> DEFINE m == [k EXCEPT !.holds = {x}, !.ready = TRUE]
  <2>1. /\ m \in ReqType /\ m.op = k.op /\ m.on = k.on /\ m.to = k.to /\ m.seen = k.seen
        /\ m.last = k.last /\ m.holds = {x} /\ m.ready
    BY <1>2 DEF ReqType
  <2>2. req' = [req EXCEPT ![r] = m] /\ UNCHANGED <<board, row, box, goal>> /\ Free(r, x)
    BY <1>1, <1>5 DEF Take, IInv, Typed
  <2> HIDE DEF m
  <2>3. Kept(m)
    BY <1>2, <1>5, <2>1 DEF Kept, Asked, AsLoaded
  <2>4. QED
    BY <1>4, <2>1, <2>2, <2>3
<1>6. CASE LockToArrive(r)
  <2>1. /\ k.on \in Cards /\ k.on \in Tasks /\ Take(r, k.on) /\ ~OpenWork(k.on)
        /\ \/ k.op = "restore"
           \/ k.op = "move" /\ k.to = k.last /\ k.seen[k.on].col # k.last
    BY <1>1, <1>2, <1>6 DEF LockToArrive, ArrivingAtEnd, ReqTyped
  <2>2. SubsSettled(k.on)
    BY <2>1 DEF OpenWork, SubsSettled
  <2>3. QED
    BY <1>5, <2>1, <2>2 DEF ArrivalKept, ParentKept, GoalKept, AchievedKept
<1>7. CASE LockParent(r)
  <2>1. /\ k.on \in Subs /\ k.on \notin Cards /\ ParentOf[k.on] \in Tasks
        /\ Take(r, ParentOf[k.on]) /\ ~row[ParentOf[k.on]].finished
        /\ k.op \in {"untick", "split", "uncancel"}
    BY <1>1, <1>2, <1>7, BoardConstants DEF LockParent, ReqTyped, Tasks
  <2>2. QED
    BY <1>5, <2>1 DEF ArrivalKept, ParentKept, GoalKept, AchievedKept
<1>8. CASE LockGoal(r)
  <2> DEFINE g == IF k.op \in {"create", "assign"} THEN k.to ELSE k.seen[k.on].goal
  <2>1. /\ g \in Goals /\ Take(r, g) /\ goal[g].status \in {"open", "dropped"}
        /\ k.on \notin Subs
        /\ \/ k.op \in {"create", "assign", "uncancel"}
           \/ k.op = "move" /\ ~(k.to = k.last /\ k.seen[k.on].col # k.last)
    BY <1>1, <1>2, <1>8, BoardConstants
       DEF LockGoal, Take, LockTyped, ArrivingAtEnd, ReqTyped
  <2>2. QED
    BY <1>5, <2>1 DEF ArrivalKept, ParentKept, GoalKept, AchievedKept, Welcoming
<1>9. CASE LockToAchieve(r)
  <2> DEFINE g == k.on
             m == [k EXCEPT !.holds = {g}, !.ready = TRUE, !.seenGoal = goal[g]]
  <2>1. /\ k.op = "goalStatus" /\ Free(r, g) /\ g \in Goals /\ goal[g] \in Goal
        /\ goal[g].status # "achieved" => \A c \in Cards : row[c].goal = g => ~OpenCard(c)
    BY <1>1, <1>2, <1>9 DEF LockToAchieve, ReqTyped, TypeOK
  <2>2. /\ m \in ReqType /\ m.op = k.op /\ m.on = k.on /\ m.to = k.to /\ m.seen = k.seen
        /\ m.last = k.last /\ m.holds = {g} /\ m.ready
    BY <1>2, <2>1 DEF ReqType
  <2>3. req' = [req EXCEPT ![r] = m] /\ UNCHANGED <<board, row, box, goal>>
    BY <1>1, <1>9 DEF LockToAchieve, IInv, Typed
  <2> HIDE DEF m
  <2>4. \A c \in Cards : OpenCard(c) => row[c].goal # g
    <3>1. TAKE c \in Cards
    <3>2. g # None
      BY <2>1, BoardConstants
    <3>3. QED
      BY <2>1, <3>2 DEF IInv, NoOpenCardOnAchieved
  <2>5. Kept(m)
    BY <1>2, <2>1, <2>2, <2>4 DEF Kept, Asked, AsLoaded, ArrivalKept, ParentKept, GoalKept,
                                  AchievedKept
  <2>6. QED
    BY <1>4, <2>1, <2>2, <2>3, <2>5
<1>10. QED
  BY <1>6, <1>7, <1>8, <1>9

\* Two requests are about different rows from the moment they load them.
LEMMA LoadStands ==
  ASSUME RowsSerial, IInv, Typed', NEW r \in Requests, NEW op, NEW on, NEW to,
         NEW loaded, NEW needsLock, Load(r, op, on, to, loaded, needsLock),
         LET k == Loaded(op, on, to, loaded, needsLock) IN
            Asked(k) /\ ArrivalKept(k) /\ ParentKept(k) /\ GoalKept(k) /\ AchievedKept(k)
  PROVE  Stands
<1> DEFINE k == Loaded(op, on, to, loaded, needsLock)
<1>1. k.on = on /\ k.last = Last /\ k.holds = {} /\ k.seen = [t \in loaded |-> row[t]]
  BY DEF Loaded
<1>2. req' = [req EXCEPT ![r] = k] /\ UNCHANGED <<board, row, box, goal>>
  BY DEF Load, Loaded
<1>3. Asked(k) /\ ArrivalKept(k) /\ ParentKept(k) /\ GoalKept(k) /\ AchievedKept(k)
  OBVIOUS
<1> HIDE DEF k
<1>4. Kept(k)
  BY <1>1, <1>3 DEF Kept, AsLoaded, Lasting, IsLive
<1>5. \A q \in Requests \ {r} :
         req[q].op # "idle" => (DOMAIN req[q].seen \cup {req[q].on}) \cap (loaded \cup {on}) = {}
  BY DEF Load, Serial, InFlight, Writes
<1>6. \A q \in Requests \ {r} : Apart(k, req[q]) /\ Apart(req[q], k)
  BY <1>1, <1>5 DEF Apart
<1>7. QED
  BY <1>2, <1>4, <1>6, RequestStands

\* What a load of one task makes sure of: that without a lock to take it is
\* about nothing that needs one.
Checked(op, t, to, needsLock) ==
    /\ op = "move" => ~row[t].stored
    /\ op = "restore" => to = Last
    /\ ~needsLock =>
         /\ op \notin {"restore", "untick", "split"}
         /\ op = "move" =>
              /\ ~(to = Last /\ row[t].col # Last)
              /\ ~(row[t].col = Last /\ to # Last /\ ~row[t].cancelled /\ row[t].goal # None)
         /\ op = "uncancel" /\ row[t].cancelled /\ ~row[t].finished =>
              t \notin Subs /\ row[t].goal = None
         /\ op = "create" => to = None
         /\ op = "assign" => to = None \/ row[t].finished \/ row[t].cancelled

LEMMA OneLoadStands ==
  ASSUME RowsSerial, IInv, Typed', NEW r \in Requests, NEW op \in OnTask, NEW t, NEW to,
         NEW needsLock \in BOOLEAN, Load(r, op, t, to, {t}, needsLock),
         Checked(op, t, to, needsLock)
  PROVE  Stands
<1> USE DEF OnTask, OnCard, OnSub
<1> DEFINE k == Loaded(op, t, to, {t}, needsLock)
<1>1. /\ k.op = op /\ k.on = t /\ k.to = to /\ k.last = Last /\ k.holds = {}
      /\ k.seen[t] = row[t] /\ k.ready = ~needsLock
  BY DEF Loaded
<1> HIDE DEF k
<1>2. Asked(k)
  BY <1>1 DEF Asked, Checked
<1>3. ArrivalKept(k) /\ ParentKept(k) /\ AchievedKept(k)
  BY <1>1 DEF ArrivalKept, ParentKept, AchievedKept, Checked
<1>4. GoalKept(k)
  BY <1>1 DEF GoalKept, Checked
<1>5. QED
  BY <1>2, <1>3, <1>4, LoadStands DEF k

LEMMA LoadsStand ==
  ASSUME RowsSerial, IInv, Typed', NEW r \in Requests,
         \/ LoadMove(r) \/ LoadSetFinished(r) \/ LoadChangeStatus(r) \/ LoadCreate(r)
         \/ LoadAssign(r) \/ LoadStore(r) \/ LoadRestore(r) \/ LoadGoal(r)
  PROVE  Stands
<1> USE DEF OnTask, OnCard, OnSub
<1>1. CASE LoadMove(r)
  <2>1. PICK c \in Cards, col \in OnBoard, needsLock \in BOOLEAN :
           /\ ~row[c].stored
           /\ Load(r, "move", c, col, {c}, needsLock)
           /\ needsLock = ((col = Last /\ row[c].col # Last)
                \/ ((row[c].col = Last /\ col # Last) /\ ~row[c].cancelled /\ row[c].goal # None))
    BY <1>1 DEF LoadMove
  <2>2. Checked("move", c, col, needsLock)
    BY <2>1 DEF Checked
  <2>3. QED
    BY <2>1, <2>2, OneLoadStands
<1>2. CASE LoadSetFinished(r)
  <2>1. PICK s \in Subs, op \in {"tick", "untick"} :
           Load(r, op, s, None, {s}, op = "untick")
    BY <1>2 DEF LoadSetFinished
  <2>2. Checked(op, s, None, op = "untick")
    BY DEF Checked
  <2>3. QED
    BY <2>1, <2>2, OneLoadStands
<1>3. CASE LoadChangeStatus(r)
  <2>1. PICK t \in Tasks :
           \/ Load(r, "cancel", t, None, {t}, FALSE)
           \/ Load(r, "uncancel", t, None, {t},
                   /\ row[t].cancelled /\ ~row[t].finished
                   /\ t \in Subs \/ row[t].goal # None)
    BY <1>3 DEF LoadChangeStatus
  <2>2. CASE Load(r, "cancel", t, None, {t}, FALSE)
    <3>1. Checked("cancel", t, None, FALSE)
      BY DEF Checked
    <3>2. QED
      BY <2>2, <3>1, OneLoadStands
  <2>3. CASE Load(r, "uncancel", t, None, {t},
                  /\ row[t].cancelled /\ ~row[t].finished
                  /\ t \in Subs \/ row[t].goal # None)
    <3>1. PICK needsLock \in BOOLEAN :
             needsLock = ( /\ row[t].cancelled /\ ~row[t].finished
                           /\ t \in Subs \/ row[t].goal # None )
      OBVIOUS
    <3>2. Load(r, "uncancel", t, None, {t}, needsLock)
      BY <2>3, <3>1
    <3>3. Checked("uncancel", t, None, needsLock)
      BY <3>1 DEF Checked
    <3>4. QED
      BY <3>2, <3>3, OneLoadStands
  <2>4. QED
    BY <2>1, <2>2, <2>3
<1>4. CASE LoadCreate(r)
  <2>1. \/ \E c \in Cards, g \in Goals \cup {None} : Load(r, "create", c, g, {c}, g # None)
        \/ \E s \in Subs : Load(r, "split", s, None, {s}, TRUE)
    BY <1>4 DEF LoadCreate
  <2>2. ASSUME NEW c \in Cards, NEW g \in Goals \cup {None},
               Load(r, "create", c, g, {c}, g # None)
        PROVE  Stands
    <3>1. Checked("create", c, g, g # None)
      BY DEF Checked
    <3>2. QED
      BY <2>2, <3>1, OneLoadStands
  <2>3. ASSUME NEW s \in Subs, Load(r, "split", s, None, {s}, TRUE)
        PROVE  Stands
    <3>1. Checked("split", s, None, TRUE)
      BY DEF Checked
    <3>2. QED
      BY <2>3, <3>1, OneLoadStands
  <2>4. QED
    BY <2>1, <2>2, <2>3
<1>5. CASE LoadAssign(r)
  <2>1. PICK c \in Cards, g \in Goals \cup {None}, needsLock \in BOOLEAN :
           /\ Load(r, "assign", c, g, {c}, needsLock)
           /\ needsLock = (g # None /\ ~row[c].finished /\ ~row[c].cancelled)
    BY <1>5 DEF LoadAssign
  <2>2. Checked("assign", c, g, needsLock)
    BY <2>1 DEF Checked
  <2>3. QED
    BY <2>1, <2>2, OneLoadStands
<1>6. CASE LoadStore(r)
  <2> DEFINE S == {c \in Cards : IsLive(c) /\ row[c].col = Last}
             k == Loaded("store", None, None, S, FALSE)
  <2>1. Load(r, "store", None, None, S, FALSE)
    BY <1>6 DEF LoadStore
  <2>2. /\ k.op = "store" /\ k.last = Last /\ k.seen = [t \in S |-> row[t]]
        /\ \A c \in S : row[c].col = Last
    BY DEF Loaded
  <2> HIDE DEF k, S
  <2>3. Asked(k) /\ ArrivalKept(k) /\ ParentKept(k) /\ GoalKept(k) /\ AchievedKept(k)
    BY <2>2 DEF Asked, ArrivalKept, ParentKept, GoalKept, AchievedKept
  <2>4. QED
    BY <2>1, <2>3, LoadStands DEF k
<1>7. CASE LoadRestore(r)
  BY <1>7, OneLoadStands DEF Checked, LoadRestore
<1>8. CASE LoadGoal(r)
  <2>1. PICK g \in Goals, to \in {"open", "achieved", "dropped"} :
           Load(r, "goalStatus", g, to, {}, to = "achieved")
    BY <1>8 DEF LoadGoal
  <2> DEFINE k == Loaded("goalStatus", g, to, {}, to = "achieved")
  <2>2. k.op = "goalStatus" /\ k.to = to /\ k.ready = (to # "achieved")
    BY DEF Loaded
  <2> HIDE DEF k
  <2>3. Asked(k) /\ ArrivalKept(k) /\ ParentKept(k) /\ GoalKept(k) /\ AchievedKept(k)
    BY <2>2 DEF Asked, ArrivalKept, ParentKept, GoalKept, AchievedKept
  <2>4. QED
    BY <2>1, <2>3, LoadStands DEF k
<1>9. QED
  BY <1>1, <1>2, <1>3, <1>4, <1>5, <1>6, <1>7, <1>8

\* A card is deleted with its sub-tasks, so nothing is open or done of it.
LEMMA DeleteTaskStands ==
  ASSUME IInv, Typed', NEW t \in Tasks, DeleteTask(t)
  PROVE  Stands
<1> DEFINE gone == {t} \cup IF t \in Cards THEN SubsOf(t) ELSE {}
           n == [Unborn EXCEPT !.life = "gone"]
<1>1. /\ row' = [u \in Tasks |-> IF u \in gone THEN n ELSE row[u]]
      /\ UNCHANGED <<board, box, goal, req>>
      /\ \A r \in Requests : gone \cap req[r].holds = {}
  BY DEF DeleteTask
<1>2. n.life # "live" /\ n.col = None /\ ~n.stored /\ ~n.finished
  BY DEF Unborn
<1> HIDE DEF gone, n
<1>3. /\ Last' = Last /\ Distinct' /\ Cards \subseteq Tasks /\ Subs \subseteq Tasks
      /\ Last # None
  BY <1>1, LastIsColumn, BoardConstants DEF IInv, Typed, Last, Distinct, Tasks
<1>4. \A u \in Tasks : row'[u] = row[u] \/ row'[u] = n
  BY <1>1
<1>5. /\ \A c \in Cards : OpenCard(c)' /\ row'[c].goal # None =>
            OpenCard(c) /\ row[c].goal = row'[c].goal
      /\ \A s \in Subs : IsLive(s)' /\ ~Settled(s)' => IsLive(s) /\ ~Settled(s)
      /\ \A c \in Cards : row'[c].finished => Closing(c)
      /\ \A c \in Cards : Done(c)' /\ ~row'[c].finished => StaysUnfinished(c)
  BY <1>2, <1>3, <1>4 DEF OpenCard, IsLive, Settled, Done, Closing, StaysUnfinished
<1>6. FinishedMeansDone' /\ Bare'
  BY <1>2, <1>3, <1>4 DEF IInv, FinishedMeansDone, Bare, IsLive, Done
<1>7. \A q \in Requests : req[q].op # "idle" => \A u \in DOMAIN req[q].seen :
            IsLive(u)' => IsLive(u) /\ Lasting(row[u], row'[u])
  <2>1. \A q \in Requests : DOMAIN req[q].seen \subseteq Tasks
    BY DEF IInv, Typed, ReqType
  <2>2. QED
    BY <1>2, <1>4, <2>1 DEF IsLive, Lasting
<1>8. \A q \in Requests : \A c \in Cards \cap req[q].holds : row'[c].finished => row[c].finished
  BY <1>2, <1>3, <1>4
<1>9. PICK S : S = Requests
  OBVIOUS
<1>10. QED
  BY <1>1, <1>3, <1>5, <1>6, <1>7, <1>8, <1>9, NothingOpens

\* A goal goes and its cards stay, on no goal.
LEMMA DeleteGoalStands ==
  ASSUME IInv, Typed', NEW g \in Goals, DeleteGoal(g)
  PROVE  Stands
<1>1. /\ goal' = [goal EXCEPT ![g] = [status |-> "gone", at |-> FALSE]]
      /\ row' = [t \in Tasks |-> IF row[t].goal = g THEN [row[t] EXCEPT !.goal = None] ELSE row[t]]
      /\ UNCHANGED <<board, box, req>>
      /\ \A r \in Requests : g \notin req[r].holds
  BY DEF DeleteGoal
<1>2. /\ Last' = Last /\ Distinct' /\ Cards \subseteq Tasks /\ Subs \subseteq Tasks
  BY <1>1 DEF IInv, Last, Distinct, Tasks
<1>3. \A t \in Tasks :
         /\ row'[t].life = row[t].life /\ row'[t].col = row[t].col
         /\ row'[t].stored = row[t].stored /\ row'[t].finished = row[t].finished
         /\ row'[t].cancelled = row[t].cancelled /\ row'[t].goal \in {row[t].goal, None}
  BY <1>1, RowOf DEF IInv, Typed, Row
<1>4. /\ \A c \in Cards : OpenCard(c)' /\ row'[c].goal # None =>
            OpenCard(c) /\ row[c].goal = row'[c].goal
      /\ \A s \in Subs : IsLive(s)' /\ ~Settled(s)' => IsLive(s) /\ ~Settled(s)
      /\ \A c \in Cards : row'[c].finished => Closing(c)
      /\ \A c \in Cards : Done(c)' /\ ~row'[c].finished => StaysUnfinished(c)
  BY <1>2, <1>3 DEF OpenCard, IsLive, Settled, Done, Closing, StaysUnfinished
<1>5. FinishedMeansDone' /\ Bare'
  BY <1>2, <1>3 DEF IInv, FinishedMeansDone, Bare, IsLive, Done
<1>6. \A q \in Requests : req[q].op # "idle" => \A u \in DOMAIN req[q].seen :
            IsLive(u)' => IsLive(u) /\ Lasting(row[u], row'[u])
  <2>1. \A q \in Requests : DOMAIN req[q].seen \subseteq Tasks
    BY DEF IInv, Typed, ReqType
  <2>2. QED
    BY <1>3, <2>1 DEF IsLive, Lasting
<1>7. \A q \in Requests : \A c \in Cards \cap req[q].holds : row'[c].finished => row[c].finished
  BY <1>2, <1>3
<1>8. \A h \in Goals : goal'[h].status # goal[h].status =>
            /\ \A q \in Requests : h \notin req[q].holds
            /\ goal'[h].status = "achieved" =>
                 \A c \in Cards : OpenCard(c)' => row'[c].goal # h
  BY <1>1 DEF IInv, Typed, TypeOK
<1>9. PICK S : S = Requests
  OBVIOUS
<1>10. QED
  BY <1>1, <1>2, <1>4, <1>5, <1>6, <1>7, <1>8, <1>9, NothingOpens

\* No lock taken is on a goal that was not there.
LEMMA CreateGoalStands ==
  ASSUME IInv, Typed', NEW g \in Goals, CreateGoal(g)
  PROVE  Stands
<1>1. /\ goal[g].status = "unborn" /\ goal' = [goal EXCEPT ![g].status = "open"]
      /\ UNCHANGED <<board, row, box, req>> /\ goal \in [Goals -> Goal]
  BY DEF CreateGoal, IInv, Typed, TypeOK
<1>2. \A h \in Goals : /\ goal'[h].status = goal[h].status \/ goal'[h].status = "open"
  BY <1>1 DEF Goal
<1>3. /\ Distinct' /\ Bare' /\ ClosedOnBoard' /\ FinishedMeansDone' /\ Last' = Last
  BY <1>1 DEF IInv, Distinct, Bare, ClosedOnBoard, OpenUnder, FinishedMeansDone, Done,
              Settled, IsLive, Last
<1>4. NoOpenCardOnAchieved'
  <2> SUFFICES ASSUME NEW c \in Cards, OpenCard(c)', row'[c].goal # None
               PROVE  goal'[row'[c].goal].status # "achieved"
    BY DEF NoOpenCardOnAchieved
  <2>1. OpenCard(c) /\ row[c].goal \in Goals /\ row'[c].goal = row[c].goal
    BY <1>1, <1>3, RowOf DEF OpenCard, IsLive, IInv, Typed, Row, Tasks
  <2>2. QED
    BY <1>1, <1>2, <2>1 DEF IInv, NoOpenCardOnAchieved
<1>5. \A q \in Requests : Kept(req[q])'
  <2>1. TAKE q \in Requests
  <2>2. PICK k : k = req[q]
    OBVIOUS
  <2>3. Kept(k) /\ ReqTyped(k) /\ req'[q] = k
    BY <1>1, <2>2 DEF IInv, Typed
  <2>4. \A h \in Goals : Welcoming(k, h) => Welcoming(k, h)'
    BY <1>2 DEF Welcoming
  <2>5. GoalKept(k)'
    <3>1. k.op \in {"move", "uncancel"} => k.seen[k.on].goal \in Goals \cup {None}
      BY <2>3 DEF ReqTyped, Row, OnTask, OnCard, OnSub
    <3>2. k.op \in {"create", "assign"} => k.to \in Goals \cup {None}
      BY <2>3 DEF ReqTyped
    <3>3. QED
      BY <2>3, <2>4, <3>1, <3>2 DEF Kept, GoalKept
  <2>6. /\ Asked(k)' /\ AsLoaded(k)' /\ ArrivalKept(k)' /\ ParentKept(k)' /\ AchievedKept(k)'
    BY <1>1, <1>3, <2>3 DEF Kept, Asked, AsLoaded, ArrivalKept, ParentKept, AchievedKept,
                     Lasting, SubsSettled, SubsOf, Settled, IsLive, OpenCard
  <2>7. Kept(k)'
    BY <2>5, <2>6 DEF Kept
  <2>8. QED
    BY <2>3, <2>7
<1>6. \A p \in Requests : \A q \in Requests \ {p} : Apart(req[p], req[q])'
  BY <1>1 DEF IInv, Apart
<1>7. IInv'
  BY <1>3, <1>4, <1>5, <1>6 DEF IInv
<1>8. QED
  BY <1>1, <1>3, <1>7, SameRowsStand DEF Done

LEMMA ChecklistStands ==
  ASSUME IInv, Typed', NEW c \in Cards, UpdateChecklistItem(c)
  PROVE  Stands
<1>1. UNCHANGED <<board, row, goal, req>>
  BY DEF UpdateChecklistItem
<1>2. QED
  BY <1>1, RulesAsTheyWere DEF IInv, Distinct, Last

\* The columns change under the cards: the last place stays with the column
\* that has it, or passes between two empty ones while nobody is at work.
LEMMA ColumnsStand ==
  ASSUME EndMovesIdle, IInv, Typed', Distinct', EndMayMove, UNCHANGED <<row, box, goal, req>>
  PROVE  Stands
<1>1. CASE Last' = Last
  BY <1>1, RulesAsTheyWere
<1>2. CASE Last' # Last
  <2>1. /\ \A r \in Requests : req[r].op = "idle"
        /\ \A c \in Cards : row[c].col # Last /\ row[c].col # Last'
    BY <1>2 DEF EndMayMove, EndMoves, InFlight, Last
  <2>2. /\ \A c \in Cards : (Done(c)' <=> Done(c)) /\ (OpenCard(c)' <=> OpenCard(c))
    BY <2>1 DEF Done, OpenCard, IsLive
  <2>3. /\ Bare' /\ ClosedOnBoard' /\ NoOpenCardOnAchieved' /\ FinishedMeansDone'
    BY <2>2, BoardConstants DEF IInv, Bare, ClosedOnBoard, OpenUnder, NoOpenCardOnAchieved,
                FinishedMeansDone, Settled, IsLive
  <2>4. \A q \in Requests : Kept(req[q])'
    BY <2>1 DEF Kept, Asked, AsLoaded, ArrivalKept, ParentKept, GoalKept, AchievedKept
  <2>5. IInv'
    BY <2>3, <2>4 DEF IInv, Apart
  <2>6. QED
    BY <2>2, <2>5, SameRowsStand
<1>3. QED
  BY <1>1, <1>2

LEMMA InitRules == Init => IInv
<1> SUFFICES ASSUME Init PROVE IInv
  OBVIOUS
<1>1. /\ Typed /\ Distinct /\ row = [t \in Tasks |-> Unborn]
      /\ req = [r \in Requests |-> Idle]
  BY InitTyped DEF Init
<1>2. \A t \in Tasks : ~IsLive(t) /\ row[t].col = None /\ ~row[t].stored /\ ~row[t].finished
  BY <1>1 DEF IsLive, Unborn
<1>3. \A s \in Subs : s \in Tasks
  BY DEF Tasks
<1>4. \A c \in Cards : c \in Tasks
  BY DEF Tasks
<1>5. /\ Bare /\ ClosedOnBoard /\ NoOpenCardOnAchieved /\ FinishedMeansDone
  BY <1>2, <1>3, <1>4 DEF Bare, ClosedOnBoard, OpenUnder, NoOpenCardOnAchieved,
                          FinishedMeansDone, OpenCard
<1>6. \A r \in Requests : Kept(req[r])
  BY <1>1, IdleIsKept
<1>7. \A r \in Requests : \A q \in Requests \ {r} : Apart(req[r], req[q])
  BY <1>1 DEF Apart, Idle
<1>8. QED
  BY <1>1, <1>5, <1>6, <1>7 DEF IInv

LEMMA NextRules ==
  ASSUME RowsSerial, EndMovesIdle, IInv, [Next]_vars
  PROVE  Stands
<1>1. Typed' /\ Distinct'
  BY NextTyped DEF IInv
<1>2. CASE UNCHANGED vars
  BY <1>1, <1>2, RulesAsTheyWere DEF vars, Last
<1>3. CASE CreateColumn \/ Reorder \/ \E col \in Columns : DeleteColumn(col)
  BY <1>1, <1>3, ColumnsStand DEF CreateColumn, Reorder, DeleteColumn
<1>4. CASE \/ \E t \in Tasks : DeleteTask(t)
           \/ \E g \in Goals : CreateGoal(g) \/ DeleteGoal(g)
           \/ \E c \in Cards : UpdateChecklistItem(c)
  BY <1>1, <1>4, DeleteTaskStands, CreateGoalStands, DeleteGoalStands, ChecklistStands
<1>5. ASSUME NEW r \in Requests,
             \/ LoadMove(r) \/ LoadSetFinished(r) \/ LoadChangeStatus(r) \/ LoadCreate(r)
             \/ LoadAssign(r) \/ LoadStore(r) \/ LoadRestore(r) \/ LoadGoal(r)
      PROVE  Stands
  BY <1>1, <1>5, LoadsStand
<1>6. ASSUME NEW r \in Requests,
             LockToArrive(r) \/ LockParent(r) \/ LockGoal(r) \/ LockToAchieve(r)
      PROVE  Stands
  BY <1>1, <1>6, LocksStand
<1>7. ASSUME NEW r \in Requests,
             \/ Move(r) \/ SetFinished(r) \/ ChangeStatus(r) \/ Assign(r) \/ Restore(r)
             \/ CreateCard(r) \/ CreateSubtask(r) \/ StoreFinished(r) \/ SetGoalStatus(r)
             \/ Abort(r)
      PROVE  Stands
  BY <1>1, <1>7, MoveStands, SetFinishedStands, ChangeStatusStands, AssignStands,
     RestoreStands, CreatesStand, StoreStands, GoalStatusStands, AbortStands
<1>8. QED
  BY <1>2, <1>3, <1>4, <1>5, <1>6, <1>7 DEF Next

\* The rules and what they rest on, when two requests in flight never write
\* the same row and the last place passes between empty columns only.
THEOREM Rules ==
  ASSUME RowsSerial, EndMovesIdle
  PROVE  Spec => []IInv
<1>1. IInv /\ [Next]_vars => IInv'
  BY NextRules DEF Stands
<1>2. QED
  BY InitRules, <1>1, PTL DEF Spec

\* finished_at follows the card's place, and the one card that is done and not
\* finished is still where it was created (tasks/moves.py, tasks/lifecycle.py,
\* tasks/cold_storage.py).
THEOREM FinishedFollows ==
  ASSUME RowsSerial, EndMovesIdle
  PROVE  Spec => FinishedFollowsPlace
<1>1. IInv /\ [Next]_vars => [FollowsPlace]_vars
  BY NextRules DEF Stands
<1>2. QED
  BY Rules, <1>1, PTL DEF Spec, FinishedFollowsPlace

\* A finished card is in the last column or stored from it (tasks/moves.py),
\* where two requests in flight never write the same row.
THEOREM FinishedIsDone ==
  ASSUME RowsSerial, EndMovesIdle
  PROVE  Spec => []FinishedMeansDone
<1>1. IInv => FinishedMeansDone
  BY DEF IInv
<1>2. QED
  BY Rules, <1>1, PTL

\* Nothing opens under a finished card, from either end: tasks/moves.py and
\* tasks/cold_storage.py refuse the card that would arrive over open work,
\* tasks/parentage.py the sub-task.
THEOREM FinishedStaysClosed ==
  ASSUME RowsSerial, EndMovesIdle
  PROVE  Spec => NothingOpensUnderFinished
<1>1. IInv /\ [Next]_vars => [KeepsFinishedClosed]_vars
  BY NextRules DEF Stands
<1>2. QED
  BY Rules, <1>1, PTL DEF Spec, NothingOpensUnderFinished

\* No open card is ever on an achieved goal, from either end of the lock
\* (goals.py).
THEOREM AchievedIsClosed ==
  ASSUME RowsSerial, EndMovesIdle
  PROVE  Spec => []NoOpenCardOnAchieved
<1>1. IInv => NoOpenCardOnAchieved
  BY DEF IInv
<1>2. QED
  BY Rules, <1>1, PTL
=============================================================================
