--------------------------- MODULE AgentSessions ---------------------------
(***************************************************************************)
(* One agent conversation, the row it keeps on each card it has been on,   *)
(* and the prompts it puts there for a person to answer.  Prompts are read *)
(* locked; a conversation's rows are not, so a request writes the columns  *)
(* it changed over whatever another has committed since it read them.      *)
(* Time is abstract: a prompt becomes late, or its tool stops polling.     *)
(***************************************************************************)
EXTENDS FiniteSets

CONSTANTS
    Cards,
    Questions,    \* prompts of kind question
    Permissions,  \* prompts of kind permission
    Requests,     \* database sessions, each running one request at a time
    None

ASSUME SessionConstants ==
    /\ Questions \cap Permissions = {}
    /\ None \notin Cards \cup Questions \cup Permissions

Prompts == Questions \cup Permissions

VARIABLES
    row,     \* card -> the conversation's row on it
    prompt,  \* prompt -> its row
    req      \* what each session is in the middle of

vars == <<row, prompt, req>>

NoRow == [state |-> "none", reason |-> "none", ended |-> FALSE, dismissed |-> FALSE]
NoPrompt == [status |-> "absent", card |-> None, late |-> FALSE, dropped |-> FALSE]
Free == [op |-> "free", ready |-> FALSE, card |-> None, target |-> None, said |-> "none",
         seen |-> [c \in Cards |-> NoRow], held |-> {}, closing |-> {}]

IsOpen(k) == k.state # "none" /\ ~k.ended
OpenOn(cards) == {q \in Prompts : prompt[q].status = "open" /\ prompt[q].card \in cards}
HeldElsewhere(r) == UNION {req[s].held : s \in Requests \ {r}}

Begin(r, op, card, target, said, held) ==
    /\ req[r].op = "free"
    /\ req' = [req EXCEPT ![r] = [Free EXCEPT !.op = op, !.card = card, !.target = target,
                                              !.said = said, !.seen = row, !.held = held]]
    /\ UNCHANGED <<row, prompt>>

-----------------------------------------------------------------------------
(* What a transaction writes.                                               *)

\* The columns it changed, over the row as it is by now.
Merged(now, seen, new) ==
    [state     |-> IF new.state = seen.state THEN now.state ELSE new.state,
     reason    |-> IF new.reason = seen.reason THEN now.reason ELSE new.reason,
     ended     |-> IF new.ended = seen.ended THEN now.ended ELSE new.ended,
     dismissed |-> IF new.dismissed = seen.dismissed THEN now.dismissed ELSE new.dismissed]

\* A mutant: nothing in the database says that done is having ended.
SoundAlways(k) == TRUE

\* The constraint done_has_ended_at.
Sound(k) == (k.state = "done") = k.ended

\* _finish
Ended(k) == [k EXCEPT !.state = "done", !.reason = "gone", !.ended = TRUE]

\* resume_session, once none of the row's other prompts is open.
Resumed(k, to) ==
    IF to # "unchanged" /\ IsOpen(k) /\ k.state = "waiting" /\ k.reason = "prompt"
    THEN [k EXCEPT !.state = to, !.reason = IF to = "working" THEN "none" ELSE "turn"]
    ELSE k

\* _state_after_closing
AfterClosing(q, status, why) ==
    IF status = "answered" THEN "working"
    ELSE IF q \in Questions THEN IF status = "expired" THEN "working" ELSE "waiting"
    ELSE IF status = "withdrawn" /\ why = "terminal" THEN "working" ELSE "unchanged"

\* End r's transaction: new rows from those it saw, and prompts, unless the
\* database refuses a row (an insert of one that is there by now, or the
\* constraint).
Commit(r, new, prompts) ==
    LET seen == req[r].seen
        result == [c \in Cards |-> IF seen[c].state = "none" THEN
                                        IF new[c] = seen[c] THEN row[c] ELSE new[c]
                                   ELSE Merged(row[c], seen[c], new[c])]
    IN
    /\ \A c \in Cards : /\ seen[c].state = "none" /\ new[c] # seen[c] => row[c].state = "none"
                        /\ Sound(result[c])
    /\ row' = result
    /\ prompt' = prompts
    /\ req' = [req EXCEPT ![r] = Free]

\* A closed prompt is past having a deadline, or a poll.
Closed(q, status) == [prompt[q] EXCEPT !.status = status, !.late = FALSE, !.dropped = FALSE]

Abort(r) ==
    /\ req[r].op # "free"
    /\ req' = [req EXCEPT ![r] = Free]
    /\ UNCHANGED <<row, prompt>>

-----------------------------------------------------------------------------
(* A report: settle the prompts it overtakes, walk off other cards, apply   *)
(* it, withdraw the prompts of what ended.                                  *)

Said == {"working", "turn", "permission", "done"}

BeginReport(r, c, said) == Begin(r, "report", c, None, said, {})

\* settle_for_report waits for the open prompts of an open row; everything but
\* that row, which it has read by then, is read after.
LockReport(r) ==
    LET c == req[r].card
        settles == req[r].said # "done" /\ IsOpen(req[r].seen[c])
        found == IF settles THEN OpenOn({c}) ELSE {}
    IN
    /\ req[r].op = "report" /\ ~req[r].ready
    /\ found \cap HeldElsewhere(r) = {}
    /\ req' = [req EXCEPT ![r].ready = TRUE, ![r].held = found,
                          ![r].seen = [k \in Cards |-> IF k = c /\ settles THEN @[k] ELSE row[k]]]
    /\ UNCHANGED <<row, prompt>>

Live(q) == ~prompt[q].late /\ ~prompt[q].dropped

\* A mutant: a working report goes through over a question.
HeldOpenNever(r) == FALSE

\* A question still being asked turns "working" into a heartbeat of waiting.
HeldOpen(r) == req[r].said = "working" /\ \E q \in req[r].held \cap Questions : Live(q)

\* What settling makes of the prompts it holds.
Settled(r) ==
    [q \in Prompts |->
        IF q \notin req[r].held THEN prompt[q]
        ELSE IF q \in Permissions
        THEN IF req[r].said = "permission" THEN prompt[q]
             ELSE Closed(q, "withdrawn")
        ELSE IF req[r].said # "working" \/ Live(q) THEN prompt[q]
        ELSE Closed(q, IF prompt[q].dropped THEN "withdrawn" ELSE "expired")]

\* A mutant: a row that comes back stays dismissed.
ReportedDismissed(r, k) ==
    IF req[r].said = "done" THEN Ended(k)
    ELSE LET working == req[r].said = "working" /\ ~HeldOpen(r) IN
         [k EXCEPT !.state = IF working THEN "working" ELSE "waiting",
                   !.reason = IF working THEN "none"
                              ELSE IF req[r].said = "turn" THEN "turn" ELSE "prompt",
                   !.ended = FALSE]

\* _apply_reported_state
Reported(r, k) ==
    IF req[r].said = "done" THEN Ended(k)
    ELSE LET working == req[r].said = "working" /\ ~HeldOpen(r) IN
         [state     |-> IF working THEN "working" ELSE "waiting",
          reason    |-> IF working THEN "none"
                        ELSE IF req[r].said = "turn" THEN "turn" ELSE "prompt",
          ended     |-> FALSE,
          dismissed |-> FALSE]

\* A mutant: the other cards are not walked off.
LeavesNone(r) == {}

\* _walk_off_other_cards
Leaves(r) == {k \in Cards \ {req[r].card} : IsOpen(req[r].seen[k])}

FinishReport(r) ==
    LET c == req[r].card
        seen == req[r].seen
        new == [k \in Cards |-> IF k = c THEN Reported(r, seen[k])
                                ELSE IF k \in Leaves(r) THEN Ended(seen[k]) ELSE seen[k]]
        orphans == OpenOn({k \in Cards : new[k].ended /\ (k = c \/ k \in Leaves(r))})
    IN
    /\ req[r].op = "report" /\ req[r].ready
    /\ orphans \cap HeldElsewhere(r) = {}
    /\ Commit(r, new, [q \in Prompts |-> IF q \in orphans
                                         THEN Closed(q, "withdrawn")
                                         ELSE Settled(r)[q]])

-----------------------------------------------------------------------------
(* Asking: a question, or a permission the harness wants.                   *)

BeginAsk(r, q, c) ==
    /\ prompt[q].status = "absent" /\ IsOpen(row[c])
    /\ Begin(r, "ask", c, q, "none", {})

FinishAsk(r) ==
    LET q == req[r].target
        c == req[r].card
    IN
    /\ req[r].op = "ask"
    /\ prompt[q].status = "absent"
    /\ Commit(r, [req[r].seen EXCEPT ![c].state = "waiting", ![c].reason = "prompt"],
              [prompt EXCEPT ![q] = [NoPrompt EXCEPT !.status = "open", !.card = c]])

-----------------------------------------------------------------------------
(* Closing one prompt, or looking at it: read it locked, then its row.      *)

\* A mutant: the prompt is read without its lock.
BeginCloseUnlocked(r, q, op, why) ==
    /\ prompt[q].status = "open"
    /\ op = "answer" => ~prompt[q].late
    /\ op = "poll" => prompt[q].late \/ prompt[q].dropped
    /\ why = "terminal" => q \in Permissions
    /\ Begin(r, op, prompt[q].card, q, why, {})

\* A prompt that is not open is left as it is, or the caller refused: a
\* request that would do nothing is not begun.
BeginClose(r, q, op, why) ==
    /\ prompt[q].status = "open" /\ q \notin HeldElsewhere(r)
    /\ op = "answer" => ~prompt[q].late
    /\ op = "poll" => prompt[q].late \/ prompt[q].dropped
    /\ why = "terminal" => q \in Permissions
    /\ Begin(r, op, prompt[q].card, q, why, {q})

\* resume_session locks the row's other open prompts.
LockClose(r) ==
    LET found == OpenOn({req[r].card}) IN
    /\ req[r].op \in {"answer", "withdraw", "poll"} /\ ~req[r].ready
    /\ found \cap HeldElsewhere(r) = {}
    /\ req' = [req EXCEPT ![r].ready = TRUE, ![r].held = @ \cup found]
    /\ UNCHANGED <<row, prompt>>

FinishClose(r) ==
    LET q == req[r].target
        c == req[r].card
        status == IF req[r].op = "answer" THEN "answered"
                  ELSE IF req[r].op = "poll" \/ req[r].said = "expired" THEN "expired"
                  ELSE "withdrawn"
        others == req[r].held \ {q}
        to == IF others = {} THEN AfterClosing(q, status, req[r].said) ELSE "unchanged"
    IN
    /\ req[r].op \in {"answer", "withdraw", "poll"} /\ req[r].ready
    /\ IF req[r].op = "poll" /\ ~prompt[q].late
       THEN Commit(r, req[r].seen, [prompt EXCEPT ![q].dropped = FALSE])
       ELSE Commit(r, [req[r].seen EXCEPT ![c] = Resumed(@, to)], [prompt EXCEPT ![q] = Closed(q, status)])

-----------------------------------------------------------------------------
(* Ends nobody reported: a socket closed, or the reaper's pass.             *)

BeginEnd(r, op) ==
    /\ (\E c \in Cards : IsOpen(row[c])) \/ (op = "reap" /\ OpenOn(Cards) # {})
    /\ op = "reap" => \A s \in Requests : req[s].op # "reap"   \* the reaper's lease
    /\ Begin(r, op, None, None, "none", {})

\* The rows to end are those seen open that have gone quiet; their prompts are
\* waited for.  The reaper's sweep then takes every other open prompt that
\* nobody holds.
LockEnd(r, quiet) ==
    LET found == OpenOn(quiet) IN
    /\ req[r].op \in {"drop", "reap"} /\ ~req[r].ready
    /\ quiet \subseteq {c \in Cards : IsOpen(req[r].seen[c])}
    /\ req[r].op = "drop" => quiet = {c \in Cards : IsOpen(req[r].seen[c])}
    /\ found \cap HeldElsewhere(r) = {}
    /\ req' = [req EXCEPT ![r].ready = TRUE, ![r].closing = quiet,
                          ![r].held = IF req[r].op = "drop" THEN found
                                      ELSE found \cup (OpenOn(Cards) \ HeldElsewhere(r)),
                          ![r].seen = [c \in Cards |-> IF c \in quiet THEN @[c] ELSE row[c]]]
    /\ UNCHANGED <<row, prompt>>

\* A mutant: only questions are swept.
OverdueQuestions(q) == q \in Questions /\ (prompt[q].late \/ prompt[q].dropped)

Overdue(q) == prompt[q].late \/ (q \in Questions /\ prompt[q].dropped)

FinishEnd(r) ==
    LET orphans == {q \in req[r].held : prompt[q].card \in req[r].closing}
        swept == {q \in req[r].held \ orphans : Overdue(q)}
        status(q) == IF q \in orphans \/ ~prompt[q].late THEN "withdrawn" ELSE "expired"
        left(c) == {q \in swept : prompt[q].card = c}
        resumes(c) == left(c) # {} /\ OpenOn({c}) \subseteq swept
    IN
    /\ req[r].op \in {"drop", "reap"} /\ req[r].ready
    /\ \E last \in [Cards -> Prompts \cup {None}] :
          /\ \A c \in Cards : last[c] \in IF resumes(c) THEN left(c) ELSE {None}
          /\ Commit(r,
                [c \in Cards |->
                    IF c \in req[r].closing THEN Ended(req[r].seen[c])
                    ELSE IF last[c] = None THEN req[r].seen[c]
                    ELSE Resumed(req[r].seen[c], AfterClosing(last[c], status(last[c]), "none"))],
                [q \in Prompts |-> IF q \in orphans \cup swept
                                   THEN Closed(q, status(q)) ELSE prompt[q]])

-----------------------------------------------------------------------------
\* A person writes to the card in the browser, or clears it: one UPDATE of the
\* rows that have ended.
Dismiss(r, c) ==
    /\ req[r].op = "free"
    /\ row[c].ended /\ ~row[c].dismissed
    /\ row' = [row EXCEPT ![c].dismissed = TRUE]
    /\ UNCHANGED <<prompt, req>>

BecomesLate(q) ==
    /\ prompt[q].status = "open" /\ ~prompt[q].late
    /\ prompt' = [prompt EXCEPT ![q].late = TRUE]
    /\ UNCHANGED <<row, req>>

\* ABANDONED_AFTER without a poll.
StopsPolling(q) ==
    /\ prompt[q].status = "open" /\ q \in Questions /\ ~prompt[q].dropped
    /\ prompt' = [prompt EXCEPT ![q].dropped = TRUE]
    /\ UNCHANGED <<row, req>>

Init ==
    /\ row = [c \in Cards |-> NoRow]
    /\ prompt = [q \in Prompts |-> NoPrompt]
    /\ req = [r \in Requests |-> Free]

BeginAny(r) ==
    \/ \E c \in Cards, said \in Said : BeginReport(r, c, said)
    \/ \E c \in Cards, q \in Prompts : BeginAsk(r, q, c)
    \/ \E q \in Prompts :
          \/ BeginClose(r, q, "answer", "none") \/ BeginClose(r, q, "poll", "none")
          \/ \E why \in {"terminal", "expired", "none"} : BeginClose(r, q, "withdraw", why)
    \/ BeginEnd(r, "drop")

Continue(r) ==
    \/ LockReport(r) \/ FinishReport(r) \/ FinishAsk(r)
    \/ LockClose(r) \/ FinishClose(r)
    \/ (\E quiet \in SUBSET Cards : LockEnd(r, quiet)) \/ FinishEnd(r)

Next ==
    \/ \E r \in Requests : BeginAny(r) \/ BeginEnd(r, "reap") \/ Continue(r) \/ Abort(r)
    \/ \E r \in Requests, c \in Cards : Dismiss(r, c)
    \/ \E q \in Prompts : BecomesLate(q) \/ StopsPolling(q)

Spec == Init /\ [][Next]_vars

\* A pass that finds nothing to do has not failed.
FailReap(r) == req[r].op = "reap" /\ Abort(r) /\ ~FinishEnd(r)

\* A request ends; the reaper's pass gets its turn, and is not for ever failing.
Fairness ==
    /\ \A r \in Requests : /\ WF_vars(Continue(r) \/ Abort(r))
                           /\ SF_vars(BeginEnd(r, "reap"))
    /\ <>[][\A r \in Requests : ~FailReap(r)]_vars

FairSpec == Spec /\ Fairness

-----------------------------------------------------------------------------
(* Properties.                                                              *)

RowType == [state : {"none", "working", "waiting", "done"},
            reason : {"none", "prompt", "turn", "gone"},
            ended : BOOLEAN, dismissed : BOOLEAN]

TypeOK ==
    /\ row \in [Cards -> RowType]
    /\ prompt \in [Prompts -> [status : {"absent", "open", "answered", "expired", "withdrawn"},
                               card : Cards \cup {None}, late : BOOLEAN, dropped : BOOLEAN]]
    /\ \A r \in Requests : /\ req[r].seen \in [Cards -> RowType]
                           /\ req[r].held \in SUBSET Prompts
                           /\ req[r].closing \in SUBSET Cards
    /\ \A c \in Cards : row[c].state = "done" <=> row[c].ended

\* Whatever closed a prompt first is what happened to it: no answer lands on
\* another, or on a withdrawal, and none is withdrawn (store.py, locked).
FirstCloseWins ==
    [][\A q \in Prompts :
          prompt[q].status \notin {"absent", "open"} => prompt'[q].status = prompt[q].status]_vars

\* The remaining properties are for requests that run one at a time: a
\* conversation's rows are read without a lock.

\* A conversation is on one card at a time (agent_sessions.py, upsert).
OneCardAtATime == \A c, k \in Cards : IsOpen(row[c]) /\ IsOpen(row[k]) => c = k

\* A session that is open is shown: coming back undoes its dismissal
\* (agent_sessions.py, upsert).
OpenIsShown == \A c \in Cards : IsOpen(row[c]) => ~row[c].dismissed

\* Nobody is asked on behalf of a session that has ended, and a session with
\* something open is waiting on a person (settling.py).
AskedIsWaiting ==
    \A q \in Prompts : prompt[q].status = "open" =>
        IsOpen(row[prompt[q].card]) /\ row[prompt[q].card].state = "waiting"

\* A prompt past its time, or a question nothing polls for, is closed in the
\* end - whoever forgot about it (settling.py, sweep).
OverdueCloses == \A q \in Prompts : ~Live(q) ~> Live(q)

=============================================================================
