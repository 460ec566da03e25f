------------------------ MODULE AgentSessionsProofs ------------------------
(***************************************************************************)
(* For any cards, prompts and requests: rows and prompts keep their types, *)
(* and whatever closed a prompt first is what happened to it.  What does   *)
(* it is the lock on a prompt: no two requests hold one, and what is held  *)
(* is open (LockInv).  A conversation's rows have no such lock, so the     *)
(* other properties are proved for requests that run one after another     *)
(* (Alone), whatever the cards, the prompts and the reports.               *)
(***************************************************************************)
EXTENDS AgentSessions, TLAPS

Statuses == {"absent", "open", "answered", "expired", "withdrawn"}
PromptType == [status : Statuses, card : Cards \cup {None}, late : BOOLEAN, dropped : BOOLEAN]
Closing == {"answer", "withdraw", "poll"}
Ops == {"free", "report", "ask", "drop", "reap"} \cup Closing
Words == Said \cup {"none", "terminal", "expired"}
ReqType == [op : Ops, ready : BOOLEAN, card : Cards \cup {None}, target : Prompts \cup {None},
            said : Words, seen : [Cards -> RowType], held : SUBSET Prompts, closing : SUBSET Cards]

\* What a request aims at is there to be aimed at.
Typed ==
    /\ row \in [Cards -> RowType]
    /\ prompt \in [Prompts -> PromptType]
    /\ req \in [Requests -> ReqType]
    /\ \A r \in Requests :
          /\ req[r].op \in {"report", "ask"} => req[r].card \in Cards
          /\ req[r].op \in {"ask"} \cup Closing => req[r].target \in Prompts
    /\ \A c \in Cards : row[c].state = "done" <=> row[c].ended

\* A prompt that somebody holds is open, and nobody else holds it; what a
\* request is closing it holds.
LockInv ==
    /\ \A r \in Requests : \A q \in req[r].held : prompt[q].status = "open"
    /\ \A r, s \in Requests : r # s => req[r].held \cap req[s].held = {}
    /\ \A r \in Requests : req[r].op \in Closing => req[r].target \in req[r].held

IInv == Typed /\ LockInv

\* What FirstCloseWins asks of a step.
ClosedStays ==
    \A q \in Prompts :
        prompt[q].status \notin {"absent", "open"} => prompt'[q].status = prompt[q].status

-----------------------------------------------------------------------------
LEMMA Values ==
  /\ NoRow \in RowType /\ NoPrompt \in PromptType /\ Free \in ReqType
  /\ Free.op = "free" /\ Free.held = {}
BY DEF NoRow, NoPrompt, Free, RowType, PromptType, ReqType, Statuses, Ops, Words, Said

LEMMA EndedTyped ==
  ASSUME NEW k \in RowType
  PROVE  Ended(k) \in RowType
BY DEF Ended, RowType

LEMMA ResumedTyped ==
  ASSUME NEW k \in RowType, NEW to \in {"working", "waiting", "unchanged"}
  PROVE  Resumed(k, to) \in RowType
<1>1. CASE to # "unchanged" /\ IsOpen(k) /\ k.state = "waiting" /\ k.reason = "prompt"
  <2>1. Resumed(k, to) = [k EXCEPT !.state = to, !.reason = IF to = "working" THEN "none" ELSE "turn"]
    BY <1>1 DEF Resumed
  <2>2. QED
    BY <1>1, <2>1 DEF RowType
<1>2. CASE ~(to # "unchanged" /\ IsOpen(k) /\ k.state = "waiting" /\ k.reason = "prompt")
  BY <1>2 DEF Resumed
<1>3. QED
  BY <1>1, <1>2

LEMMA AfterClosingTyped ==
  ASSUME NEW q, NEW status, NEW why
  PROVE  AfterClosing(q, status, why) \in {"working", "waiting", "unchanged"}
BY DEF AfterClosing

LEMMA ClosedTyped ==
  ASSUME NEW q \in Prompts, prompt[q] \in PromptType, NEW status \in Statuses
  PROVE  /\ Closed(q, status) \in PromptType
         /\ Closed(q, status).status = status /\ Closed(q, status).card = prompt[q].card
BY DEF Closed, PromptType

LEMMA ReportedTyped ==
  ASSUME NEW r, NEW k \in RowType
  PROVE  Reported(r, k) \in RowType
BY EndedTyped DEF Reported, RowType

LEMMA MergedTyped ==
  ASSUME NEW now \in RowType, NEW seen \in RowType, NEW new \in RowType
  PROVE  Merged(now, seen, new) \in RowType
BY DEF Merged, RowType

-----------------------------------------------------------------------------
\* A transaction commits rows and prompts of the right types; of the prompts it
\* changes the status only of those nobody else holds.
LEMMA CommitStep ==
  ASSUME IInv, NEW r \in Requests, NEW new \in [Cards -> RowType],
         NEW prompts \in [Prompts -> PromptType], Commit(r, new, prompts),
         \A s \in Requests \ {r} : \A q \in req[s].held : prompts[q].status = prompt[q].status,
         \A q \in Prompts :
            prompt[q].status \notin {"absent", "open"} => prompts[q].status = prompt[q].status
  PROVE  IInv' /\ ClosedStays
<1> DEFINE seen == req[r].seen
           result == [c \in Cards |-> IF seen[c].state = "none" THEN
                                           IF new[c] = seen[c] THEN row[c] ELSE new[c]
                                      ELSE Merged(row[c], seen[c], new[c])]
<1>1. /\ \A c \in Cards : Sound(result[c])
      /\ row' = result /\ prompt' = prompts /\ req' = [req EXCEPT ![r] = Free]
  BY DEF Commit
<1>2. seen \in [Cards -> RowType] /\ row \in [Cards -> RowType]
  BY DEF IInv, Typed, ReqType
<1>3. result \in [Cards -> RowType]
  BY <1>2, MergedTyped
<1> HIDE DEF result, seen
<1>4. \A s \in Requests : req'[s] = IF s = r THEN Free ELSE req[s]
  BY <1>1 DEF IInv, Typed
<1>5. req' \in [Requests -> ReqType]
  BY <1>1, Values DEF IInv, Typed
<1>6. Typed'
  BY <1>1, <1>3, <1>4, <1>5, Values DEF IInv, Typed, Sound, Closing
<1>7. LockInv'
  BY <1>1, <1>4, Values DEF IInv, LockInv, Closing
<1>8. QED
  BY <1>1, <1>6, <1>7 DEF IInv, ClosedStays

\* A request changes only what it is itself in the middle of.
LEMMA RequestStep ==
  ASSUME IInv, NEW r \in Requests, NEW q \in ReqType, UNCHANGED <<row, prompt>>,
         req' = [req EXCEPT ![r] = q],
         q.op \in {"report", "ask"} => q.card \in Cards,
         q.op \in {"ask"} \cup Closing => q.target \in Prompts,
         q.op \in Closing => q.target \in q.held,
         \A p \in q.held : prompt[p].status = "open" /\ (p \in req[r].held \/ p \notin HeldElsewhere(r))
  PROVE  IInv' /\ ClosedStays
<1>1. /\ req' \in [Requests -> ReqType]
      /\ \A s \in Requests : req'[s] = IF s = r THEN q ELSE req[s]
  BY DEF IInv, Typed
<1>2. Typed'
  BY <1>1 DEF IInv, Typed
<1>3. \A s \in Requests : s # r => q.held \cap req[s].held = {}
  BY DEF HeldElsewhere, IInv, LockInv
<1>4. LockInv'
  BY <1>1, <1>3 DEF IInv, LockInv
<1>5. QED
  BY <1>2, <1>4 DEF IInv, ClosedStays

-----------------------------------------------------------------------------
LEMMA BeginStep ==
  ASSUME IInv, NEW r \in Requests, NEW op \in Ops, NEW card \in Cards \cup {None},
         NEW target \in Prompts \cup {None}, NEW said \in Words, NEW held \in SUBSET Prompts,
         Begin(r, op, card, target, said, held),
         op \in {"report", "ask"} => card \in Cards,
         op \in {"ask"} \cup Closing => target \in Prompts,
         op \in Closing => target \in held,
         \A p \in held : prompt[p].status = "open" /\ p \notin HeldElsewhere(r)
  PROVE  IInv' /\ ClosedStays
<1> DEFINE q == [Free EXCEPT !.op = op, !.card = card, !.target = target,
                             !.said = said, !.seen = row, !.held = held]
<1>1. UNCHANGED <<row, prompt>> /\ req' = [req EXCEPT ![r] = q]
  BY DEF Begin
<1>2. Free \in ReqType /\ row \in [Cards -> RowType]
  BY Values DEF IInv, Typed
<1>3. q.op = op /\ q.card = card /\ q.target = target /\ q.held = held
  BY <1>2 DEF ReqType
<1>4. q \in ReqType
  BY <1>2 DEF ReqType
<1> HIDE DEF q
<1>5. QED
  BY <1>1, <1>3, <1>4, RequestStep

LEMMA BeginsStep ==
  ASSUME IInv, NEW r \in Requests, BeginAny(r) \/ BeginEnd(r, "reap")
  PROVE  IInv' /\ ClosedStays
<1>1. ASSUME NEW c \in Cards, NEW said \in Said, BeginReport(r, c, said) PROVE IInv' /\ ClosedStays
  BY <1>1, BeginStep DEF BeginReport, Ops, Words, Closing
<1>2. ASSUME NEW c \in Cards, NEW q \in Prompts, BeginAsk(r, q, c) PROVE IInv' /\ ClosedStays
  BY <1>2, BeginStep DEF BeginAsk, Ops, Words, Closing
<1>3. ASSUME NEW q \in Prompts, NEW op \in Closing, NEW why \in {"terminal", "expired", "none"},
             BeginClose(r, q, op, why)
      PROVE  IInv' /\ ClosedStays
  <2>1. /\ Begin(r, op, prompt[q].card, q, why, {q})
        /\ prompt[q].status = "open" /\ q \notin HeldElsewhere(r)
    BY <1>3 DEF BeginClose
  <2>2. prompt[q].card \in Cards \cup {None} /\ op \in Ops /\ why \in Words
    BY DEF IInv, Typed, PromptType, Ops, Words
  <2>3. op \notin {"report", "ask"}
    BY DEF Closing
  <2>4. QED
    BY <2>1, <2>2, <2>3, BeginStep
<1>4. ASSUME NEW op \in {"drop", "reap"}, BeginEnd(r, op) PROVE IInv' /\ ClosedStays
  <2>1. Begin(r, op, None, None, "none", {})
    BY <1>4 DEF BeginEnd
  <2>2. op \in Ops /\ op \notin {"report", "ask"} /\ op \notin Closing /\ "none" \in Words
    BY DEF Ops, Closing, Words
  <2>3. QED
    BY <2>1, <2>2, BeginStep
<1>5. QED
  BY <1>1, <1>2, <1>3, <1>4 DEF BeginAny, Closing

\* What is open is not closed by being found; r holds what it found.
LEMMA OpenOnOpen ==
  ASSUME NEW cards
  PROVE  OpenOn(cards) \in SUBSET Prompts /\ \A q \in OpenOn(cards) : prompt[q].status = "open"
BY DEF OpenOn

LEMMA LockReportStep ==
  ASSUME IInv, NEW r \in Requests, LockReport(r)
  PROVE  IInv' /\ ClosedStays
<1> DEFINE c == req[r].card
           settles == req[r].said # "done" /\ IsOpen(req[r].seen[c])
           found == IF settles THEN OpenOn({c}) ELSE {}
           seen == [k \in Cards |-> IF k = c /\ settles THEN req[r].seen[k] ELSE row[k]]
           q == [req[r] EXCEPT !.ready = TRUE, !.held = found, !.seen = seen]
<1>1. /\ req[r].op = "report" /\ found \cap HeldElsewhere(r) = {}
      /\ req' = [req EXCEPT ![r] = q] /\ UNCHANGED <<row, prompt>> /\ req[r] \in ReqType
  BY DEF LockReport, IInv, Typed
<1>2. seen \in [Cards -> RowType] /\ found \in SUBSET Prompts
      /\ \A p \in found : prompt[p].status = "open"
  BY <1>1, OpenOnOpen DEF IInv, Typed, ReqType
<1> HIDE DEF seen, found, settles
<1>3. q \in ReqType /\ q.op = "report" /\ q.card = c /\ q.held = found /\ c \in Cards
  BY <1>1, <1>2 DEF ReqType, IInv, Typed
<1> HIDE DEF q, c
<1>4. QED
  BY <1>1, <1>2, <1>3, RequestStep DEF Closing, c

LEMMA LockCloseStep ==
  ASSUME IInv, NEW r \in Requests, LockClose(r)
  PROVE  IInv' /\ ClosedStays
<1> DEFINE found == OpenOn({req[r].card})
           q == [req[r] EXCEPT !.ready = TRUE, !.held = @ \cup found]
<1>1. /\ req[r].op \in Closing /\ found \cap HeldElsewhere(r) = {}
      /\ req' = [req EXCEPT ![r] = q] /\ UNCHANGED <<row, prompt>> /\ req[r] \in ReqType
  BY DEF LockClose, IInv, Typed, Closing
<1>2. found \in SUBSET Prompts /\ \A p \in found : prompt[p].status = "open"
  BY OpenOnOpen
<1> HIDE DEF found
<1>3. /\ q \in ReqType /\ q.op = req[r].op /\ q.target = req[r].target
      /\ q.held = req[r].held \cup found
  BY <1>1, <1>2 DEF ReqType
<1> HIDE DEF q
<1>4. /\ q.target \in Prompts /\ q.target \in q.held /\ q.op \notin {"report", "ask"}
      /\ \A p \in req[r].held : prompt[p].status = "open"
  BY <1>1, <1>3 DEF IInv, Typed, LockInv, Closing
<1>5. \A p \in q.held : prompt[p].status = "open" /\ (p \in req[r].held \/ p \notin HeldElsewhere(r))
  BY <1>1, <1>2, <1>3, <1>4
<1>6. QED
  BY <1>1, <1>3, <1>4, <1>5, RequestStep

LEMMA LockEndStep ==
  ASSUME IInv, NEW r \in Requests, NEW quiet \in SUBSET Cards, LockEnd(r, quiet)
  PROVE  IInv' /\ ClosedStays
<1> DEFINE found == OpenOn(quiet)
           held == IF req[r].op = "drop" THEN found
                   ELSE found \cup (OpenOn(Cards) \ HeldElsewhere(r))
           seen == [c \in Cards |-> IF c \in quiet THEN req[r].seen[c] ELSE row[c]]
           q == [req[r] EXCEPT !.ready = TRUE, !.closing = quiet, !.held = held, !.seen = seen]
<1>1. /\ req[r].op \in {"drop", "reap"} /\ found \cap HeldElsewhere(r) = {}
      /\ req' = [req EXCEPT ![r] = q] /\ UNCHANGED <<row, prompt>> /\ req[r] \in ReqType
  BY DEF LockEnd, IInv, Typed
<1>2. /\ seen \in [Cards -> RowType] /\ held \in SUBSET Prompts
      /\ \A p \in held : prompt[p].status = "open" /\ p \notin HeldElsewhere(r)
  BY <1>1, OpenOnOpen DEF IInv, Typed, ReqType
<1> HIDE DEF seen, held, found
<1>3. q \in ReqType /\ q.op = req[r].op /\ q.held = held
  BY <1>1, <1>2 DEF ReqType
<1> HIDE DEF q
<1>4. QED
  BY <1>1, <1>2, <1>3, RequestStep DEF Closing

LEMMA AbortStep ==
  ASSUME IInv, NEW r \in Requests, Abort(r)
  PROVE  IInv' /\ ClosedStays
BY Values, RequestStep DEF Abort, Closing

-----------------------------------------------------------------------------
\* What nobody else holds is out of their reach.
LEMMA Elsewhere ==
  ASSUME NEW r \in Requests, NEW s \in Requests \ {r}
  PROVE  req[s].held \subseteq HeldElsewhere(r)
BY DEF HeldElsewhere

LEMMA FinishReportStep ==
  ASSUME IInv, NEW r \in Requests, FinishReport(r)
  PROVE  IInv' /\ ClosedStays
<1> DEFINE c == req[r].card
           seen == req[r].seen
           new == [k \in Cards |-> IF k = c THEN Reported(r, seen[k])
                                   ELSE IF k \in Leaves(r) THEN Ended(seen[k]) ELSE seen[k]]
           orphans == OpenOn({k \in Cards : new[k].ended /\ (k = c \/ k \in Leaves(r))})
           prompts == [q \in Prompts |-> IF q \in orphans
                                         THEN Closed(q, "withdrawn")
                                         ELSE Settled(r)[q]]
<1>1. orphans \cap HeldElsewhere(r) = {} /\ Commit(r, new, prompts)
  BY DEF FinishReport
<1>2. new \in [Cards -> RowType]
  <2>1. seen \in [Cards -> RowType]
    BY DEF IInv, Typed, ReqType
  <2>2. QED
    BY <2>1, ReportedTyped, EndedTyped
<1> HIDE DEF new, orphans, seen
<1>3. ASSUME NEW q \in Prompts
      PROVE  /\ Settled(r)[q] \in PromptType
             /\ q \notin req[r].held => Settled(r)[q] = prompt[q]
  <2>1. prompt[q] \in PromptType /\ "withdrawn" \in Statuses /\ "expired" \in Statuses
    BY DEF IInv, Typed, Statuses
  <2>2. Closed(q, "withdrawn") \in PromptType /\ Closed(q, "expired") \in PromptType
    BY <2>1, ClosedTyped
  <2>3. QED
    BY <2>1, <2>2 DEF Settled
<1>4. prompts \in [Prompts -> PromptType]
  <2>1. \A q \in Prompts : Closed(q, "withdrawn") \in PromptType
    BY ClosedTyped DEF IInv, Typed, Statuses
  <2>2. QED
    BY <1>3, <2>1
<1>5. \A s \in Requests \ {r} : \A q \in req[s].held : prompts[q].status = prompt[q].status
  <2> SUFFICES ASSUME NEW s \in Requests \ {r}, NEW q \in req[s].held
               PROVE  prompts[q].status = prompt[q].status
    OBVIOUS
  <2>1. q \in Prompts /\ q \notin req[r].held /\ q \notin orphans
    BY <1>1, Elsewhere DEF IInv, Typed, ReqType, LockInv
  <2>2. QED
    BY <1>3, <2>1
<1>6. \A q \in Prompts : prompt[q].status \notin {"absent", "open"} => prompts[q].status = prompt[q].status
  <2>1. \A q \in orphans \cup req[r].held : prompt[q].status = "open"
    BY OpenOnOpen DEF IInv, LockInv, orphans
  <2>2. QED
    BY <1>3, <2>1
<1> HIDE DEF prompts
<1>7. QED
  BY <1>1, <1>2, <1>4, <1>5, <1>6, CommitStep

LEMMA FinishAskStep ==
  ASSUME IInv, NEW r \in Requests, FinishAsk(r)
  PROVE  IInv' /\ ClosedStays
<1> DEFINE q == req[r].target
           c == req[r].card
           new == [req[r].seen EXCEPT ![c].state = "waiting", ![c].reason = "prompt"]
           opened == [NoPrompt EXCEPT !.status = "open", !.card = c]
           prompts == [prompt EXCEPT ![q] = opened]
<1>1. prompt[q].status = "absent" /\ Commit(r, new, prompts) /\ req[r].op = "ask"
  BY DEF FinishAsk
<1>2. q \in Prompts /\ c \in Cards /\ req[r].seen \in [Cards -> RowType]
  BY <1>1 DEF IInv, Typed, ReqType
<1>3. new \in [Cards -> RowType]
  BY <1>2 DEF RowType
<1>4. opened \in PromptType
  BY <1>2 DEF NoPrompt, PromptType, Statuses
<1> HIDE DEF opened, new
<1>5. prompts \in [Prompts -> PromptType] /\ \A p \in Prompts : p # q => prompts[p] = prompt[p]
  BY <1>4 DEF IInv, Typed
<1>6. \A s \in Requests \ {r} : \A p \in req[s].held : prompts[p].status = prompt[p].status
  BY <1>1, <1>5 DEF IInv, Typed, ReqType, LockInv
<1> HIDE DEF prompts
<1>7. QED
  BY <1>1, <1>3, <1>5, <1>6, CommitStep

LEMMA FinishCloseStep ==
  ASSUME IInv, NEW r \in Requests, FinishClose(r)
  PROVE  IInv' /\ ClosedStays
<1> DEFINE q == req[r].target
           c == req[r].card
           status == IF req[r].op = "answer" THEN "answered"
                     ELSE IF req[r].op = "poll" \/ req[r].said = "expired" THEN "expired"
                     ELSE "withdrawn"
           others == req[r].held \ {q}
           to == IF others = {} THEN AfterClosing(q, status, req[r].said) ELSE "unchanged"
           resumed == [req[r].seen EXCEPT ![c] = Resumed(@, to)]
           closed == [prompt EXCEPT ![q] = Closed(q, status)]
           polled == [prompt EXCEPT ![q].dropped = FALSE]
<1>1. /\ req[r].op \in Closing
      /\ \/ Commit(r, req[r].seen, polled)
         \/ Commit(r, resumed, closed)
  BY DEF FinishClose, Closing
<1>2. /\ q \in Prompts /\ q \in req[r].held /\ prompt[q] \in PromptType
      /\ req[r].seen \in [Cards -> RowType] /\ prompt \in [Prompts -> PromptType]
  BY <1>1 DEF IInv, Typed, ReqType, LockInv
<1>3. \A s \in Requests \ {r} : \A p \in req[s].held : p \in Prompts /\ p # q
  BY <1>2 DEF IInv, Typed, ReqType, LockInv
<1>4. CASE Commit(r, req[r].seen, polled)
  <2>1. polled \in [Prompts -> PromptType] /\ \A p \in Prompts : p # q => polled[p] = prompt[p]
    BY <1>2 DEF PromptType
  <2>2. prompt[q].status = "open"
    BY <1>2 DEF IInv, LockInv
  <2> HIDE DEF polled, q
  <2>3. QED
    BY <1>2, <1>3, <1>4, <2>1, <2>2, CommitStep
<1>5. CASE Commit(r, resumed, closed)
  <2>1. status \in Statuses /\ to \in {"working", "waiting", "unchanged"}
    BY AfterClosingTyped DEF Statuses
  <2> HIDE DEF status, to
  <2>2. closed \in [Prompts -> PromptType] /\ \A p \in Prompts : p # q => closed[p] = prompt[p]
    BY <1>2, <2>1, ClosedTyped
  <2>3. resumed \in [Cards -> RowType]
    BY <1>2, <2>1, ResumedTyped
  <2>4. prompt[q].status = "open"
    BY <1>2 DEF IInv, LockInv
  <2> HIDE DEF closed, resumed, q
  <2>5. QED
    BY <1>3, <1>5, <2>2, <2>3, <2>4, CommitStep
<1>6. QED
  BY <1>1, <1>4, <1>5

LEMMA FinishEndStep ==
  ASSUME IInv, NEW r \in Requests, FinishEnd(r)
  PROVE  IInv' /\ ClosedStays
<1> DEFINE orphans == {q \in req[r].held : prompt[q].card \in req[r].closing}
           swept == {q \in req[r].held \ orphans : Overdue(q)}
           status(q) == IF q \in orphans \/ ~prompt[q].late THEN "withdrawn" ELSE "expired"
           new(last) == [c \in Cards |->
                           IF c \in req[r].closing THEN Ended(req[r].seen[c])
                           ELSE IF last[c] = None THEN req[r].seen[c]
                           ELSE Resumed(req[r].seen[c], AfterClosing(last[c], status(last[c]), "none"))]
           prompts == [q \in Prompts |-> IF q \in orphans \cup swept
                                         THEN Closed(q, status(q)) ELSE prompt[q]]
<1>1. PICK last \in [Cards -> Prompts \cup {None}] : Commit(r, new(last), prompts)
  BY DEF FinishEnd
<1>2. req[r].seen \in [Cards -> RowType] /\ prompt \in [Prompts -> PromptType]
  BY DEF IInv, Typed, ReqType
<1>3. new(last) \in [Cards -> RowType]
  BY <1>2, EndedTyped, ResumedTyped, AfterClosingTyped
<1>4. \A q \in Prompts : Closed(q, status(q)) \in PromptType
  BY <1>2, ClosedTyped DEF Statuses
<1>5. orphans \cup swept \subseteq req[r].held
  OBVIOUS
<1> HIDE DEF orphans, swept, status, new
<1>6. prompts \in [Prompts -> PromptType]
  BY <1>2, <1>4
<1>7. \A s \in Requests \ {r} : \A p \in req[s].held : prompts[p].status = prompt[p].status
  BY <1>5 DEF IInv, Typed, ReqType, LockInv
<1>8. \A q \in Prompts : prompt[q].status \notin {"absent", "open"} => prompts[q].status = prompt[q].status
  BY <1>5 DEF IInv, LockInv
<1> HIDE DEF prompts
<1>9. QED
  BY <1>1, <1>3, <1>6, <1>7, <1>8, CommitStep

\* Time passes for a prompt, or a row is dismissed.
LEMMA OutsideStep ==
  ASSUME IInv,
         \/ \E r \in Requests, c \in Cards : Dismiss(r, c)
         \/ \E q \in Prompts : BecomesLate(q) \/ StopsPolling(q)
  PROVE  IInv' /\ ClosedStays
<1>1. ASSUME NEW c \in Cards, row' = [row EXCEPT ![c].dismissed = TRUE], UNCHANGED <<prompt, req>>
      PROVE  IInv' /\ ClosedStays
  <2>1. row' \in [Cards -> RowType] /\ \A k \in Cards : row'[k].state = row[k].state /\ row'[k].ended = row[k].ended
    BY <1>1 DEF IInv, Typed, RowType
  <2>2. QED
    BY <1>1, <2>1 DEF IInv, Typed, LockInv, ClosedStays
<1>2. ASSUME NEW q \in Prompts, UNCHANGED <<row, req>>, NEW p \in PromptType,
             prompt' = [prompt EXCEPT ![q] = p], p.status = prompt[q].status
      PROVE  IInv' /\ ClosedStays
  <2>1. prompt' \in [Prompts -> PromptType] /\ \A k \in Prompts : prompt'[k].status = prompt[k].status
    BY <1>2 DEF IInv, Typed
  <2>2. \A r \in Requests : req[r].held \in SUBSET Prompts
    BY DEF IInv, Typed, ReqType
  <2>3. QED
    BY <1>2, <2>1, <2>2 DEF IInv, Typed, LockInv, ClosedStays
<1>3. ASSUME NEW q \in Prompts, BecomesLate(q) \/ StopsPolling(q)
      PROVE  IInv' /\ ClosedStays
  <2>1. prompt[q] \in PromptType /\ prompt \in [Prompts -> PromptType]
    BY DEF IInv, Typed
  <2>2. CASE BecomesLate(q)
    <3> DEFINE p == [prompt[q] EXCEPT !.late = TRUE]
    <3>1. p \in PromptType /\ p.status = prompt[q].status /\ prompt' = [prompt EXCEPT ![q] = p]
      BY <2>1, <2>2 DEF BecomesLate, PromptType
    <3>2. QED
      BY <1>2, <2>2, <3>1 DEF BecomesLate
  <2>3. CASE StopsPolling(q)
    <3> DEFINE p == [prompt[q] EXCEPT !.dropped = TRUE]
    <3>1. p \in PromptType /\ p.status = prompt[q].status /\ prompt' = [prompt EXCEPT ![q] = p]
      BY <2>1, <2>3 DEF StopsPolling, PromptType
    <3>2. QED
      BY <1>2, <2>3, <3>1 DEF StopsPolling
  <2>4. QED
    BY <1>3, <2>2, <2>3
<1>4. QED
  BY <1>1, <1>3 DEF Dismiss

LEMMA InitInv == Init => IInv
<1>1. Init => Typed
  BY Values DEF Init, Typed, Closing, NoRow
<1>2. Init => LockInv
  BY Values DEF Init, LockInv, Closing
<1>3. QED
  BY <1>1, <1>2 DEF IInv

LEMMA NextInv == IInv /\ [Next]_vars => IInv' /\ ClosedStays
<1> SUFFICES ASSUME IInv, [Next]_vars PROVE IInv' /\ ClosedStays
  OBVIOUS
<1>1. ASSUME NEW r \in Requests, BeginAny(r) \/ BeginEnd(r, "reap") \/ Abort(r)
      PROVE  IInv' /\ ClosedStays
  BY <1>1, BeginsStep, AbortStep
<1>2. ASSUME NEW r \in Requests, Continue(r)
      PROVE  IInv' /\ ClosedStays
  BY <1>2, LockReportStep, LockCloseStep, LockEndStep,
     FinishReportStep, FinishAskStep, FinishCloseStep, FinishEndStep DEF Continue
<1>3. CASE UNCHANGED vars
  BY <1>3 DEF vars, IInv, Typed, LockInv, ClosedStays
<1>4. QED
  BY <1>1, <1>2, <1>3, OutsideStep DEF Next

\* The types, and the locks on prompts, hold in every state.
THEOREM Invariant == Spec => []IInv
BY InitInv, NextInv, PTL DEF Spec

\* Every variable keeps its type, and a row is done exactly when it has ended,
\* whichever requests write the same row at once (the models' constraint
\* done_has_ended_at).
THEOREM TypeCorrect == Spec => []TypeOK
<1>1. IInv => TypeOK
  BY DEF IInv, Typed, TypeOK, ReqType, PromptType, Statuses
<1>2. QED
  BY Invariant, <1>1, PTL

\* Whatever closed a prompt first is what happened to it: every request that
\* could close it takes its lock first, and looks again (store.py, locked).
THEOREM FirstClose == Spec => FirstCloseWins
<1>1. IInv /\ [Next]_vars =>
         [\A q \in Prompts :
            prompt[q].status \notin {"absent", "open"} => prompt'[q].status = prompt[q].status]_vars
  BY NextInv DEF ClosedStays
<1>2. QED
  BY Invariant, <1>1, PTL DEF Spec, FirstCloseWins

-----------------------------------------------------------------------------
(* Requests that run one after another.                                     *)

Alone == \A r, s \in Requests : r = s

\* A request's view is the conversation as it is, and it holds every prompt
\* that what it is about to write concerns.
Serves(k) ==
    /\ k.op # "free" => \A c \in Cards : k.seen[c] = row[c]
    /\ k.op = "report" /\ k.ready
          => k.held = IF k.said # "done" /\ IsOpen(row[k.card]) THEN OpenOn({k.card}) ELSE {}
    /\ k.op = "ask" => IsOpen(row[k.card])
    /\ k.op \in Closing
          => prompt[k.target].card = k.card /\ (k.ready => OpenOn({k.card}) \subseteq k.held)
    /\ k.op \in {"drop", "reap"} /\ k.ready => OpenOn(k.closing) \subseteq k.held

SerialInv ==
    /\ OneCardAtATime
    /\ OpenIsShown
    /\ AskedIsWaiting
    /\ \A q \in Prompts : prompt[q].status = "open" => prompt[q].card \in Cards
    /\ \A r \in Requests : Serves(req[r])

\* What the only request there is commits is what the conversation becomes.
LEMMA SerialCommit ==
  ASSUME IInv, Alone, SerialInv, NEW r \in Requests, req[r].op # "free",
         NEW new, NEW prompts, Commit(r, new, prompts),
         \A c, k \in Cards : IsOpen(new[c]) /\ IsOpen(new[k]) => c = k,
         \A c \in Cards : IsOpen(new[c]) => ~new[c].dismissed,
         \A q \in Prompts : prompts[q].status = "open" =>
            /\ prompts[q].card \in Cards
            /\ IsOpen(new[prompts[q].card]) /\ new[prompts[q].card].state = "waiting"
  PROVE  SerialInv'
<1> DEFINE seen == req[r].seen
           result == [c \in Cards |-> IF seen[c].state = "none" THEN
                                           IF new[c] = seen[c] THEN row[c] ELSE new[c]
                                      ELSE Merged(row[c], seen[c], new[c])]
<1>1. row' = result /\ prompt' = prompts /\ req' = [req EXCEPT ![r] = Free]
  BY DEF Commit
<1>2. \A c \in Cards : seen[c] = row[c]
  BY DEF SerialInv, Serves
<1>3. \A c \in Cards : /\ result[c].state = new[c].state /\ result[c].ended = new[c].ended
                       /\ result[c].dismissed = new[c].dismissed
  BY <1>2 DEF Merged
<1> HIDE DEF result
<1>4. \A c \in Cards : /\ row'[c].state = new[c].state /\ row'[c].dismissed = new[c].dismissed
                       /\ IsOpen(row'[c]) <=> IsOpen(new[c])
  BY <1>1, <1>3 DEF IsOpen
<1>5. \A s \in Requests : req'[s].op = "free"
  BY <1>1, Values DEF Alone, IInv, Typed
<1>6. OneCardAtATime' /\ OpenIsShown'
  BY <1>4 DEF OneCardAtATime, OpenIsShown
<1>7. AskedIsWaiting' /\ \A q \in Prompts : prompt'[q].status = "open" => prompt'[q].card \in Cards
  BY <1>1, <1>4 DEF AskedIsWaiting
<1>8. QED
  BY <1>5, <1>6, <1>7 DEF SerialInv, Serves, Closing

\* The conversation is as it was; only the request has moved.
LEMMA SerialStep ==
  ASSUME IInv, Alone, SerialInv, NEW r \in Requests, NEW q, UNCHANGED <<row, prompt>>,
         req' = [req EXCEPT ![r] = q],
         Serves(q)
  PROVE  SerialInv'
<1>1. \A s \in Requests : req'[s] = q
  BY DEF Alone, IInv, Typed
<1>2. OneCardAtATime' /\ OpenIsShown' /\ AskedIsWaiting'
  BY DEF SerialInv, OneCardAtATime, OpenIsShown, AskedIsWaiting
<1>3. ASSUME NEW s \in Requests PROVE Serves(req[s])'
  BY <1>1 DEF Serves, OpenOn
<1>4. QED
  BY <1>2, <1>3 DEF SerialInv

LEMMA SerialBegin ==
  ASSUME IInv, Alone, SerialInv, NEW r \in Requests, NEW op, NEW card, NEW target, NEW said, NEW held,
         Begin(r, op, card, target, said, held),
         op = "ask" => IsOpen(row[card]),
         op \in Closing => prompt[target].card = card
  PROVE  SerialInv'
<1> DEFINE q == [Free EXCEPT !.op = op, !.card = card, !.target = target,
                             !.said = said, !.seen = row, !.held = held]
<1>1. UNCHANGED <<row, prompt>> /\ req' = [req EXCEPT ![r] = q]
  BY DEF Begin
<1>2. Free \in ReqType /\ Free.ready = FALSE
  BY Values DEF Free
<1>3. q.op = op /\ q.card = card /\ q.target = target /\ q.seen = row /\ q.ready = FALSE
  BY <1>2 DEF ReqType
<1> HIDE DEF q
<1>4. Serves(q)
  BY <1>3 DEF Serves
<1>5. QED
  BY <1>1, <1>4, SerialStep

LEMMA SerialBegins ==
  ASSUME IInv, Alone, SerialInv, NEW r \in Requests, BeginAny(r) \/ BeginEnd(r, "reap")
  PROVE  SerialInv'
<1>1. ASSUME NEW c \in Cards, NEW said \in Said, BeginReport(r, c, said) PROVE SerialInv'
  BY <1>1, SerialBegin DEF BeginReport, Closing
<1>2. ASSUME NEW c \in Cards, NEW q \in Prompts, BeginAsk(r, q, c) PROVE SerialInv'
  BY <1>2, SerialBegin DEF BeginAsk, Closing
<1>3. ASSUME NEW q \in Prompts, NEW op \in Closing, NEW why, BeginClose(r, q, op, why)
      PROVE  SerialInv'
  BY <1>3, SerialBegin DEF BeginClose, Closing
<1>4. ASSUME NEW op \in {"drop", "reap"}, BeginEnd(r, op) PROVE SerialInv'
  BY <1>4, SerialBegin DEF BeginEnd, Closing
<1>5. QED
  BY <1>1, <1>2, <1>3, <1>4 DEF BeginAny, Closing

LEMMA SerialLocks ==
  ASSUME IInv, Alone, SerialInv, NEW r \in Requests,
         LockReport(r) \/ LockClose(r) \/ \E quiet \in SUBSET Cards : LockEnd(r, quiet)
  PROVE  SerialInv'
<1>1. Serves(req[r]) /\ req[r] \in ReqType
  BY DEF SerialInv, IInv, Typed
<1>2. CASE LockReport(r)
  <2> DEFINE c == req[r].card
             settles == req[r].said # "done" /\ IsOpen(req[r].seen[c])
             found == IF settles THEN OpenOn({c}) ELSE {}
             seen == [k \in Cards |-> IF k = c /\ settles THEN req[r].seen[k] ELSE row[k]]
             q == [req[r] EXCEPT !.ready = TRUE, !.held = found, !.seen = seen]
  <2>1. /\ req[r].op = "report" /\ req' = [req EXCEPT ![r] = q] /\ UNCHANGED <<row, prompt>>
    BY <1>2 DEF LockReport
  <2>2. c \in Cards /\ req[r].seen[c] = row[c] /\ \A k \in Cards : seen[k] = row[k]
    BY <1>1, <2>1 DEF Serves, IInv, Typed
  <2> HIDE DEF seen
  <2>3. q.op = "report" /\ q.ready /\ q.held = found /\ q.seen = seen /\ q.card = c /\ q.said = req[r].said
    BY <1>1, <2>1 DEF ReqType
  <2> HIDE DEF q
  <2>4. Serves(q)
    BY <2>2, <2>3 DEF Serves, Closing
  <2>5. QED
    BY <2>1, <2>4, SerialStep
<1>3. CASE LockClose(r)
  <2> DEFINE found == OpenOn({req[r].card})
             q == [req[r] EXCEPT !.ready = TRUE, !.held = @ \cup found]
  <2>1. req[r].op \in Closing /\ req' = [req EXCEPT ![r] = q] /\ UNCHANGED <<row, prompt>>
    BY <1>3 DEF LockClose, Closing
  <2>2. /\ q.op = req[r].op /\ q.target = req[r].target /\ q.card = req[r].card
        /\ q.held = req[r].held \cup found /\ q.seen = req[r].seen
    BY <1>1 DEF ReqType
  <2> HIDE DEF q
  <2>3. Serves(q)
    BY <1>1, <2>1, <2>2 DEF Serves, Closing
  <2>4. QED
    BY <2>1, <2>3, SerialStep
<1>4. ASSUME NEW quiet \in SUBSET Cards, LockEnd(r, quiet) PROVE SerialInv'
  <2> DEFINE held == IF req[r].op = "drop" THEN OpenOn(quiet)
                     ELSE OpenOn(quiet) \cup (OpenOn(Cards) \ HeldElsewhere(r))
             seen == [c \in Cards |-> IF c \in quiet THEN req[r].seen[c] ELSE row[c]]
             q == [req[r] EXCEPT !.ready = TRUE, !.closing = quiet, !.held = held, !.seen = seen]
  <2>1. req[r].op \in {"drop", "reap"} /\ req' = [req EXCEPT ![r] = q] /\ UNCHANGED <<row, prompt>>
    BY <1>4 DEF LockEnd, IInv, Typed
  <2>2. (\A k \in Cards : seen[k] = row[k]) /\ OpenOn(quiet) \subseteq held
    BY <1>1, <2>1 DEF Serves
  <2> HIDE DEF seen, held
  <2>3. q.op = req[r].op /\ q.held = held /\ q.seen = seen /\ q.closing = quiet
    BY <1>1 DEF ReqType
  <2> HIDE DEF q
  <2>4. Serves(q)
    BY <2>1, <2>2, <2>3 DEF Serves, Closing
  <2>5. QED
    BY <2>1, <2>4, SerialStep
<1>5. QED
  BY <1>2, <1>3, <1>4

LEMMA SerialAbort ==
  ASSUME IInv, Alone, SerialInv, NEW r \in Requests, Abort(r)
  PROVE  SerialInv'
<1>1. Serves(Free)
  BY DEF Serves, Free, Closing
<1>2. QED
  BY <1>1, SerialStep DEF Abort

\* What a report makes of its card's row.
LEMMA ReportedRow ==
  ASSUME NEW r, NEW k \in RowType
  PROVE  /\ req[r].said = "done" => Reported(r, k).ended
         /\ req[r].said # "done" =>
               /\ Reported(r, k).ended = FALSE /\ Reported(r, k).dismissed = FALSE
               /\ Reported(r, k).state = IF req[r].said = "working" /\ ~HeldOpen(r)
                                         THEN "working" ELSE "waiting"
BY DEF Reported, Ended, RowType

\* What is open after a report was open on its card before, and keeps the row
\* waiting unless it was settled.
LEMMA SerialReport ==
  ASSUME IInv, Alone, SerialInv, NEW r \in Requests, FinishReport(r)
  PROVE  SerialInv'
<1> DEFINE c == req[r].card
           seen == req[r].seen
           new == [k \in Cards |-> IF k = c THEN Reported(r, seen[k])
                                   ELSE IF k \in Leaves(r) THEN Ended(seen[k]) ELSE seen[k]]
           orphans == OpenOn({k \in Cards : new[k].ended /\ (k = c \/ k \in Leaves(r))})
           prompts == [q \in Prompts |-> IF q \in orphans
                                         THEN Closed(q, "withdrawn")
                                         ELSE Settled(r)[q]]
<1>1. req[r].op = "report" /\ req[r].ready /\ Commit(r, new, prompts) /\ req[r] \in ReqType
  BY DEF FinishReport, IInv, Typed
<1>2. /\ \A k \in Cards : seen[k] = row[k] /\ seen[k] \in RowType
      /\ req[r].held = IF req[r].said # "done" /\ IsOpen(row[c]) THEN OpenOn({c}) ELSE {}
      /\ c \in Cards
  BY <1>1 DEF SerialInv, Serves, IInv, Typed, ReqType
<1>3. /\ new[c] = Reported(r, row[c])
      /\ \A k \in Cards : k # c => /\ ~IsOpen(new[k])
                                   /\ IsOpen(row[k]) => new[k].ended /\ k \in Leaves(r)
  BY <1>2 DEF Leaves, Ended, IsOpen, RowType
<1>4. \A k \in Cards : IsOpen(new[k]) => k = c /\ ~new[k].dismissed
  BY <1>2, <1>3, ReportedRow DEF IsOpen
<1>5. /\ req[r].said = "done" => new[c].ended
      /\ req[r].said # "done" =>
            /\ IsOpen(new[c])
            /\ new[c].state = IF req[r].said = "working" /\ ~HeldOpen(r) THEN "working" ELSE "waiting"
  BY <1>2, <1>3, ReportedRow DEF IsOpen
<1> HIDE DEF new
<1>6. ASSUME NEW q \in Prompts, prompts[q].status = "open"
      PROVE  /\ prompts[q].card \in Cards
             /\ IsOpen(new[prompts[q].card]) /\ new[prompts[q].card].state = "waiting"
  <2>1. prompt[q] \in PromptType
    BY DEF IInv, Typed
  <2>2. q \notin orphans /\ prompts[q] = Settled(r)[q]
    <3>1. Closed(q, "withdrawn").status = "withdrawn"
      BY <2>1, ClosedTyped DEF Statuses
    <3>2. QED
      BY <1>6, <3>1
  <2>3. prompt[q].status = "open" /\ prompts[q] = prompt[q]
    <3>1. Closed(q, "withdrawn").status # "open" /\ Closed(q, "expired").status # "open"
      BY <2>1, ClosedTyped DEF Statuses
    <3>2. QED
      BY <1>6, <2>2, <3>1 DEF Settled
  <2>4. prompt[q].card \in Cards /\ IsOpen(row[prompt[q].card])
    BY <2>3 DEF SerialInv, AskedIsWaiting
  <2>5. prompt[q].card = c /\ req[r].said # "done"
    BY <1>3, <1>5, <2>2, <2>3, <2>4 DEF OpenOn
  <2>6. q \in req[r].held
    BY <1>2, <2>3, <2>4, <2>5 DEF OpenOn
  <2>7. ~(req[r].said = "working" /\ ~HeldOpen(r))
    <3> SUFFICES ASSUME req[r].said = "working", ~HeldOpen(r) PROVE FALSE
      OBVIOUS
    <3>1. q \notin Permissions => q \in Questions /\ ~Live(q)
      BY <2>6 DEF HeldOpen, Prompts
    <3>2. \A status \in Statuses : Closed(q, status).status = status
      BY <2>1, ClosedTyped
    <3>3. Settled(r)[q].status # "open"
      BY <2>6, <3>1, <3>2 DEF Settled, Statuses
    <3>4. QED
      BY <1>6, <2>2, <3>3
  <2>8. QED
    BY <1>5, <2>3, <2>4, <2>5, <2>7
<1> HIDE DEF prompts, orphans
<1>7. req[r].op # "free"
  BY <1>1
<1>8. QED
  BY <1>1, <1>4, <1>6, <1>7, SerialCommit

LEMMA SerialAsk ==
  ASSUME IInv, Alone, SerialInv, NEW r \in Requests, FinishAsk(r)
  PROVE  SerialInv'
<1> DEFINE q == req[r].target
           c == req[r].card
           new == [req[r].seen EXCEPT ![c].state = "waiting", ![c].reason = "prompt"]
           opened == [NoPrompt EXCEPT !.status = "open", !.card = c]
           prompts == [prompt EXCEPT ![q] = opened]
<1>1. Commit(r, new, prompts) /\ req[r].op = "ask" /\ req[r] \in ReqType
  BY DEF FinishAsk, IInv, Typed
<1>2. /\ q \in Prompts /\ c \in Cards /\ IsOpen(row[c])
      /\ req[r].seen \in [Cards -> RowType] /\ \A k \in Cards : req[r].seen[k] = row[k]
  BY <1>1 DEF IInv, Typed, ReqType, SerialInv, Serves
<1>3. opened.status = "open" /\ opened.card = c
  BY DEF NoPrompt
<1>4. /\ \A k \in Cards : k # c => new[k] = row[k]
      /\ new[c].state = "waiting" /\ new[c].ended = row[c].ended /\ new[c].dismissed = row[c].dismissed
  BY <1>2 DEF RowType
<1> HIDE DEF opened, new
<1>5. \A p \in Prompts : prompts[p] = IF p = q THEN opened ELSE prompt[p]
  BY DEF IInv, Typed
<1>6. \A k \in Cards : /\ IsOpen(new[k]) <=> IsOpen(row[k])
                       /\ new[k].dismissed = row[k].dismissed
                       /\ row[k].state = "waiting" => new[k].state = "waiting"
  BY <1>2, <1>4 DEF IsOpen
<1>7. \A p \in Prompts : prompts[p].status = "open" =>
         /\ prompts[p].card \in Cards
         /\ IsOpen(new[prompts[p].card]) /\ new[prompts[p].card].state = "waiting"
  BY <1>2, <1>3, <1>4, <1>5, <1>6 DEF SerialInv, AskedIsWaiting
<1> HIDE DEF prompts
<1>8. /\ \A k, j \in Cards : IsOpen(new[k]) /\ IsOpen(new[j]) => k = j
      /\ \A k \in Cards : IsOpen(new[k]) => ~new[k].dismissed
  BY <1>6 DEF SerialInv, OneCardAtATime, OpenIsShown
<1>9. req[r].op # "free"
  BY <1>1
<1>10. QED
  BY <1>1, <1>7, <1>8, <1>9, SerialCommit

\* Resuming a row leaves it open, and takes it from waiting only where told to.
LEMMA ResumedRow ==
  ASSUME NEW k \in RowType, NEW to \in {"working", "waiting", "unchanged"}
  PROVE  /\ IsOpen(Resumed(k, to)) <=> IsOpen(k)
         /\ Resumed(k, to).dismissed = k.dismissed
         /\ to = "unchanged" => Resumed(k, to) = k
<1>1. CASE to # "unchanged" /\ IsOpen(k) /\ k.state = "waiting" /\ k.reason = "prompt"
  <2>1. Resumed(k, to) = [k EXCEPT !.state = to, !.reason = IF to = "working" THEN "none" ELSE "turn"]
    BY <1>1 DEF Resumed
  <2>2. QED
    BY <1>1, <2>1 DEF RowType, IsOpen
<1>2. CASE ~(to # "unchanged" /\ IsOpen(k) /\ k.state = "waiting" /\ k.reason = "prompt")
  BY <1>2 DEF Resumed
<1>3. QED
  BY <1>1, <1>2

\* A row goes back to working only with its last prompt.
LEMMA SerialClose ==
  ASSUME IInv, Alone, SerialInv, NEW r \in Requests, FinishClose(r)
  PROVE  SerialInv'
<1> DEFINE q == req[r].target
           c == req[r].card
           seen == req[r].seen
           status == IF req[r].op = "answer" THEN "answered"
                     ELSE IF req[r].op = "poll" \/ req[r].said = "expired" THEN "expired"
                     ELSE "withdrawn"
           others == req[r].held \ {q}
           to == IF others = {} THEN AfterClosing(q, status, req[r].said) ELSE "unchanged"
           resumed == [seen EXCEPT ![c] = Resumed(@, to)]
           closed == [prompt EXCEPT ![q] = Closed(q, status)]
           polled == [prompt EXCEPT ![q].dropped = FALSE]
<1>1. /\ req[r].op \in Closing /\ req[r].ready /\ req[r] \in ReqType
      /\ \/ Commit(r, seen, polled)
         \/ Commit(r, resumed, closed)
  BY DEF FinishClose, Closing, IInv, Typed
<1>2. req[r].op # "free"
  BY <1>1 DEF Closing
<1>3. /\ q \in Prompts /\ q \in req[r].held /\ prompt[q] \in PromptType
      /\ seen \in [Cards -> RowType] /\ prompt \in [Prompts -> PromptType]
      /\ \A k \in Cards : seen[k] = row[k]
      /\ prompt[q].card = c /\ OpenOn({c}) \subseteq req[r].held
      /\ prompt[q].status = "open" /\ c \in Cards
  <2>1. q \in Prompts /\ q \in req[r].held
    BY <1>1 DEF IInv, Typed, LockInv
  <2>2. prompt[q].status = "open" /\ prompt \in [Prompts -> PromptType] /\ seen \in [Cards -> RowType]
    BY <1>1, <2>1 DEF IInv, Typed, ReqType, LockInv
  <2>3. Serves(req[r])
    BY DEF SerialInv
  <2>4. /\ \A k \in Cards : seen[k] = row[k]
        /\ prompt[q].card = c /\ OpenOn({c}) \subseteq req[r].held
    BY <1>1, <1>2, <2>3 DEF Serves
  <2>5. c \in Cards
    BY <2>1, <2>2, <2>4 DEF SerialInv
  <2>6. QED
    BY <2>1, <2>2, <2>4, <2>5
<1>4. CASE Commit(r, seen, polled)
  <2>1. \A p \in Prompts : polled[p].status = prompt[p].status /\ polled[p].card = prompt[p].card
    BY <1>3 DEF PromptType
  <2> HIDE DEF polled
  <2>2. \A p \in Prompts : polled[p].status = "open" =>
           /\ polled[p].card \in Cards
           /\ IsOpen(seen[polled[p].card]) /\ seen[polled[p].card].state = "waiting"
    BY <1>3, <2>1 DEF SerialInv, AskedIsWaiting
  <2>3. /\ \A k, j \in Cards : IsOpen(seen[k]) /\ IsOpen(seen[j]) => k = j
        /\ \A k \in Cards : IsOpen(seen[k]) => ~seen[k].dismissed
    BY <1>3 DEF SerialInv, OneCardAtATime, OpenIsShown
  <2> HIDE DEF seen
  <2>4. QED
    BY <1>2, <1>4, <2>2, <2>3, SerialCommit
<1>5. CASE Commit(r, resumed, closed)
  <2>1. status \in Statuses /\ status # "open" /\ to \in {"working", "waiting", "unchanged"}
    BY AfterClosingTyped DEF Statuses
  <2>2. to # "unchanged" => OpenOn({c}) \subseteq {q}
    BY <1>3
  <2> HIDE DEF status, to
  <2>3. \A p \in Prompts : closed[p].status = "open" => p # q /\ closed[p] = prompt[p]
    BY <1>3, <2>1, ClosedTyped
  <2>4. /\ \A k \in Cards : k # c => resumed[k] = row[k]
        /\ resumed[c] = Resumed(row[c], to)
    BY <1>3
  <2>5. \A k \in Cards : /\ IsOpen(resumed[k]) <=> IsOpen(row[k])
                         /\ resumed[k].dismissed = row[k].dismissed
                         /\ resumed[k] = row[k] \/ (k = c /\ OpenOn({c}) \subseteq {q})
    <3>1. /\ IsOpen(Resumed(row[c], to)) <=> IsOpen(row[c])
          /\ Resumed(row[c], to).dismissed = row[c].dismissed
          /\ to = "unchanged" => Resumed(row[c], to) = row[c]
      <4>1. row[c] \in RowType
        BY <1>3
      <4>2. QED
        BY <2>1, <4>1, ResumedRow
    <3> HIDE DEF resumed
    <3>2. QED
      BY <2>2, <2>4, <3>1
  <2> HIDE DEF closed, resumed
  <2>6. \A p \in Prompts : closed[p].status = "open" =>
           /\ closed[p].card \in Cards
           /\ IsOpen(resumed[closed[p].card]) /\ resumed[closed[p].card].state = "waiting"
    <3> SUFFICES ASSUME NEW p \in Prompts, closed[p].status = "open"
                 PROVE  /\ closed[p].card \in Cards
                        /\ IsOpen(resumed[closed[p].card]) /\ resumed[closed[p].card].state = "waiting"
      OBVIOUS
    <3>1. p # q /\ closed[p] = prompt[p] /\ prompt[p].status = "open"
      BY <2>3
    <3>2. /\ prompt[p].card \in Cards
          /\ IsOpen(row[prompt[p].card]) /\ row[prompt[p].card].state = "waiting"
      BY <3>1 DEF SerialInv, AskedIsWaiting
    <3>3. prompt[p].card = c => p \in OpenOn({c})
      BY <3>1 DEF OpenOn
    <3>4. QED
      BY <2>5, <3>1, <3>2, <3>3
  <2>7. /\ \A k, j \in Cards : IsOpen(resumed[k]) /\ IsOpen(resumed[j]) => k = j
        /\ \A k \in Cards : IsOpen(resumed[k]) => ~resumed[k].dismissed
    BY <2>5 DEF SerialInv, OneCardAtATime, OpenIsShown
  <2>8. QED
    BY <1>2, <1>5, <2>6, <2>7, SerialCommit
<1>6. QED
  BY <1>1, <1>4, <1>5

\* The prompts of the rows that end are withdrawn with them, and a row resumes
\* only if every prompt open on it is swept.
LEMMA SerialEnd ==
  ASSUME IInv, Alone, SerialInv, NEW r \in Requests, FinishEnd(r)
  PROVE  SerialInv'
<1> DEFINE seen == req[r].seen
           orphans == {q \in req[r].held : prompt[q].card \in req[r].closing}
           swept == {q \in req[r].held \ orphans : Overdue(q)}
           status(q) == IF q \in orphans \/ ~prompt[q].late THEN "withdrawn" ELSE "expired"
           left(c) == {q \in swept : prompt[q].card = c}
           resumes(c) == left(c) # {} /\ OpenOn({c}) \subseteq swept
           after(last, c) == AfterClosing(last[c], status(last[c]), "none")
           new(last) == [c \in Cards |->
                           IF c \in req[r].closing THEN Ended(seen[c])
                           ELSE IF last[c] = None THEN seen[c]
                           ELSE Resumed(seen[c], after(last, c))]
           prompts == [q \in Prompts |-> IF q \in orphans \cup swept
                                         THEN Closed(q, status(q)) ELSE prompt[q]]
<1>1. PICK last \in [Cards -> Prompts \cup {None}] :
         /\ \A c \in Cards : last[c] \in IF resumes(c) THEN left(c) ELSE {None}
         /\ Commit(r, new(last), prompts)
  BY DEF FinishEnd
<1>2. /\ req[r].op \in {"drop", "reap"} /\ req[r].op # "free" /\ req[r].ready /\ req[r] \in ReqType
  BY DEF FinishEnd, IInv, Typed
<1>3. /\ seen \in [Cards -> RowType] /\ \A k \in Cards : seen[k] = row[k]
      /\ OpenOn(req[r].closing) \subseteq req[r].held
      /\ \A q \in Prompts : prompt[q] \in PromptType
  BY <1>2 DEF SerialInv, Serves, IInv, Typed, ReqType
<1>4. ASSUME NEW c \in Cards
      PROVE  /\ IsOpen(new(last)[c]) => /\ c \notin req[r].closing /\ IsOpen(row[c])
                                        /\ new(last)[c].dismissed = row[c].dismissed
             /\ c \notin req[r].closing => IsOpen(new(last)[c]) <=> IsOpen(row[c])
             /\ c \notin req[r].closing => new(last)[c] = row[c] \/ OpenOn({c}) \subseteq swept
  <2>1. CASE c \in req[r].closing
    BY <1>3, <2>1 DEF Ended, IsOpen, RowType
  <2>2. CASE c \notin req[r].closing
    <3>1. resumes(c) \/ last[c] = None
      BY <1>1
    <3>2. after(last, c) \in {"working", "waiting", "unchanged"}
      BY AfterClosingTyped
    <3> HIDE DEF after, resumes
    <3>3. new(last)[c] = IF last[c] = None THEN seen[c] ELSE Resumed(seen[c], after(last, c))
      BY <2>2
    <3> HIDE DEF new
    <3>4. new(last)[c] = row[c] \/ (new(last)[c] = Resumed(row[c], after(last, c)) /\ resumes(c))
      BY <1>3, <3>1, <3>3
    <3>5. row[c] \in RowType /\ (resumes(c) => OpenOn({c}) \subseteq swept)
      BY <1>3 DEF resumes
    <3>6. QED
      BY <2>2, <3>2, <3>4, <3>5, ResumedRow
  <2>3. QED
    BY <2>1, <2>2
<1>5. ASSUME NEW q \in Prompts, prompts[q].status = "open"
      PROVE  prompts[q] = prompt[q] /\ q \notin swept /\ prompt[q].card \notin req[r].closing
  <2>1. status(q) \in Statuses /\ status(q) # "open"
    BY DEF Statuses
  <2>2. q \notin orphans \cup swept /\ prompts[q] = prompt[q]
    BY <1>3, <1>5, <2>1, ClosedTyped
  <2>3. q \notin OpenOn(req[r].closing)
    BY <1>3, <2>2 DEF OpenOn
  <2>4. QED
    BY <1>5, <2>2, <2>3 DEF OpenOn
<1> HIDE DEF new, prompts
<1>6. \A q \in Prompts : prompts[q].status = "open" =>
         /\ prompts[q].card \in Cards
         /\ IsOpen(new(last)[prompts[q].card]) /\ new(last)[prompts[q].card].state = "waiting"
  <2> SUFFICES ASSUME NEW q \in Prompts, prompts[q].status = "open"
               PROVE  /\ prompts[q].card \in Cards
                      /\ IsOpen(new(last)[prompts[q].card]) /\ new(last)[prompts[q].card].state = "waiting"
    OBVIOUS
  <2>1. prompts[q] = prompt[q] /\ q \notin swept /\ prompt[q].card \notin req[r].closing
    BY <1>5
  <2>2. PICK c \in Cards : c = prompt[q].card /\ IsOpen(row[c]) /\ row[c].state = "waiting"
    BY <2>1 DEF SerialInv, AskedIsWaiting
  <2>3. q \in OpenOn({c})
    BY <2>1, <2>2 DEF OpenOn
  <2>4. new(last)[c] = row[c]
    BY <1>4, <2>1, <2>2, <2>3
  <2>5. QED
    BY <2>1, <2>2, <2>4
<1>7. /\ \A k, j \in Cards : IsOpen(new(last)[k]) /\ IsOpen(new(last)[j]) => k = j
      /\ \A k \in Cards : IsOpen(new(last)[k]) => ~new(last)[k].dismissed
  BY <1>4 DEF SerialInv, OneCardAtATime, OpenIsShown
<1>8. QED
  BY <1>1, <1>2, <1>6, <1>7, SerialCommit

\* A row is dismissed between requests, and one that has ended; a prompt that
\* is late is as open as before.
LEMMA SerialOutside ==
  ASSUME IInv, Alone, SerialInv,
         \/ \E r \in Requests, c \in Cards : Dismiss(r, c)
         \/ \E q \in Prompts : BecomesLate(q) \/ StopsPolling(q)
  PROVE  SerialInv'
<1>1. ASSUME NEW r \in Requests, NEW c \in Cards, Dismiss(r, c) PROVE SerialInv'
  <2>1. /\ UNCHANGED <<prompt, req>> /\ ~IsOpen(row[c])
        /\ row' = [row EXCEPT ![c].dismissed = TRUE] /\ req[r].op = "free"
    BY <1>1 DEF Dismiss, IsOpen
  <2>2. \A k \in Cards : /\ row'[k].state = row[k].state
                         /\ IsOpen(row'[k]) <=> IsOpen(row[k])
                         /\ k # c => row'[k] = row[k]
    BY <2>1 DEF IInv, Typed, RowType, IsOpen
  <2>3. \A s \in Requests : req'[s].op = "free"
    BY <2>1 DEF Alone
  <2>4. OneCardAtATime'
    BY <2>2 DEF SerialInv, OneCardAtATime
  <2>5. OpenIsShown'
    <3>1. \A k \in Cards : IsOpen(row'[k]) => row'[k].dismissed = row[k].dismissed /\ IsOpen(row[k])
      BY <2>1, <2>2
    <3>2. QED
      BY <3>1 DEF SerialInv, OpenIsShown
  <2>6. AskedIsWaiting'
    BY <2>1, <2>2 DEF SerialInv, AskedIsWaiting
  <2>7. QED
    BY <2>1, <2>3, <2>4, <2>5, <2>6 DEF SerialInv, Serves, Closing
<1>2. ASSUME NEW q \in Prompts, BecomesLate(q) \/ StopsPolling(q) PROVE SerialInv'
  <2>1. /\ UNCHANGED <<row, req>>
        /\ \A p \in Prompts : prompt'[p].status = prompt[p].status /\ prompt'[p].card = prompt[p].card
    BY <1>2 DEF BecomesLate, StopsPolling, IInv, Typed, PromptType
  <2>2. OneCardAtATime' /\ OpenIsShown' /\ AskedIsWaiting'
    BY <2>1 DEF SerialInv, OneCardAtATime, OpenIsShown, AskedIsWaiting
  <2>3. ASSUME NEW r \in Requests PROVE Serves(req[r])'
    <3>1. Serves(req[r]) /\ (req[r].op \in Closing => req[r].target \in Prompts)
      BY DEF SerialInv, IInv, Typed
    <3>2. \A cards : {p \in Prompts : prompt'[p].status = "open" /\ prompt'[p].card \in cards} = OpenOn(cards)
      BY <2>1 DEF OpenOn
    <3>3. QED
      BY <2>1, <3>1, <3>2 DEF Serves, OpenOn
  <2>4. QED
    BY <2>1, <2>2, <2>3 DEF SerialInv
<1>3. QED
  BY <1>1, <1>2

LEMMA SerialInit == Init => SerialInv
BY DEF Init, SerialInv, OneCardAtATime, OpenIsShown, AskedIsWaiting, Serves, Closing, IsOpen,
       NoRow, NoPrompt, Free

LEMMA SerialNext == IInv /\ Alone /\ SerialInv /\ [Next]_vars => SerialInv'
<1> SUFFICES ASSUME IInv, Alone, SerialInv, [Next]_vars PROVE SerialInv'
  OBVIOUS
<1>1. ASSUME NEW r \in Requests, BeginAny(r) \/ BeginEnd(r, "reap") \/ Abort(r)
      PROVE  SerialInv'
  BY <1>1, SerialBegins, SerialAbort
<1>2. ASSUME NEW r \in Requests, Continue(r)
      PROVE  SerialInv'
  BY <1>2, SerialLocks, SerialReport, SerialAsk, SerialClose, SerialEnd DEF Continue
<1>3. CASE UNCHANGED vars
  <2>1. OneCardAtATime' /\ OpenIsShown' /\ AskedIsWaiting'
    BY <1>3 DEF vars, SerialInv, OneCardAtATime, OpenIsShown, AskedIsWaiting
  <2>2. \A r \in Requests : Serves(req[r])'
    BY <1>3 DEF vars, SerialInv, Serves, OpenOn
  <2>3. QED
    BY <1>3, <2>1, <2>2 DEF vars, SerialInv
<1>4. QED
  BY <1>1, <1>2, <1>3, SerialOutside DEF Next

THEOREM SerialInvariant ==
  ASSUME Alone
  PROVE  Spec => []SerialInv
<1>1. IInv /\ SerialInv /\ [Next]_vars => SerialInv'
  BY SerialNext
<1>2. QED
  BY Invariant, SerialInit, <1>1, PTL DEF Spec

\* A conversation whose requests run one after another is open on one card at
\* a time: a report walks it off every other (agent_sessions.py, upsert).
THEOREM OneCard ==
  ASSUME Alone
  PROVE  Spec => []OneCardAtATime
<1>1. SerialInv => OneCardAtATime
  BY DEF SerialInv
<1>2. QED
  BY SerialInvariant, <1>1, PTL

\* Such a conversation, while it is open, is shown: a report takes back what a
\* person dismissed (agent_sessions.py, upsert).
THEOREM OpenShown ==
  ASSUME Alone
  PROVE  Spec => []OpenIsShown
<1>1. SerialInv => OpenIsShown
  BY DEF SerialInv
<1>2. QED
  BY SerialInvariant, <1>1, PTL

\* And nobody is asked on behalf of a row that has ended, or that is not
\* waiting: whoever ends a row, or takes it back to work, closes its prompts
\* (settling.py).
THEOREM AskedWaiting ==
  ASSUME Alone
  PROVE  Spec => []AskedIsWaiting
<1>1. SerialInv => AskedIsWaiting
  BY DEF SerialInv
<1>2. QED
  BY SerialInvariant, <1>1, PTL
=============================================================================
