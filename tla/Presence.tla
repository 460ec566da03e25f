------------------------------ MODULE Presence ------------------------------
(***************************************************************************)
(* A permission on its way between the harness, the daemon of one session  *)
(* and the board.  Hooks wait in threads of the daemon; its main thread    *)
(* steps a machine and holds one socket to one of the server's processes,  *)
(* which it may lose and open again elsewhere; a person answers through    *)
(* any process.  A transaction of the server is one step here (module      *)
(* AgentSessions takes them apart), on the one card the session is on.     *)
(***************************************************************************)
EXTENDS Naturals, SequencesExt

CONSTANTS
    Prompts,      \* permissions the harness asks for, each by a hook of its own
    Answers,      \* answers a person may give
    Processes,    \* of the server
    None,
    Home,         \* the process its first socket reaches: any other would do as well
    MaxLinks,     \* bound: sockets the daemon opens
    MaxReports,   \* bound: what else the hooks say ...
    Reported,     \* bound: ... and the levels they say it of
    MaxFaults     \* bound: sockets that break of themselves

\* A report is of a session that waits for a permission, or of one that does
\* not: at work, or at its human's turn.
Levels == {"working", "permission"}

Links == 1 .. MaxLinks
Outcomes == Answers \cup {"withdrawn", "expired"}

ASSUME PresenceConstants ==
    /\ IsFiniteSet(Prompts) /\ Home \in Processes
    /\ None \notin Outcomes /\ None \notin Links
    /\ {MaxLinks, MaxReports, MaxFaults} \subseteq Nat /\ Reported \subseteq Levels
    /\ Answers \cap {"absent", "open", "withdrawn", "expired", "nothing"} = {}

VARIABLES
    hook,      \* prompt -> how far its hook has got, its inbox, and what it was told
    events,    \* what the daemon's threads have put for its main thread
    machine,   \* the socket it holds, the session's level, the prompts it asks
    link,      \* socket -> the server's end of it, its process, who has let go
    up,        \* socket -> frames the server has not read
    down,      \* socket -> outcomes the daemon has not read
    agent,     \* process -> the socket its hub holds for the session
    news,      \* process -> process -> events on their way over the bus
    row,       \* the session's row on the card
    prompt,    \* prompt -> its row, or absent
    reports,
    faults

daemon == <<hook, events, machine>>
server == <<agent, news, row, prompt>>
vars == <<daemon, link, up, down, server, reports, faults>>

Waiting(p) == hook[p].step \in {"begun", "waiting"} /\ hook[p].inbox = None
Live == machine.link # None
OpenPrompts == {p \in Prompts : prompt[p] = "open"}

-----------------------------------------------------------------------------
(* The hooks and the daemon's threads (daemon.py).                          *)

\* _ask expects an answer ...
Expect(p) ==
    /\ hook[p].step = "idle"
    /\ hook' = [hook EXCEPT ![p].step = "begun"]
    /\ UNCHANGED <<events, machine, link, up, down, server, reports, faults>>

\* ... and only then tells the main thread.
Ask(p) ==
    /\ hook[p].step = "begun"
    /\ hook' = [hook EXCEPT ![p].step = "waiting"]
    /\ events' = Append(events, [t |-> "ask", p |-> p])
    /\ UNCHANGED <<machine, link, up, down, server, reports, faults>>

Take(p) ==
    /\ hook[p].step = "waiting" /\ hook[p].inbox # None
    /\ hook' = [hook EXCEPT ![p] = [step |-> "done", inbox |-> None, told |-> hook[p].inbox]]
    /\ UNCHANGED <<events, machine, link, up, down, server, reports, faults>>

\* The hook hung up, or waited long enough: its poll found nothing, whatever
\* has come since.
GiveUp(p, why) ==
    /\ hook[p].step = "waiting"
    /\ hook' = [hook EXCEPT ![p] = [step |-> "done", inbox |-> None, told |-> "nothing"]]
    /\ events' = Append(events, [t |-> "drop", p |-> p, why |-> why])
    /\ UNCHANGED <<machine, link, up, down, server, reports, faults>>

\* A tool ran while a permission was up: whoever holds one is let go.
Ran ==
    /\ reports < MaxReports /\ \E p \in Prompts : hook[p].step \in {"begun", "waiting"}
    /\ hook' = [p \in Prompts |-> IF Waiting(p) THEN [hook[p] EXCEPT !.inbox = "withdrawn"] ELSE hook[p]]
    /\ events' = Append(events, [t |-> "ran"])
    /\ reports' = reports + 1
    /\ UNCHANGED <<machine, link, up, down, server, faults>>

Report(level) ==
    /\ reports < MaxReports
    /\ events' = Append(events, [t |-> "state", level |-> level])
    /\ reports' = reports + 1
    /\ UNCHANGED <<hook, machine, link, up, down, server, faults>>

-----------------------------------------------------------------------------
(* The machine's step for each event (machine.py).                          *)

LevelFrame(m) == [t |-> "level", level |-> m.level]
PromptFrames(m) == [i \in 1 .. Len(m.asking) |-> [t |-> "prompt", p |-> m.asking[i]]]
WithdrawFrame(p, why) == [t |-> "withdraw", p |-> p, why |-> why]

\* Its prompts are told apart by their ids: there is one to leave out, or none.
Without(m, p) == [m EXCEPT !.asking = RemoveFirst(@, p)]
Asking(m, p) == p \in ToSet(m.asking)
WorkingIfIdle(m) == IF m.asking = <<>> THEN [m EXCEPT !.level = "working"] ELSE m

\* The machine after an event, and the frames it sends if its link is live.
\* A report may be noted, with another note than the last, or say nothing new.
OnState(m, level, noted) ==
    [next |-> [m EXCEPT !.level = level],
     send |-> IF level = m.level /\ ~noted THEN <<>> ELSE <<[t |-> "level", level |-> level]>>]

\* A mutant: a prompt that was sent is not kept.
OnAskForgotten(m, p) ==
    LET next == [m EXCEPT !.level = "permission"] IN
    [next |-> next, send |-> <<LevelFrame(next), [t |-> "prompt", p |-> p]>>]

OnAsk(m, p) ==
    LET next == [m EXCEPT !.level = "permission", !.asking = Append(@, p)] IN
    [next |-> next, send |-> <<LevelFrame(next), [t |-> "prompt", p |-> p]>>]

OnDrop(m, p, why) ==
    LET left == Without(m, p) IN
    IF ~Asking(m, p) THEN [next |-> m, send |-> <<>>]
    ELSE [next |-> IF why = "terminal" THEN WorkingIfIdle(left) ELSE left,
          send |-> <<WithdrawFrame(p, why)>>]

OnRan(m) ==
    [next |-> IF m.asking = <<>> THEN m ELSE [m EXCEPT !.asking = <<>>, !.level = "working"],
     send |-> [i \in 1 .. Len(m.asking) |-> WithdrawFrame(m.asking[i], "terminal")]]

OnEvent(m, e, noted) ==
    CASE e.t = "state" -> OnState(m, e.level, noted)
      [] e.t = "ask"   -> OnAsk(m, e.p)
      [] e.t = "drop"  -> OnDrop(m, e.p, e.why)
      [] e.t = "ran"   -> OnRan(m)

Step(noted) ==
    LET result == OnEvent(machine, Head(events), noted) IN
    /\ events # <<>>
    /\ events' = Tail(events)
    /\ machine' = result.next
    /\ up' = IF Live THEN [up EXCEPT ![machine.link] = @ \o result.send] ELSE up
    /\ UNCHANGED <<hook, link, down, server, reports, faults>>

\* A mutant: what was sent before the link was lost is not sent again.
ConnectLevelOnly(c, a) ==
    /\ ~Live /\ link[c].state = "off" /\ \A d \in 1 .. c - 1 : link[d].state # "off"
    /\ c = 1 => a = Home
    /\ machine' = [machine EXCEPT !.link = c]
    /\ link' = [link EXCEPT ![c].state = "open", ![c].at = a]
    /\ up' = [up EXCEPT ![c] = <<LevelFrame(machine)>>]
    /\ UNCHANGED <<hook, events, down, server, reports, faults>>

\* The level, then the prompts it still holds.
Connect(c, a) ==
    /\ ~Live /\ link[c].state = "off" /\ \A d \in 1 .. c - 1 : link[d].state # "off"
    /\ c = 1 => a = Home
    /\ machine' = [machine EXCEPT !.link = c]
    /\ link' = [link EXCEPT ![c].state = "open", ![c].at = a]
    /\ up' = [up EXCEPT ![c] = <<LevelFrame(machine)>> \o PromptFrames(machine)]
    /\ UNCHANGED <<hook, events, down, server, reports, faults>>

\* The daemon finds its socket gone, because the server let go or for nothing.
LoseLink ==
    LET c == machine.link
        broken == link[c].state \notin {"ending", "closed"}
    IN
    /\ Live /\ (broken => faults < MaxFaults)
    /\ faults' = IF broken THEN faults + 1 ELSE faults
    /\ machine' = [machine EXCEPT !.link = None]
    /\ link' = [link EXCEPT ![c].cut = TRUE]
    /\ down' = [down EXCEPT ![c] = {}]
    /\ UNCHANGED <<hook, events, up, server, reports>>

\* An outcome goes to the hook that waits for it, and to the machine (_hear).
Hear(p, outcome) ==
    LET c == machine.link
        left == Without(machine, p)
    IN
    /\ Live /\ <<p, outcome>> \in down[c]
    /\ down' = [down EXCEPT ![c] = @ \ {<<p, outcome>>}]
    /\ hook' = IF Waiting(p) THEN [hook EXCEPT ![p].inbox = outcome] ELSE hook
    /\ machine' = IF Asking(machine, p) /\ outcome \in Answers THEN WorkingIfIdle(left) ELSE left
    /\ UNCHANGED <<events, link, up, server, reports, faults>>

-----------------------------------------------------------------------------
(* The hub and the bus.                                                     *)

Post(a, told) == [from \in Processes |-> [to \in Processes |->
                     IF from = a /\ to # a THEN news[from][to] \o told ELSE news[from][to]]]

\* Prompts closed through process a: its own hub hears at once, the others
\* over the bus.
Announce(a, closed) ==
    /\ down' = [c \in Links |-> IF c = agent[a] THEN down[c] \cup closed ELSE down[c]]
    /\ news' = Post(a, SetToSeq({[t |-> "closed", outcome |-> x] : x \in closed}))

\* register_agent, and the news of it.
Register(c) ==
    LET a == link[c].at IN
    /\ link[c].state = "open"
    /\ link' = [d \in Links |-> IF d = c THEN [link[d] EXCEPT !.state = "serving"]
                                ELSE IF d = agent[a] THEN [link[d] EXCEPT !.displaced = TRUE]
                                ELSE link[d]]
    /\ agent' = [agent EXCEPT ![a] = c]
    /\ news' = Post(a, <<[t |-> "connected", c |-> c]>>)
    /\ UNCHANGED <<daemon, up, down, row, prompt, reports, faults>>

HearNews(a, b) ==
    LET x == Head(news[a][b])
        c == agent[b]
        displaces == x.t = "connected" /\ c \notin {None, x.c}
    IN
    /\ news[a][b] # <<>>
    /\ news' = [news EXCEPT ![a][b] = Tail(@)]
    /\ agent' = IF displaces THEN [agent EXCEPT ![b] = None] ELSE agent
    /\ link' = IF displaces THEN [link EXCEPT ![c].displaced = TRUE] ELSE link
    /\ down' = IF x.t = "closed" /\ c # None THEN [down EXCEPT ![c] = @ \cup {x.outcome}] ELSE down
    /\ UNCHANGED <<daemon, up, row, prompt, reports, faults>>

-----------------------------------------------------------------------------
(* The server's handlers (routes.py, agent_prompts).                        *)

IsOpen == row \in Levels

\* A mutant: what closed while its lock was waited for is withdrawn as well.
WithdrawAllFound(a) ==
    /\ prompt' = [p \in Prompts |-> IF prompt[p] # "absent" THEN "withdrawn" ELSE prompt[p]]
    /\ Announce(a, {<<p, "withdrawn">> : p \in OpenPrompts})

\* Every open prompt is withdrawn, which says so through process a.
WithdrawAll(a) ==
    /\ prompt' = [p \in Prompts |-> IF prompt[p] = "open" THEN "withdrawn" ELSE prompt[p]]
    /\ Announce(a, {<<p, "withdrawn">> : p \in OpenPrompts})

\* One prompt closes, and the row goes back to work once nothing else waits.
Close(p, outcome, resumes, a) ==
    /\ prompt' = [prompt EXCEPT ![p] = outcome]
    /\ row' = IF resumes /\ row = "permission" /\ OpenPrompts = {p} THEN "working" ELSE row
    /\ Announce(a, {<<p, outcome>>})

\* settle_for_report: anything but "waiting for permission" ends a permission.
TakeLevel(c, level) ==
    /\ row' = level
    /\ IF IsOpen /\ level # "permission" THEN WithdrawAll(link[c].at)
       ELSE UNCHANGED <<prompt, down, news>>

\* open_permission: idempotent, and the reply to a closed one is its outcome.
TakePrompt(c, p) ==
    /\ UNCHANGED news
    /\ IF prompt[p] = "absent" /\ IsOpen
       THEN /\ prompt' = [prompt EXCEPT ![p] = "open"]
            /\ row' = "permission"
            /\ UNCHANGED down
       ELSE /\ UNCHANGED <<prompt, row>>
            /\ down' = [down EXCEPT ![c] = @ \cup
                          CASE prompt[p] = "absent" -> {<<p, "withdrawn">>}
                            [] prompt[p] = "open"   -> {}
                            [] OTHER                -> {<<p, prompt[p]>>}]

\* A mutant: why it was withdrawn is kept as its status.
TakeWithdrawWhy(c, p, why) ==
    IF prompt[p] = "open" THEN Close(p, why, why = "terminal", link[c].at)
    ELSE UNCHANGED <<prompt, row, down, news>>

\* withdraw: a prompt that has closed is left as it is.
TakeWithdraw(c, p, why) ==
    IF prompt[p] = "open"
    THEN Close(p, IF why = "expired" THEN "expired" ELSE "withdrawn", why = "terminal", link[c].at)
    ELSE UNCHANGED <<prompt, row, down, news>>

Serve(c) ==
    LET frame == Head(up[c]) IN
    /\ link[c].state = "serving" /\ ~link[c].displaced /\ up[c] # <<>>
    /\ up' = [up EXCEPT ![c] = Tail(@)]
    /\ \/ frame.t = "level" /\ TakeLevel(c, frame.level)
       \/ frame.t = "prompt" /\ TakePrompt(c, frame.p)
       \/ frame.t = "withdraw" /\ TakeWithdraw(c, frame.p, frame.why)
    /\ UNCHANGED <<daemon, link, agent, reports, faults>>

\* The server lets go of a socket: the daemon has, or a newer one displaced it
\* (which the next frame, or the next keepalive, finds), or for nothing.  A
\* displaced one leaves the row alone.
LetGo(c) ==
    LET broken == ~link[c].cut /\ ~link[c].displaced IN
    /\ link[c].state = "serving" /\ (broken => faults < MaxFaults)
    /\ faults' = IF broken THEN faults + 1 ELSE faults
    /\ link' = [link EXCEPT ![c].state = IF link[c].displaced THEN "closed" ELSE "ending"]
    /\ agent' = [a \in Processes |-> IF agent[a] = c THEN None ELSE agent[a]]
    /\ up' = [up EXCEPT ![c] = <<>>]
    /\ UNCHANGED <<daemon, down, news, row, prompt, reports>>

\* end_session: whichever row the session holds open, and its prompts.
EndRow(c) ==
    /\ link[c].state = "ending"
    /\ link' = [link EXCEPT ![c].state = "closed"]
    /\ IF IsOpen THEN row' = "done" /\ WithdrawAll(link[c].at)
       ELSE UNCHANGED <<row, prompt, down, news>>
    /\ UNCHANGED <<daemon, up, agent, reports, faults>>

\* A person answers, through any process.
Answer(p, k, a) ==
    /\ prompt[p] = "open"
    /\ Close(p, k, TRUE, a)
    /\ UNCHANGED <<daemon, link, up, agent, reports, faults>>

\* PERMISSION_WAIT is longer than the hook's own: it has stopped by then.
Expire(p, a) ==
    /\ prompt[p] = "open" /\ hook[p].step = "done"
    /\ Close(p, "expired", FALSE, a)
    /\ UNCHANGED <<daemon, link, up, agent, reports, faults>>

-----------------------------------------------------------------------------
Init ==
    /\ hook = [p \in Prompts |-> [step |-> "idle", inbox |-> None, told |-> None]]
    /\ events = <<>>
    /\ machine = [link |-> None, level |-> "working", asking |-> <<>>]
    /\ link = [c \in Links |-> [state |-> "off", at |-> None, displaced |-> FALSE, cut |-> FALSE]]
    /\ up = [c \in Links |-> <<>>]
    /\ down = [c \in Links |-> {}]
    /\ agent = [a \in Processes |-> None]
    /\ news = [a \in Processes |-> [b \in Processes |-> <<>>]]
    /\ row = "none"
    /\ prompt = [p \in Prompts |-> "absent"]
    /\ reports = 0 /\ faults = 0

Said ==
    \/ \E p \in Prompts : Expect(p) \/ GiveUp(p, "terminal") \/ GiveUp(p, "expired")
    \/ Ran \/ \E level \in Reported : Report(level)

Daemon ==
    \/ \E p \in Prompts : Ask(p) \/ Take(p) \/ \E x \in Outcomes : Hear(p, x)
    \/ \E noted \in BOOLEAN : Step(noted)

Server ==
    \/ \E c \in Links : Register(c) \/ Serve(c) \/ EndRow(c)
    \/ \E a, b \in Processes : HearNews(a, b)

Next ==
    \/ Said \/ Daemon \/ Server
    \/ \E c \in Links : LetGo(c) \/ \E a \in Processes : Connect(c, a)
    \/ LoseLink
    \/ \E p \in Prompts, a \in Processes : Expire(p, a) \/ \E k \in Answers : Answer(p, k, a)

Spec == Init /\ [][Next]_vars

\* Every thread and process gets its turn, an end that one side has let go of
\* is noticed by the other, and the daemon redials; hooks need not give up,
\* people need not answer, and nothing has to break.
Fairness ==
    /\ WF_vars(\E noted \in BOOLEAN : Step(noted))
    /\ \A p \in Prompts : WF_vars(Ask(p)) /\ WF_vars(Take(p))
                          /\ \A x \in Outcomes : WF_vars(Hear(p, x))
    /\ \A c \in Links : /\ WF_vars(Register(c)) /\ WF_vars(Serve(c)) /\ WF_vars(EndRow(c))
                        /\ WF_vars(LetGo(c) /\ faults' = faults)
                        /\ WF_vars(\E a \in Processes : Connect(c, a))
    /\ \A a, b \in Processes : WF_vars(HearNews(a, b))
    /\ WF_vars(LoseLink /\ faults' = faults)

FairSpec == Spec /\ Fairness

-----------------------------------------------------------------------------
(* Properties.                                                              *)

TypeOK ==
    /\ hook \in [Prompts -> [step : {"idle", "begun", "waiting", "done"},
                             inbox : Outcomes \cup {None},
                             told : Outcomes \cup {"nothing", None}]]
    /\ machine.link \in Links \cup {None} /\ machine.level \in Levels
    /\ machine.asking \in Seq(Prompts) /\ IsInjective(machine.asking)
    /\ link \in [Links -> [state : {"off", "open", "serving", "ending", "closed"},
                           at : Processes \cup {None}, displaced : BOOLEAN, cut : BOOLEAN]]
    /\ agent \in [Processes -> Links \cup {None}]
    /\ row \in Levels \cup {"none", "done"}
    /\ prompt \in [Prompts -> Outcomes \cup {"absent", "open"}]

\* A tool is allowed, or refused, as the card says it was: whatever sockets
\* were lost on the way, and whoever else answered (asking.py, store.py).
ToldIsRecorded == \A p \in Prompts : hook[p].told \in Answers => prompt[p] = hook[p].told

\* Nothing is on its way between the daemon and the server.
Quiet ==
    /\ events = <<>> /\ Live
    /\ LET c == machine.link IN
       /\ link[c].state = "serving" /\ ~link[c].displaced
       /\ up[c] = <<>> /\ down[c] = {}
    /\ \A a, b \in Processes : news[a][b] = <<>>

\* A hook that is left waiting waits for something a person can still answer:
\* no outcome is lost to it with the socket it was sent on.
WaitingCanBeAnswered ==
    Quiet => \A p \in Prompts : hook[p].step = "waiting" /\ Waiting(p) => prompt[p] = "open"

\* The bound on sockets has been reached, and the last of them is lost.
Exhausted == ~Live /\ \A c \in Links : link[c].state # "off"

\* An outcome recorded while its hook waits is heard by it, though no link
\* was live when it was (hub.py, _prompt_changed; asking.py, _resent).
OutcomeIsHeard ==
    \A p \in Prompts :
        hook[p].step = "waiting" /\ prompt[p] \in Outcomes ~> hook[p].step = "done" \/ Exhausted

=============================================================================
