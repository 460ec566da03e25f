----------------------------- MODULE LiveBoard -----------------------------
(***************************************************************************)
(* How a committed change reaches an open board.  The process that commits *)
(* it tells its own watchers, and every other process over a line of its   *)
(* own to the database; each process nudges the browsers and wakes the     *)
(* long polls it holds; and a browser reads again whatever a nudge names.  *)
(* Nothing sent carries data, so anything may be lost that something later *)
(* makes good.  One project, one open prompt on it.                        *)
(***************************************************************************)
EXTENDS Naturals, Sequences, FiniteSets

CONSTANTS
    Processes, Browsers, Pollers,
    Shown,         \* the lists a page has open: no other is read
    Kinds,         \* the kinds of change made: see Touches
    BACKLOG,       \* _BACKLOG: events a process keeps for the line
    CHANGED_MAX,   \* the most things a nudge names
    MaxChanges,    \* bound: changes committed
    MaxFaults,     \* bound: lines lost, sends failed, sockets closed, crashes
    MaxHides       \* bound: tabs put in the background

ASSUME LiveBoardConstants ==
    /\ "nowhere" \notin Processes
    /\ Kinds \subseteq {"card", "hook", "prompt", "feed"}
    /\ Shown \subseteq {"cards", "hooks", "feed"}
    /\ BACKLOG \in Nat \ {0} /\ CHANGED_MAX \in Nat
    /\ {MaxChanges, MaxFaults, MaxHides} \subseteq Nat

VARIABLES
    made, faults, hides,  \* how much of each bound is spent
    prompt,    \* whether the prompt is still open
    untold,    \* <<process, kind>> committed, its event not yet published
    outgoing,  \* process -> events waiting for its line
    line,      \* process -> "first" until it first listens, then up or down
    incoming,  \* process -> events on their way to it
    lost,      \* kinds of event that never reached some process, and that no
               \* reconnection makes good
    browser,   \* browser -> its socket and what the page remembers
    watcher,   \* browser -> the nudges waiting in the process it watches
    wire,      \* browser -> what its socket carries
    view,      \* browser -> list -> whether what is shown is out of date
    fetch,     \* browser -> list -> how far a read of it has got
    poll       \* long poll -> how far it has got

server == <<prompt, untold, outgoing, line, incoming, lost>>
client == <<browser, watcher, wire, view, fetch>>
vars == <<made, faults, hides, server, client, poll>>

\* A nudge's hint: the kinds of thing it names, or Anything (null).
Anything == {"anything"}
Nothing == {}

\* The list a change leaves out of date.
Touches(k) == CASE k = "hook" -> "hooks" [] k = "feed" -> "feed" [] OTHER -> "cards"

\* What the nudge for an event names: a prompt's names nothing.
ChangedRef(k) == IF k = "prompt" THEN Anything ELSE {k}

\* keysToRefresh.
ListsOf(hint) ==
    IF hint = Anything THEN {"cards", "feed"}
    ELSE (IF "card" \in hint THEN {"cards", "feed"} ELSE {})
         \cup (IF "hook" \in hint THEN {"hooks"} ELSE {})

Down == [at |-> "nowhere", ready |-> FALSE]
Unasked == [step |-> "idle", at |-> "nowhere", woken |-> FALSE]
Unwatched == [changed |-> Nothing, feed |-> FALSE]

\* Every process listening, and every board open and up to date.
Init ==
    /\ made = 0 /\ faults = 0 /\ hides = 0
    /\ prompt = "open"
    /\ untold = {}
    /\ outgoing = [p \in Processes |-> << >>]
    /\ line = [p \in Processes |-> "up"]
    /\ incoming = [p \in Processes |-> {}]
    /\ lost = {}
    /\ browser \in [Browsers -> {[socket |-> [at |-> p, ready |-> TRUE], hidden |-> FALSE,
                                  missed |-> FALSE, pending |-> Nothing, timer |-> FALSE] :
                                     p \in Processes}]
    /\ watcher = [b \in Browsers |-> Unwatched]
    /\ wire = [b \in Browsers |-> << >>]
    /\ view = [b \in Browsers |-> [l \in Shown |-> "fresh"]]
    /\ fetch = [b \in Browsers |-> [l \in Shown |-> "none"]]
    /\ poll = [x \in Pollers |-> Unasked]

-----------------------------------------------------------------------------
(* A process's connections, and news for them.                             *)

Watching(b, p) == browser[b].socket.at = p

\* merge_changed.
Merge(first, second) ==
    LET joined == first \cup second IN
    IF Anything \in {first, second} \/ Cardinality(joined) > CHANGED_MAX THEN Anything ELSE joined

\* What an event adds to a watcher's nudges; the feed has one of its own.
Offered(w, k) ==
    IF k = "feed" THEN [w EXCEPT !.feed = TRUE]
    ELSE [w EXCEPT !.changed = IF @ = Nothing THEN ChangedRef(k) ELSE Merge(@, ChangedRef(k))]

\* Hub.publish: nudge everyone watching here, wake whoever waits here.
Nudge(p, k) ==
    /\ watcher' = [b \in Browsers |->
                     IF Watching(b, p) THEN Offered(watcher[b], k) ELSE watcher[b]]
    /\ poll' = [x \in Pollers |->
                  IF k = "prompt" /\ poll[x].at = p THEN [poll[x] EXCEPT !.woken = TRUE] ELSE poll[x]]

\* Hub.resync: ring every doorbell held here.
Resync(p) ==
    /\ watcher' = [b \in Browsers |->
                     IF Watching(b, p) THEN [watcher[b] EXCEPT !.changed = Anything] ELSE watcher[b]]
    /\ poll' = [x \in Pollers |->
                  IF poll[x].at = p THEN [poll[x] EXCEPT !.woken = TRUE] ELSE poll[x]]

\* A write commits; what is shown of it, and what is being read, is now old.
Change(p, k) ==
    /\ made < MaxChanges
    /\ k = "prompt" => prompt = "open"
    /\ <<p, k>> \notin untold
    /\ made' = made + 1
    /\ prompt' = IF k = "prompt" THEN "closed" ELSE prompt
    /\ untold' = untold \cup {<<p, k>>}
    /\ view' = [b \in Browsers |-> [l \in Shown |->
                   IF l = Touches(k) THEN "stale" ELSE view[b][l]]]
    /\ fetch' = [b \in Browsers |-> [l \in Shown |->
                   IF l = Touches(k) /\ fetch[b][l] = "fresh" THEN "stale" ELSE fetch[b][l]]]
    /\ UNCHANGED <<faults, hides, outgoing, line, incoming, lost, browser, watcher, wire, poll>>

\* A mutant: the event is queued whether or not there is room.
PublishUnbounded(p, k) ==
    /\ <<p, k>> \in untold
    /\ untold' = untold \ {<<p, k>>}
    /\ Nudge(p, k)
    /\ outgoing' = [outgoing EXCEPT ![p] = Append(@, k)]
    /\ UNCHANGED <<made, faults, hides, prompt, line, incoming, lost, browser, wire, view, fetch>>

\* The outbox is drained after the commit: this process is told at once, and
\* the event waits for the line, in place of the oldest when there is no room.
Publish(p, k) ==
    LET full == Len(outgoing[p]) = BACKLOG IN
    /\ <<p, k>> \in untold
    /\ untold' = untold \ {<<p, k>>}
    /\ Nudge(p, k)
    /\ outgoing' = [outgoing EXCEPT ![p] = Append(IF full THEN Tail(@) ELSE @, k)]
    /\ lost' = IF full THEN lost \cup {Head(outgoing[p])} ELSE lost
    /\ UNCHANGED <<made, faults, hides, prompt, line, incoming, browser, wire, view, fetch>>

-----------------------------------------------------------------------------
(* The line between processes.                                              *)

\* A mutant: a line that comes back only listens from there on.
ListenOnly(p) ==
    /\ line[p] # "up"
    /\ line' = [line EXCEPT ![p] = "up"]
    /\ UNCHANGED <<made, faults, hides, prompt, untold, outgoing, incoming, lost, client, poll>>

\* Listening; and, when it is not the first time, ringing what is held here.
Listen(p) ==
    /\ line[p] # "up"
    /\ line' = [line EXCEPT ![p] = "up"]
    /\ IF line[p] = "down" THEN Resync(p) ELSE UNCHANGED <<watcher, poll>>
    /\ UNCHANGED <<made, faults, hides, prompt, untold, outgoing, incoming, lost,
                   browser, wire, view, fetch>>

\* An attempt to connect that fails: the next one that succeeds resyncs.
FailToListen(p) ==
    /\ line[p] = "first"
    /\ line' = [line EXCEPT ![p] = "down"]
    /\ UNCHANGED <<made, faults, hides, prompt, untold, outgoing, incoming, lost, client, poll>>

LoseLine(p) ==
    /\ line[p] = "up" /\ faults < MaxFaults
    /\ faults' = faults + 1
    /\ line' = [line EXCEPT ![p] = "down"]
    /\ incoming' = [incoming EXCEPT ![p] = {}]
    /\ UNCHANGED <<made, hides, prompt, untold, outgoing, lost, client, poll>>

\* One event goes to every other process that listens.  One that has yet to
\* listen for the first time misses it for good.
Send(p) ==
    LET k == Head(outgoing[p])
        others == Processes \ {p}
    IN
    /\ line[p] = "up" /\ outgoing[p] # << >>
    /\ outgoing' = [outgoing EXCEPT ![p] = Tail(@)]
    /\ incoming' = [q \in Processes |->
                      IF q \in others /\ line[q] = "up" THEN incoming[q] \cup {k} ELSE incoming[q]]
    /\ lost' = IF \E q \in others : line[q] = "first" THEN lost \cup {k} ELSE lost
    /\ UNCHANGED <<made, faults, hides, prompt, untold, line, client, poll>>

\* The event has left the queue when the line is found to be gone.
FailToSend(p) ==
    /\ line[p] = "up" /\ outgoing[p] # << >> /\ faults < MaxFaults
    /\ faults' = faults + 1
    /\ line' = [line EXCEPT ![p] = "down"]
    /\ incoming' = [incoming EXCEPT ![p] = {}]
    /\ outgoing' = [outgoing EXCEPT ![p] = Tail(@)]
    /\ lost' = lost \cup {Head(outgoing[p])}
    /\ UNCHANGED <<made, hides, prompt, untold, client, poll>>

Hear(p, k) ==
    /\ k \in incoming[p]
    /\ incoming' = [incoming EXCEPT ![p] = @ \ {k}]
    /\ Nudge(p, k)
    /\ UNCHANGED <<made, faults, hides, prompt, untold, outgoing, line, lost,
                   browser, wire, view, fetch>>

-----------------------------------------------------------------------------
(* The browser.                                                             *)

\* The server says ready and registers the watcher.
Connect(b, p) ==
    /\ browser[b].socket = Down
    /\ browser' = [browser EXCEPT ![b].socket.at = p]
    /\ watcher' = [watcher EXCEPT ![b] = Unwatched]
    /\ wire' = [wire EXCEPT ![b] = <<[type |-> "ready", changed |-> Nothing]>>]
    /\ UNCHANGED <<made, faults, hides, server, view, fetch, poll>>

\* One nudge at a time is sent down the socket.
ForwardNudge(b) ==
    /\ browser[b].socket # Down /\ wire[b] = << >>
    /\ \/ /\ watcher[b].changed # Nothing
          /\ wire' = [wire EXCEPT ![b] =
                        <<[type |-> "board.changed", changed |-> watcher[b].changed]>>]
          /\ watcher' = [watcher EXCEPT ![b].changed = Nothing]
       \/ /\ watcher[b].feed
          /\ wire' = [wire EXCEPT ![b] = <<[type |-> "agent.feed", changed |-> Nothing]>>]
          /\ watcher' = [watcher EXCEPT ![b].feed = FALSE]
    /\ UNCHANGED <<made, faults, hides, server, browser, view, fetch, poll>>

\* refresh: remember what was named, and read it when the burst is over, or
\* when somebody is looking.
Refreshed(page, hint) ==
    [page EXCEPT !.pending = IF Anything \in {@, hint} THEN Anything ELSE @ \cup hint,
                 !.missed = @ \/ page.hidden,
                 !.timer = @ \/ ~ page.hidden]

\* invalidateQueries: a read under way is given up, and begun again.
Invalidated(b, lists) ==
    [fetch EXCEPT ![b] = [l \in Shown |-> IF l \in lists THEN "asked" ELSE @[l]]]

Receive(b) ==
    LET message == Head(wire[b])
        page == browser[b]
    IN
    /\ wire[b] # << >>
    /\ wire' = [wire EXCEPT ![b] = Tail(@)]
    /\ CASE message.type = "ready" ->
              /\ browser' = [browser EXCEPT ![b] =
                               [Refreshed(page, Anything) EXCEPT !.socket.ready = TRUE]]
              /\ UNCHANGED fetch
         [] message.type = "board.changed" ->
              /\ browser' = [browser EXCEPT ![b] = Refreshed(page, message.changed)]
              /\ UNCHANGED fetch
         [] message.type = "agent.feed" ->
              IF page.hidden
              THEN browser' = [browser EXCEPT ![b].missed = TRUE] /\ UNCHANGED fetch
              ELSE fetch' = Invalidated(b, {"feed"}) /\ UNCHANGED browser
    /\ UNCHANGED <<made, faults, hides, server, watcher, view, poll>>

\* settle: with nothing named, anything may have changed.
Settle(b, page) ==
    /\ browser' = [browser EXCEPT ![b] = [page EXCEPT !.pending = Nothing]]
    /\ fetch' = Invalidated(b, ListsOf(IF page.pending = Nothing THEN Anything ELSE page.pending))

Debounced(b) ==
    /\ browser[b].timer
    /\ Settle(b, [browser[b] EXCEPT !.timer = FALSE])
    /\ UNCHANGED <<made, faults, hides, server, watcher, wire, view, poll>>

Hide(b) ==
    /\ ~ browser[b].hidden /\ hides < MaxHides
    /\ hides' = hides + 1
    /\ browser' = [browser EXCEPT ![b].hidden = TRUE]
    /\ UNCHANGED <<made, faults, server, watcher, wire, view, fetch, poll>>

\* The tab comes back: what it missed is read.
Show(b) ==
    LET page == [browser[b] EXCEPT !.hidden = FALSE] IN
    /\ browser[b].hidden
    /\ IF page.missed
       THEN Settle(b, [page EXCEPT !.missed = FALSE])
       ELSE browser' = [browser EXCEPT ![b] = page] /\ UNCHANGED fetch
    /\ UNCHANGED <<made, faults, hides, server, watcher, wire, view, poll>>

\* While there is no socket a board in view asks for its cards.
PollBoard(b) ==
    /\ ~ browser[b].socket.ready /\ ~ browser[b].hidden
    /\ "cards" \in Shown /\ fetch[b]["cards"] = "none"
    /\ fetch' = Invalidated(b, {"cards"})
    /\ UNCHANGED <<made, faults, hides, server, browser, watcher, wire, view, poll>>

\* The server reads the list, and what it read is shown when it arrives.
ReadList(b, l) ==
    /\ fetch[b][l] = "asked"
    /\ fetch' = [fetch EXCEPT ![b][l] = "fresh"]
    /\ UNCHANGED <<made, faults, hides, server, browser, watcher, wire, view, poll>>

ShowList(b, l) ==
    /\ fetch[b][l] \in {"fresh", "stale"}
    /\ view' = [view EXCEPT ![b][l] = fetch[b][l]]
    /\ fetch' = [fetch EXCEPT ![b][l] = "none"]
    /\ UNCHANGED <<made, faults, hides, server, browser, watcher, wire, poll>>

Disconnected(page) == [page EXCEPT !.socket = Down]

LoseSocket(b) ==
    /\ browser[b].socket # Down /\ faults < MaxFaults
    /\ faults' = faults + 1
    /\ browser' = [browser EXCEPT ![b] = Disconnected(@)]
    /\ watcher' = [watcher EXCEPT ![b] = Unwatched]
    /\ wire' = [wire EXCEPT ![b] = << >>]
    /\ UNCHANGED <<made, hides, server, view, fetch, poll>>

-----------------------------------------------------------------------------
(* Long polls, and a process dying under everyone.                          *)

\* The waiter is registered, and then the prompt is read; still open, the
\* transaction ends before the wait begins.
Look(x, p) ==
    /\ poll[x].step = "idle" /\ prompt = "open"
    /\ poll' = [poll EXCEPT ![x] = [step |-> "looked", at |-> p, woken |-> FALSE]]
    /\ UNCHANGED <<made, faults, hides, server, client>>

\* A mutant: the wait is for what comes once it has begun.
AwaitNext(x) ==
    /\ poll[x].step = "looked"
    /\ poll' = [poll EXCEPT ![x].step = "waiting", ![x].woken = FALSE]
    /\ UNCHANGED <<made, faults, hides, server, client>>

Await(x) ==
    /\ poll[x].step = "looked"
    /\ poll' = [poll EXCEPT ![x].step = "waiting"]
    /\ UNCHANGED <<made, faults, hides, server, client>>

\* Woken, it looks once more, and answers with what it finds; of a prompt
\* still open the caller asks again.
Wake(x) ==
    /\ poll[x].step = "waiting" /\ poll[x].woken
    /\ poll' = [poll EXCEPT ![x] = Unasked]
    /\ UNCHANGED <<made, faults, hides, server, client>>

\* The wait runs out, which does as well.
PollTimesOut(x) ==
    /\ poll[x].step = "waiting"
    /\ poll' = [poll EXCEPT ![x] = Unasked]
    /\ UNCHANGED <<made, faults, hides, server, client>>

\* A process dies and starts again: nobody else hears what it had not sent.
Crash(p) ==
    /\ faults < MaxFaults
    /\ faults' = faults + 1
    /\ lost' = lost \cup {e[2] : e \in {u \in untold : u[1] = p}}
                    \cup {outgoing[p][i] : i \in DOMAIN outgoing[p]}
    /\ untold' = {u \in untold : u[1] # p}
    /\ outgoing' = [outgoing EXCEPT ![p] = << >>]
    /\ line' = [line EXCEPT ![p] = "first"]
    /\ incoming' = [incoming EXCEPT ![p] = {}]
    /\ browser' = [b \in Browsers |->
                     IF Watching(b, p) THEN Disconnected(browser[b]) ELSE browser[b]]
    /\ watcher' = [b \in Browsers |-> IF Watching(b, p) THEN Unwatched ELSE watcher[b]]
    /\ wire' = [b \in Browsers |-> IF Watching(b, p) THEN << >> ELSE wire[b]]
    /\ poll' = [x \in Pollers |-> IF poll[x].at = p THEN Unasked ELSE poll[x]]
    /\ UNCHANGED <<made, hides, prompt, view, fetch>>

-----------------------------------------------------------------------------
Next ==
    \/ \E p \in Processes :
          \/ \E k \in Kinds : Change(p, k) \/ Publish(p, k) \/ Hear(p, k)
          \/ Listen(p) \/ FailToListen(p) \/ LoseLine(p)
          \/ Send(p) \/ FailToSend(p) \/ Crash(p)
    \/ \E b \in Browsers :
          \/ \E p \in Processes : Connect(b, p)
          \/ ForwardNudge(b) \/ Receive(b) \/ Debounced(b)
          \/ Hide(b) \/ Show(b) \/ PollBoard(b) \/ LoseSocket(b)
          \/ \E l \in Shown : ReadList(b, l) \/ ShowList(b, l)
    \/ \E x \in Pollers :
          \/ \E p \in Processes : Look(x, p)
          \/ Await(x) \/ Wake(x) \/ PollTimesOut(x)

Spec == Init /\ [][Next]_vars

\* Whatever runs keeps running and what is down comes back: events are
\* published and carried, lines and sockets are opened again, reads arrive,
\* tabs are looked at again, and a long poll that has read its prompt waits.  Nothing is
\* said of changes, faults, the fallback poll, or the end of a long poll's wait.
Fairness ==
    /\ \A p \in Processes :
          /\ \A k \in Kinds : WF_vars(Publish(p, k)) /\ WF_vars(Hear(p, k))
          /\ WF_vars(Listen(p)) /\ WF_vars(Send(p))
    /\ \A b \in Browsers :
          /\ WF_vars(\E p \in Processes : Connect(b, p))
          /\ WF_vars(ForwardNudge(b)) /\ WF_vars(Receive(b)) /\ WF_vars(Debounced(b))
          /\ WF_vars(Show(b))
          /\ \A l \in Shown : WF_vars(ReadList(b, l)) /\ WF_vars(ShowList(b, l))
    /\ \A x \in Pollers : WF_vars(Await(x)) /\ WF_vars(Wake(x))

FairSpec == Spec /\ Fairness

-----------------------------------------------------------------------------
Hints == (SUBSET {"card", "hook"}) \cup {Anything}
Events == {"card", "hook", "prompt", "feed"}

TypeOK ==
    /\ made \in 0..MaxChanges /\ faults \in 0..MaxFaults /\ hides \in 0..MaxHides
    /\ prompt \in {"open", "closed"}
    /\ untold \subseteq Processes \X Events
    /\ \A p \in Processes : outgoing[p] \in Seq(Events) /\ Len(outgoing[p]) <= BACKLOG
    /\ line \in [Processes -> {"first", "up", "down"}]
    /\ incoming \in [Processes -> SUBSET Events]
    /\ lost \subseteq Events
    /\ browser \in [Browsers -> [socket : [at : Processes \cup {"nowhere"}, ready : BOOLEAN],
                                 hidden : BOOLEAN, missed : BOOLEAN, pending : Hints,
                                 timer : BOOLEAN]]
    /\ watcher \in [Browsers -> [changed : Hints, feed : BOOLEAN]]
    /\ \A b \in Browsers : wire[b] \in Seq([type : {"ready", "board.changed", "agent.feed"},
                                            changed : Hints])
    /\ view \in [Browsers -> [Shown -> {"fresh", "stale"}]]
    /\ fetch \in [Browsers -> [Shown -> {"none", "asked", "fresh", "stale"}]]
    /\ poll \in [Pollers -> [step : {"idle", "looked", "waiting"},
                             at : Processes \cup {"nowhere"}, woken : BOOLEAN]]

\* News of some change of these kinds that process p has yet to hear, or will
\* make good by ringing everything when its line is back.
OnItsWay(p, kinds) ==
    \/ \E q \in Processes, k \in kinds :
          <<q, k>> \in untold \/ (q # p /\ \E i \in DOMAIN outgoing[q] : outgoing[q][i] = k)
    \/ incoming[p] \cap kinds # {}
    \/ line[p] = "down"
    \/ lost \cap kinds # {}

CardKinds == {"card", "prompt"}
NamesCards(hint) == "cards" \in ListsOf(hint)

\* A board never shows old cards with nothing left that would make it read
\* them again: at every moment there is no socket, or a read is under way that
\* will return what is now there, or a nudge that covers the cards is waiting
\* somewhere between the commit and the page (hub.py, bus.py: everything
\* published is a doorbell, so a missed one is made good by ringing again).
\* Not so once an event about the cards is in `lost': from then on the page
\* waits for the next one, as "a dropped event costs a refetch" (hub.py) says.
OldCardsAreComing ==
    \A b \in Browsers : view[b]["cards"] = "stale" =>
        \/ browser[b].socket = Down
        \/ fetch[b]["cards"] \in {"asked", "fresh"}
        \/ browser[b].timer \/ browser[b].missed
        \/ \E i \in DOMAIN wire[b] :
              wire[b][i].type = "ready" \/ NamesCards(wire[b][i].changed)
        \/ NamesCards(watcher[b].changed)
        \/ OnItsWay(browser[b].socket.at, CardKinds)

\* A long poll whose prompt has closed is woken: it does not sit out its wait
\* because the close fell between its read and its wait (hub.py prompt_waiter).
\* Not so once the news of a prompt is in `lost'.
CloseWakesPolls ==
    \A x \in Pollers :
        poll[x].step = "waiting" /\ prompt = "closed"
            => poll[x].woken \/ OnItsWay(poll[x].at, {"prompt"})

\* A list of hooks that has changed is read again, as what a nudge or a missed
\* one stands for: "a burst is one nudge that names everything in it" (hub.py),
\* and of one that names nothing "a browser must then read everything"
\* (protocol.py).
HooksAreReadInTheEnd ==
    \A b \in Browsers :
        view[b]["hooks"] = "stale" ~> (view[b]["hooks"] = "fresh" \/ "hook" \in lost)
=============================================================================
