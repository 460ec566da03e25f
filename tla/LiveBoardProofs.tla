--------------------------- MODULE LiveBoardProofs ---------------------------
(***************************************************************************)
(* LiveBoard, for any processes, browsers and polls and any backlog.  What *)
(* is due to a page or a poll is followed hand over hand, from the commit  *)
(* to the process that answers for it (OnItsWay) and from there to the     *)
(* page (Underway) or the poll: no step lets go of it before the next has  *)
(* it.                                                                     *)
(***************************************************************************)
EXTENDS LiveBoard, TLAPS

\* An element of a sequence.
Has(s, e) == \E i \in DOMAIN s : s[i] = e

\* What a browser, a watcher, a message and a long poll are.
PageType == [socket : [at : Processes \cup {"nowhere"}, ready : BOOLEAN],
             hidden : BOOLEAN, missed : BOOLEAN, pending : Hints, timer : BOOLEAN]
NudgeType == [changed : Hints, feed : BOOLEAN]
MessageType == [type : {"ready", "board.changed", "agent.feed"}, changed : Hints]
PollType == [step : {"idle", "looked", "waiting"}, at : Processes \cup {"nowhere"},
             woken : BOOLEAN]

ServerTyped ==
    /\ made \in 0..MaxChanges /\ faults \in 0..MaxFaults /\ hides \in 0..MaxHides
    /\ prompt \in {"open", "closed"}
    /\ untold \subseteq Processes \X Events
    /\ outgoing \in [Processes -> Seq(Events)]
    /\ \A p \in Processes : Len(outgoing[p]) <= BACKLOG
    /\ line \in [Processes -> {"first", "up", "down"}]
    /\ incoming \in [Processes -> SUBSET Events]
    /\ lost \subseteq Events

ClientTyped ==
    /\ browser \in [Browsers -> PageType]
    /\ watcher \in [Browsers -> NudgeType]
    /\ wire \in [Browsers -> Seq(MessageType)]
    /\ view \in [Browsers -> [Shown -> {"fresh", "stale"}]]
    /\ fetch \in [Browsers -> [Shown -> {"none", "asked", "fresh", "stale"}]]
    /\ poll \in [Pollers -> PollType]

\* Nothing comes down a socket that is not there, and the feed's own nudge
\* names nothing.
WiredAt(b) ==
    /\ browser[b].socket.at = "nowhere" => ~ browser[b].socket.ready /\ wire[b] = << >>
    /\ \A m \in MessageType : Has(wire[b], m) /\ m.type = "agent.feed" => m.changed = Nothing

\* The cards will be read: a read that is not old yet is under way, or what
\* will begin one has come as far as the page, the socket or the watcher.  A
\* page that only waits to read some other list does not count.
Says(m) == m.type = "ready" \/ NamesCards(m.changed)
Underway(b) ==
    \/ fetch[b]["cards"] \in {"asked", "fresh"}
    \/ (browser[b].timer \/ browser[b].missed) /\ NamesCards(browser[b].pending)
    \/ \E m \in MessageType : Has(wire[b], m) /\ Says(m)
    \/ NamesCards(watcher[b].changed)

\* So it is of cards shown that are old, and of a read that already is and is
\* still to be shown.
ComingAt(b) ==
    "cards" \in Shown /\ "stale" \in {view[b]["cards"], fetch[b]["cards"]} =>
        \/ browser[b].socket = Down
        \/ Underway(b)
        \/ OnItsWay(browser[b].socket.at, CardKinds)

\* A poll that has read its prompt is at a process, and of a close since its
\* read it has been told or will be, whether or not its wait has begun.
PollAt(x) ==
    poll[x].step # "idle" =>
        /\ poll[x].at # "nowhere"
        /\ prompt = "closed" => poll[x].woken \/ OnItsWay(poll[x].at, {"prompt"})

IInv ==
    /\ ServerTyped /\ ClientTyped
    /\ \A b \in Browsers : WiredAt(b) /\ ComingAt(b)
    /\ \A x \in Pollers : PollAt(x)

-----------------------------------------------------------------------------
(* Queues, hints, and what a nudge says.                                    *)

LEMMA QueueOps ==
  ASSUME NEW S, NEW s \in Seq(S), NEW e \in S
  PROVE  /\ Append(s, e) \in Seq(S) /\ Len(Append(s, e)) = Len(s) + 1
         /\ Has(Append(s, e), e)
         /\ \A x : Has(s, x) => Has(Append(s, e), x)
         /\ s # << >> => /\ Tail(s) \in Seq(S) /\ Len(Tail(s)) = Len(s) - 1
                         /\ Head(s) \in S
                         /\ \A x : Has(s, x) => x = Head(s) \/ Has(Tail(s), x)
<1>1. Append(s, e) \in Seq(S) /\ Len(Append(s, e)) = Len(s) + 1
  OBVIOUS
<1>2. Append(s, e)[Len(s) + 1] = e /\ Len(s) + 1 \in DOMAIN Append(s, e)
  OBVIOUS
<1>3. Has(Append(s, e), e)
  BY <1>2 DEF Has
<1>4. ASSUME NEW x, Has(s, x) PROVE Has(Append(s, e), x)
  <2>1. PICK i \in DOMAIN s : s[i] = x
    BY <1>4 DEF Has
  <2>2. i \in DOMAIN Append(s, e) /\ Append(s, e)[i] = x
    BY <2>1
  <2>3. QED
    BY <2>2 DEF Has
<1>5. ASSUME s # << >>
      PROVE  /\ Tail(s) \in Seq(S) /\ Len(Tail(s)) = Len(s) - 1
             /\ Head(s) \in S
  BY <1>5
<1>6. ASSUME s # << >>, NEW x, Has(s, x) PROVE x = Head(s) \/ Has(Tail(s), x)
  <2>1. PICK i \in DOMAIN s : s[i] = x
    BY <1>6 DEF Has
  <2>2. CASE i = 1
    BY <1>6, <2>1, <2>2
  <2>3. CASE i # 1
    <3>1. i - 1 \in DOMAIN Tail(s) /\ Tail(s)[i - 1] = x
      BY <1>6, <2>1, <2>3
    <3>2. QED
      BY <3>1 DEF Has
  <2>4. QED
    BY <2>2, <2>3
<1>7. QED
  BY <1>1, <1>3, <1>4, <1>5, <1>6

LEMMA NamingCards ==
  ASSUME NEW hint \in Hints
  PROVE  NamesCards(hint) <=> hint = Anything \/ "card" \in hint
BY DEF NamesCards, ListsOf, Hints, Anything

LEMMA HintsTyped ==
  /\ Nothing \in Hints /\ Anything \in Hints
  /\ NamesCards(Anything) /\ ~ NamesCards(Nothing)
  /\ \A k \in Events \ {"feed"} : ChangedRef(k) \in Hints
  /\ \A k \in CardKinds : NamesCards(ChangedRef(k))
<1>1. Nothing \in Hints /\ Anything \in Hints
  BY DEF Nothing, Hints, Anything
<1>2. Nothing # Anything
  BY DEF Nothing, Anything
<1>3. NamesCards(Anything) /\ ~ NamesCards(Nothing)
  BY <1>1, <1>2, NamingCards DEF Nothing
<1>4. ASSUME NEW k \in Events \ {"feed"} PROVE ChangedRef(k) \in Hints
  BY <1>4 DEF Events, ChangedRef, Hints, Anything
<1>5. ASSUME NEW k \in CardKinds PROVE NamesCards(ChangedRef(k))
  <2>1. CASE k = "prompt"
    BY <1>3, <2>1 DEF ChangedRef
  <2>2. CASE k = "card"
    <3>1. ChangedRef(k) = {"card"} /\ {"card"} \in Hints
      BY <2>2 DEF ChangedRef, Hints
    <3>2. QED
      BY <3>1, NamingCards
  <2>3. QED
    BY <2>1, <2>2 DEF CardKinds
<1>6. QED
  BY <1>1, <1>3, <1>4, <1>5

\* Two hints joined name whatever either named.
LEMMA MergeNames ==
  ASSUME NEW a \in Hints, NEW b \in Hints
  PROVE  /\ Merge(a, b) \in Hints
         /\ NamesCards(a) \/ NamesCards(b) => NamesCards(Merge(a, b))
<1>1. Merge(a, b) = Anything \/ (Merge(a, b) = a \cup b /\ a # Anything /\ b # Anything)
  BY DEF Merge
<1>2. CASE Merge(a, b) = Anything
  BY <1>2, HintsTyped
<1>3. CASE Merge(a, b) = a \cup b /\ a # Anything /\ b # Anything
  <2>1. a \in SUBSET {"card", "hook"} /\ b \in SUBSET {"card", "hook"}
    <3>1. \A c \in Hints : c # Anything => c \in SUBSET {"card", "hook"}
      BY DEF Hints
    <3>2. QED
      BY <1>3, <3>1
  <2>2. a \cup b \in Hints
    BY <2>1 DEF Hints
  <2>3. QED
    BY <1>3, <2>2, NamingCards
<1>4. QED
  BY <1>1, <1>2, <1>3

\* A watcher that is told of an event names it, and what it named before.
LEMMA OfferedNames ==
  ASSUME NEW w \in NudgeType, NEW k \in Events
  PROVE  /\ Offered(w, k) \in NudgeType
         /\ NamesCards(w.changed) \/ k \in CardKinds => NamesCards(Offered(w, k).changed)
<1>1. CASE k = "feed"
  BY <1>1 DEF Offered, NudgeType, CardKinds
<1>2. CASE k # "feed"
  <2> DEFINE m == IF w.changed = Nothing THEN ChangedRef(k) ELSE Merge(w.changed, ChangedRef(k))
  <2>1. w.changed \in Hints /\ ChangedRef(k) \in Hints
    BY <1>2, HintsTyped DEF NudgeType
  <2>2. ~ NamesCards(Nothing)
    BY HintsTyped
  <2>3. m \in Hints /\ (NamesCards(w.changed) \/ k \in CardKinds => NamesCards(m))
    BY <2>1, <2>2, MergeNames, HintsTyped
  <2> HIDE DEF m
  <2>4. Offered(w, k) = [w EXCEPT !.changed = m]
    BY <1>2 DEF Offered, m
  <2>5. Offered(w, k) \in NudgeType /\ Offered(w, k).changed = m
    BY <2>3, <2>4 DEF NudgeType
  <2>6. QED
    BY <2>3, <2>5
<1>3. QED
  BY <1>1, <1>2

\* Nothing rung is unsaid.
Keeps ==
    /\ watcher' \in [Browsers -> NudgeType] /\ poll' \in [Pollers -> PollType]
    /\ \A b \in Browsers : NamesCards(watcher[b].changed) => NamesCards(watcher'[b].changed)
    /\ \A x \in Pollers :
          /\ poll'[x].step = poll[x].step /\ poll'[x].at = poll[x].at
          /\ poll[x].woken => poll'[x].woken

\* Every page at this process is told of the cards, every poll of its prompt.
RingsCards(p) == \A b \in Browsers : Watching(b, p) => NamesCards(watcher'[b].changed)
RingsPrompt(p) == \A x \in Pollers : poll[x].at = p => poll'[x].woken

LEMMA SilenceKeeps ==
  ASSUME ClientTyped, UNCHANGED <<watcher, poll>>
  PROVE  Keeps
BY DEF ClientTyped, Keeps

LEMMA NudgeSays ==
  ASSUME ClientTyped, NEW p \in Processes, NEW k \in Events, Nudge(p, k)
  PROVE  /\ Keeps
         /\ k \in CardKinds => RingsCards(p)
         /\ k = "prompt" => RingsPrompt(p)
<1>1. watcher \in [Browsers -> NudgeType] /\ poll \in [Pollers -> PollType]
  BY DEF ClientTyped
<1>2. \A b \in Browsers :
         /\ watcher'[b] \in NudgeType
         /\ NamesCards(watcher[b].changed) => NamesCards(watcher'[b].changed)
         /\ Watching(b, p) /\ k \in CardKinds => NamesCards(watcher'[b].changed)
  <2>1. TAKE b \in Browsers
  <2>2. watcher'[b] = IF Watching(b, p) THEN Offered(watcher[b], k) ELSE watcher[b]
    BY DEF Nudge
  <2>3. watcher[b] \in NudgeType
    BY <1>1
  <2>4. QED
    BY <2>2, <2>3, OfferedNames
<1>3. watcher' \in [Browsers -> NudgeType]
  BY <1>2 DEF Nudge
<1>4. \A x \in Pollers :
         poll'[x] = IF k = "prompt" /\ poll[x].at = p THEN [poll[x] EXCEPT !.woken = TRUE]
                    ELSE poll[x]
  BY DEF Nudge
<1>5. poll' \in [Pollers -> PollType]
  BY <1>1, <1>4 DEF Nudge, PollType
<1>6. \A x \in Pollers :
             /\ poll'[x].step = poll[x].step /\ poll'[x].at = poll[x].at
             /\ poll[x].woken => poll'[x].woken
             /\ k = "prompt" => (poll[x].at = p => poll'[x].woken)
  BY <1>1, <1>4 DEF PollType
<1>7. QED
  BY <1>2, <1>3, <1>5, <1>6 DEF Keeps, RingsCards, RingsPrompt

LEMMA ResyncSays ==
  ASSUME ClientTyped, NEW p \in Processes, Resync(p)
  PROVE  Keeps /\ RingsCards(p) /\ RingsPrompt(p)
<1>1. watcher \in [Browsers -> NudgeType] /\ poll \in [Pollers -> PollType]
  BY DEF ClientTyped
<1>2. \A b \in Browsers :
         watcher'[b] = IF Watching(b, p) THEN [watcher[b] EXCEPT !.changed = Anything]
                       ELSE watcher[b]
  BY DEF Resync
<1>3. \A b \in Browsers :
         /\ watcher'[b] \in NudgeType
         /\ watcher'[b].changed = IF Watching(b, p) THEN Anything ELSE watcher[b].changed
  BY <1>1, <1>2, HintsTyped DEF NudgeType
<1>4. watcher' \in [Browsers -> NudgeType]
  BY <1>3 DEF Resync
<1>5. \A x \in Pollers :
         poll'[x] = IF poll[x].at = p THEN [poll[x] EXCEPT !.woken = TRUE] ELSE poll[x]
  BY DEF Resync
<1>6. poll' \in [Pollers -> PollType]
  BY <1>1, <1>5 DEF Resync, PollType
<1>7. \A x \in Pollers :
             /\ poll'[x].step = poll[x].step /\ poll'[x].at = poll[x].at
             /\ poll[x].woken => poll'[x].woken
             /\ poll[x].at = p => poll'[x].woken
  BY <1>1, <1>5 DEF PollType
<1>8. QED
  BY <1>3, <1>4, <1>6, <1>7, HintsTyped DEF Keeps, RingsCards, RingsPrompt

-----------------------------------------------------------------------------
(* The line between processes lets go of no news.                           *)

LEMMA NewsStays ==
  ASSUME NEW p, NEW K, UNCHANGED <<untold, outgoing, incoming, line, lost>>
  PROVE  OnItsWay(p, K)' <=> OnItsWay(p, K)
BY DEF OnItsWay

LEMMA PublishCarries ==
  ASSUME ServerTyped, NEW p \in Processes, NEW K \in SUBSET Events, OnItsWay(p, K),
         NEW q \in Processes, NEW k \in Events, Publish(q, k)
  PROVE  OnItsWay(p, K)' \/ (p = q /\ k \in K)
<1>1. /\ outgoing[q] \in Seq(Events) /\ Len(outgoing[q]) <= BACKLOG
      /\ outgoing \in [Processes -> Seq(Events)]
  BY DEF ServerTyped
<1>2. UNCHANGED <<incoming, line>> /\ lost \subseteq lost' /\ untold' = untold \ {<<q, k>>}
  BY DEF Publish
<1>3. /\ Has(outgoing'[q], k)
      /\ \A e : Has(outgoing[q], e) => Has(outgoing'[q], e) \/ e \in lost'
      /\ \A u \in Processes \ {q} : outgoing'[u] = outgoing[u]
  <2>1. CASE Len(outgoing[q]) = BACKLOG
    <3>1. outgoing[q] # << >> /\ outgoing'[q] = Append(Tail(outgoing[q]), k)
          /\ Head(outgoing[q]) \in lost'
      BY <1>1, <2>1, LiveBoardConstants DEF Publish
    <3>2. Tail(outgoing[q]) \in Seq(Events)
      BY <1>1, <3>1
    <3>3. QED
      BY <1>1, <3>1, <3>2, QueueOps DEF Publish
  <2>2. CASE Len(outgoing[q]) # BACKLOG
    <3>1. outgoing'[q] = Append(outgoing[q], k)
      BY <1>1, <2>2 DEF Publish
    <3>2. QED
      BY <1>1, <3>1, QueueOps DEF Publish
  <2>3. QED
    BY <2>1, <2>2
<1>4. CASE \E u \in Processes, e \in K : <<u, e>> \in untold
  <2>1. PICK u \in Processes, e \in K : <<u, e>> \in untold
    BY <1>4
  <2>2. CASE u = q /\ e = k
    BY <1>3, <2>1, <2>2 DEF OnItsWay, Has
  <2>3. CASE ~ (u = q /\ e = k)
    BY <1>2, <2>1, <2>3 DEF OnItsWay
  <2>4. QED
    BY <2>2, <2>3
<1>5. CASE \E u \in Processes, e \in K : u # p /\ Has(outgoing[u], e)
  <2>1. PICK u \in Processes, e \in K : u # p /\ Has(outgoing[u], e)
    BY <1>5
  <2>2. Has(outgoing'[u], e) \/ e \in lost'
    BY <1>3, <2>1
  <2>3. QED
    BY <2>1, <2>2 DEF OnItsWay, Has
<1>6. CASE incoming[p] \cap K # {} \/ line[p] = "down" \/ lost \cap K # {}
  BY <1>2, <1>6 DEF OnItsWay
<1>7. QED
  BY <1>4, <1>5, <1>6 DEF OnItsWay, Has

LEMMA HearCarries ==
  ASSUME ServerTyped, NEW p \in Processes, NEW K \in SUBSET Events, OnItsWay(p, K),
         NEW q \in Processes, NEW k \in Events, Hear(q, k)
  PROVE  OnItsWay(p, K)' \/ (p = q /\ k \in K)
<1>1. /\ incoming'[p] = IF p = q THEN incoming[p] \ {k} ELSE incoming[p]
      /\ UNCHANGED <<untold, outgoing, line, lost>>
  BY DEF Hear, ServerTyped
<1>2. QED
  BY <1>1 DEF OnItsWay

LEMMA ListenCarries ==
  ASSUME ServerTyped, NEW p \in Processes, NEW K \in SUBSET Events, OnItsWay(p, K),
         NEW q \in Processes, Listen(q)
  PROVE  OnItsWay(p, K)' \/ (p = q /\ line[q] = "down")
<1>1. /\ line'[p] = IF p = q THEN "up" ELSE line[p]
      /\ UNCHANGED <<untold, outgoing, incoming, lost>>
  BY DEF Listen, ServerTyped
<1>2. QED
  BY <1>1 DEF OnItsWay

LEMMA DownCarries ==
  ASSUME ServerTyped, NEW p \in Processes, NEW K \in SUBSET Events, OnItsWay(p, K),
         NEW q \in Processes, FailToListen(q) \/ LoseLine(q)
  PROVE  OnItsWay(p, K)'
<1>1. /\ line'[p] = IF p = q THEN "down" ELSE line[p]
      /\ p # q => incoming'[p] = incoming[p]
      /\ UNCHANGED <<untold, outgoing, lost>>
  BY DEF FailToListen, LoseLine, ServerTyped
<1>2. QED
  BY <1>1 DEF OnItsWay

LEMMA SendCarries ==
  ASSUME ServerTyped, NEW p \in Processes, NEW K \in SUBSET Events, OnItsWay(p, K),
         NEW q \in Processes, Send(q) \/ FailToSend(q)
  PROVE  OnItsWay(p, K)'
<1> DEFINE k == Head(outgoing[q])
<1>1. /\ outgoing[q] \in Seq(Events) /\ outgoing[q] # << >>
      /\ outgoing' = [outgoing EXCEPT ![q] = Tail(@)]
      /\ untold' = untold /\ lost \subseteq lost'
  BY DEF Send, FailToSend, ServerTyped
<1>2. /\ \A e : Has(outgoing[q], e) => e = k \/ Has(outgoing'[q], e)
      /\ \A u \in Processes \ {q} : outgoing'[u] = outgoing[u]
  <2>1. outgoing'[q] = Tail(outgoing[q])
    BY <1>1 DEF ServerTyped
  <2>2. k \in Events
    BY <1>1
  <2>3. QED
    BY <1>1, <2>1, <2>2, QueueOps DEF ServerTyped
<1>3. p # q => k \in incoming'[p] \/ line'[p] = "down" \/ k \in lost'
  BY DEF Send, FailToSend, ServerTyped
<1>4. \/ line'[p] = "down"
      \/ line'[p] = line[p] /\ incoming[p] \subseteq incoming'[p]
  BY DEF Send, FailToSend, ServerTyped
<1> HIDE DEF k
<1>5. CASE \E u \in Processes, e \in K : u # p /\ Has(outgoing[u], e)
  <2>1. PICK u \in Processes, e \in K : u # p /\ Has(outgoing[u], e)
    BY <1>5
  <2>2. (u = q /\ e = k) \/ Has(outgoing'[u], e)
    BY <1>2, <2>1
  <2>3. QED
    BY <1>3, <2>1, <2>2 DEF OnItsWay, Has
<1>6. CASE (\E u \in Processes, e \in K : <<u, e>> \in untold)
           \/ incoming[p] \cap K # {} \/ line[p] = "down" \/ lost \cap K # {}
  BY <1>1, <1>4, <1>6 DEF OnItsWay
<1>7. QED
  BY <1>5, <1>6 DEF OnItsWay, Has

LEMMA CrashCarries ==
  ASSUME ServerTyped, NEW p \in Processes, NEW K \in SUBSET Events, OnItsWay(p, K),
         NEW q \in Processes, p # q, Crash(q)
  PROVE  OnItsWay(p, K)'
<1>1. /\ line'[p] = line[p] /\ incoming'[p] = incoming[p] /\ lost \subseteq lost'
      /\ \A u \in Processes \ {q} : outgoing'[u] = outgoing[u]
      /\ \A e : Has(outgoing[q], e) => e \in lost'
      /\ \A e : <<q, e>> \in untold => e \in lost'
      /\ \A u \in Processes \ {q} : \A e : <<u, e>> \in untold => <<u, e>> \in untold'
  <2>1. /\ line'[p] = line[p] /\ incoming'[p] = incoming[p]
        /\ \A u \in Processes \ {q} : outgoing'[u] = outgoing[u]
    BY DEF Crash, ServerTyped
  <2>2. lost \subseteq lost' /\ \A e : Has(outgoing[q], e) => e \in lost'
    BY DEF Crash, Has
  <2>3. ASSUME NEW e, <<q, e>> \in untold PROVE e \in lost'
    <3>1. <<q, e>> \in {u \in untold : u[1] = q} /\ <<q, e>>[2] = e
      BY <2>3
    <3>2. e \in {d[2] : d \in {u \in untold : u[1] = q}}
      BY <3>1
    <3>3. QED
      BY <3>2 DEF Crash
  <2>4. ASSUME NEW u \in Processes \ {q}, NEW e, <<u, e>> \in untold PROVE <<u, e>> \in untold'
    BY <2>4 DEF Crash
  <2>5. QED
    BY <2>1, <2>2, <2>3, <2>4
<1>2. CASE \E u \in Processes, e \in K : <<u, e>> \in untold
  BY <1>1, <1>2 DEF OnItsWay
<1>3. CASE \E u \in Processes, e \in K : u # p /\ Has(outgoing[u], e)
  <2>1. PICK u \in Processes, e \in K : u # p /\ Has(outgoing[u], e)
    BY <1>3
  <2>2. Has(outgoing'[u], e) \/ e \in lost'
    BY <1>1, <2>1
  <2>3. QED
    BY <2>1, <2>2 DEF OnItsWay, Has
<1>4. CASE incoming[p] \cap K # {} \/ line[p] = "down" \/ lost \cap K # {}
  BY <1>1, <1>4 DEF OnItsWay
<1>5. QED
  BY <1>2, <1>3, <1>4 DEF OnItsWay, Has

-----------------------------------------------------------------------------
(* What the processes do keeps what is due to pages and polls.              *)

\* What a process was to hear of it will still hear, or it rings.
Carried ==
    \A p \in Processes :
        /\ OnItsWay(p, CardKinds) => OnItsWay(p, CardKinds)' \/ RingsCards(p)
        /\ OnItsWay(p, {"prompt"}) => OnItsWay(p, {"prompt"})' \/ RingsPrompt(p)

LEMMA BusKeeps ==
  ASSUME IInv, ServerTyped', Keeps, Carried, UNCHANGED <<prompt, browser, wire, view, fetch>>
  PROVE  IInv'
<1>1. ClientTyped'
  BY DEF IInv, ClientTyped, Keeps
<1>2. ASSUME NEW b \in Browsers PROVE WiredAt(b)' /\ ComingAt(b)'
  <2>1. WiredAt(b)'
    BY DEF IInv, WiredAt
  <2>2. PICK p \in Processes \cup {"nowhere"} : p = browser[b].socket.at
    BY DEF IInv, ClientTyped, PageType
  <2>3. Underway(b) => Underway(b)'
    BY DEF Underway, Keeps
  <2>4. p = "nowhere" => browser[b].socket = Down
    BY <2>2 DEF IInv, WiredAt, ClientTyped, PageType, Down
  <2>5. ASSUME p \in Processes, OnItsWay(p, CardKinds)
        PROVE  OnItsWay(p, CardKinds)' \/ Underway(b)'
    BY <2>2, <2>5 DEF Carried, RingsCards, Watching, Underway
  <2>6. OnItsWay(browser[b].socket.at, CardKinds) <=> OnItsWay(p, CardKinds)
    BY <2>2
  <2>7. OnItsWay(browser[b].socket.at, CardKinds)' <=> OnItsWay(p, CardKinds)'
    BY <2>2 DEF OnItsWay
  <2>8. ComingAt(b)
    BY DEF IInv
  <2>9. ComingAt(b)'
    BY <2>3, <2>4, <2>5, <2>6, <2>7, <2>8, <2>2 DEF ComingAt
  <2>10. QED
    BY <2>1, <2>9
<1>3. ASSUME NEW x \in Pollers PROVE PollAt(x)'
  <2>1. PICK p \in Processes \cup {"nowhere"} : p = poll[x].at
    BY DEF IInv, ClientTyped, PollType
  <2>2. poll'[x].at = p /\ poll'[x].step = poll[x].step /\ (poll[x].woken => poll'[x].woken)
    BY <2>1 DEF Keeps
  <2>3. ASSUME p \in Processes, OnItsWay(p, {"prompt"})
        PROVE  OnItsWay(p, {"prompt"})' \/ poll'[x].woken
    BY <2>1, <2>3 DEF Carried, RingsPrompt
  <2>4. OnItsWay(poll[x].at, {"prompt"})' <=> OnItsWay(p, {"prompt"})'
    BY <2>2 DEF OnItsWay
  <2>5. PollAt(x)
    BY DEF IInv
  <2>6. QED
    BY <2>1, <2>2, <2>3, <2>4, <2>5 DEF PollAt
<1>4. QED
  BY <1>1, <1>2, <1>3 DEF IInv

LEMMA FaultsStayBounded ==
  ASSUME faults \in 0..MaxFaults, faults < MaxFaults
  PROVE  faults + 1 \in 0..MaxFaults
<1>1. MaxFaults \in Nat
  BY LiveBoardConstants
<1>2. QED
  BY <1>1

LEMMA KindsOfNews == CardKinds \in SUBSET Events /\ {"prompt"} \in SUBSET Events /\ Kinds \subseteq Events
BY LiveBoardConstants DEF CardKinds, Events

LEMMA PublishKeeps ==
  ASSUME IInv, NEW q \in Processes, NEW k \in Kinds, Publish(q, k)
  PROVE  IInv'
<1>1. k \in Events
  BY KindsOfNews
<1>2. Keeps /\ (k \in CardKinds => RingsCards(q)) /\ (k = "prompt" => RingsPrompt(q))
  BY <1>1, NudgeSays DEF IInv, Publish
<1>3. Carried
  BY <1>1, <1>2, PublishCarries, KindsOfNews DEF Carried, IInv
<1>4. ServerTyped'
  <2>1. outgoing[q] \in Seq(Events) /\ Len(outgoing[q]) <= BACKLOG
    BY DEF IInv, ServerTyped
  <2>2. outgoing'[q] \in Seq(Events) /\ Len(outgoing'[q]) <= BACKLOG /\ lost' \subseteq Events
    <3>1. CASE Len(outgoing[q]) = BACKLOG
      <4>1. /\ outgoing[q] # << >> /\ outgoing'[q] = Append(Tail(outgoing[q]), k)
            /\ lost' = lost \cup {Head(outgoing[q])}
        BY <2>1, <3>1, LiveBoardConstants DEF Publish, IInv, ServerTyped
      <4>2. Tail(outgoing[q]) \in Seq(Events) /\ Len(Tail(outgoing[q])) = BACKLOG - 1
            /\ Head(outgoing[q]) \in Events
        BY <2>1, <3>1, <4>1
      <4>3. outgoing'[q] \in Seq(Events) /\ Len(outgoing'[q]) = Len(Tail(outgoing[q])) + 1
        BY <1>1, <4>1, <4>2
      <4>4. Len(outgoing'[q]) = BACKLOG
        BY <4>2, <4>3, LiveBoardConstants
      <4>5. QED
        BY <4>1, <4>2, <4>3, <4>4, LiveBoardConstants DEF IInv, ServerTyped
    <3>2. CASE Len(outgoing[q]) # BACKLOG
      <4>1. outgoing'[q] = Append(outgoing[q], k) /\ lost' = lost
        BY <2>1, <3>2 DEF Publish, IInv, ServerTyped
      <4>2. QED
        BY <1>1, <2>1, <3>2, <4>1, LiveBoardConstants DEF IInv, ServerTyped
    <3>3. QED
      BY <3>1, <3>2
  <2>3. \A p \in Processes \ {q} : outgoing'[p] = outgoing[p]
    BY DEF Publish, IInv, ServerTyped
  <2>4. outgoing' \in [Processes -> Seq(Events)]
    BY <2>2, <2>3 DEF Publish, IInv, ServerTyped
  <2>5. UNCHANGED <<made, faults, hides, prompt, line, incoming>> /\ untold' \subseteq untold
    BY DEF Publish
  <2>6. QED
    BY <2>2, <2>3, <2>4, <2>5 DEF IInv, ServerTyped
<1>5. QED
  BY <1>2, <1>3, <1>4, BusKeeps DEF Publish

LEMMA HearKeeps ==
  ASSUME IInv, NEW q \in Processes, NEW k \in Kinds, Hear(q, k)
  PROVE  IInv'
<1>1. k \in Events
  BY KindsOfNews
<1>2. Keeps /\ (k \in CardKinds => RingsCards(q)) /\ (k = "prompt" => RingsPrompt(q))
  BY <1>1, NudgeSays DEF IInv, Hear
<1>3. Carried
  BY <1>1, <1>2, HearCarries, KindsOfNews DEF Carried, IInv
<1>4. ServerTyped'
  BY DEF Hear, IInv, ServerTyped
<1>5. QED
  BY <1>2, <1>3, <1>4, BusKeeps DEF Hear

LEMMA LineKeeps ==
  ASSUME IInv, NEW q \in Processes,
         Listen(q) \/ FailToListen(q) \/ LoseLine(q) \/ Send(q) \/ FailToSend(q)
  PROVE  IInv'
<1>1. CASE Listen(q)
  <2>1. Keeps /\ (line[q] = "down" => RingsCards(q) /\ RingsPrompt(q))
    BY <1>1, ResyncSays, SilenceKeeps DEF Listen, IInv
  <2>2. Carried
    BY <1>1, <2>1, ListenCarries, KindsOfNews DEF Carried, IInv
  <2>3. ServerTyped'
    BY <1>1 DEF Listen, IInv, ServerTyped
  <2>4. QED
    BY <1>1, <2>1, <2>2, <2>3, BusKeeps DEF Listen
<1>2. CASE FailToListen(q) \/ LoseLine(q)
  <2>1. Keeps /\ UNCHANGED <<prompt, browser, wire, view, fetch>>
    BY <1>2, SilenceKeeps DEF FailToListen, LoseLine, IInv, client
  <2>2. Carried
    BY <1>2, DownCarries, KindsOfNews DEF Carried, IInv
  <2>3. ServerTyped'
    <3>1. faults' \in 0..MaxFaults
      BY <1>2, FaultsStayBounded DEF FailToListen, LoseLine, IInv, ServerTyped
    <3>2. /\ line' \in [Processes -> {"first", "up", "down"}]
          /\ incoming' \in [Processes -> SUBSET Events]
      BY <1>2 DEF FailToListen, LoseLine, IInv, ServerTyped
    <3>3. UNCHANGED <<made, hides, prompt, untold, outgoing, lost>>
      BY <1>2 DEF FailToListen, LoseLine
    <3>4. QED
      BY <3>1, <3>2, <3>3 DEF IInv, ServerTyped
  <2>4. QED
    BY <2>1, <2>2, <2>3, BusKeeps
<1>3. CASE Send(q) \/ FailToSend(q)
  <2>1. Keeps /\ UNCHANGED <<prompt, browser, wire, view, fetch>>
    BY <1>3, SilenceKeeps DEF Send, FailToSend, IInv, client
  <2>2. Carried
    BY <1>3, SendCarries, KindsOfNews DEF Carried, IInv
  <2>3. ServerTyped'
    <3>1. /\ outgoing[q] \in Seq(Events) /\ outgoing[q] # << >> /\ Len(outgoing[q]) <= BACKLOG
      BY <1>3 DEF Send, FailToSend, IInv, ServerTyped
    <3>2. Head(outgoing[q]) \in Events /\ Tail(outgoing[q]) \in Seq(Events)
          /\ Len(Tail(outgoing[q])) <= BACKLOG
      BY <3>1, LiveBoardConstants
    <3>3. /\ outgoing' = [outgoing EXCEPT ![q] = Tail(outgoing[q])]
          /\ lost' \subseteq lost \cup {Head(outgoing[q])}
          /\ untold' = untold /\ UNCHANGED <<made, hides, prompt>>
          /\ faults' \in 0..MaxFaults
      BY <1>3, FaultsStayBounded DEF Send, FailToSend, IInv, ServerTyped
    <3>4. /\ incoming' \in [Processes -> SUBSET Events]
          /\ line' \in [Processes -> {"first", "up", "down"}]
      <4>1. CASE Send(q)
        <5>1. incoming' \in [Processes -> SUBSET Events]
          BY <3>2, <4>1 DEF Send, IInv, ServerTyped
        <5>2. QED
          BY <4>1, <5>1 DEF Send, IInv, ServerTyped
      <4>2. CASE FailToSend(q)
        BY <4>2 DEF FailToSend, IInv, ServerTyped
      <4>3. QED
        BY <1>3, <4>1, <4>2
    <3>5. QED
      BY <3>2, <3>3, <3>4 DEF IInv, ServerTyped
  <2>4. QED
    BY <2>1, <2>2, <2>3, BusKeeps
<1>4. QED
  BY <1>1, <1>2, <1>3

\* A page whose socket is gone, and that is otherwise as it was.
LEMMA DisconnectedTyped ==
  ASSUME NEW pg \in PageType
  PROVE  Disconnected(pg) \in PageType /\ Disconnected(pg).socket = Down
<1>1. Down \in [at : Processes \cup {"nowhere"}, ready : BOOLEAN]
  BY DEF Down
<1> HIDE DEF Down
<1>2. QED
  BY <1>1 DEF Disconnected, PageType

LEMMA CrashKeeps ==
  ASSUME IInv, NEW q \in Processes, Crash(q)
  PROVE  IInv'
<1>1. ServerTyped'
  <2>1. faults' \in 0..MaxFaults
    BY FaultsStayBounded DEF Crash, IInv, ServerTyped
  <2>2. /\ line' \in [Processes -> {"first", "up", "down"}]
        /\ incoming' \in [Processes -> SUBSET Events]
        /\ UNCHANGED <<made, hides, prompt>> /\ untold' \subseteq untold
    BY DEF Crash, IInv, ServerTyped
  <2>3. lost' \subseteq Events
    <3>1. \A e \in untold : e[2] \in Events
      BY DEF IInv, ServerTyped
    <3>2. \A i \in DOMAIN outgoing[q] : outgoing[q][i] \in Events
      BY DEF IInv, ServerTyped
    <3>3. QED
      BY <3>1, <3>2 DEF Crash, IInv, ServerTyped
  <2>4. /\ outgoing' \in [Processes -> Seq(Events)]
        /\ \A p \in Processes : Len(outgoing'[p]) <= BACKLOG
    <3>1. << >> \in Seq(Events) /\ Len(<< >>) <= BACKLOG
      BY LiveBoardConstants
    <3>2. QED
      BY <3>1 DEF Crash, IInv, ServerTyped
  <2>5. QED
    BY <2>1, <2>2, <2>3, <2>4 DEF IInv, ServerTyped
<1>2. \A b \in Browsers :
         /\ browser'[b] = IF Watching(b, q) THEN Disconnected(browser[b]) ELSE browser[b]
         /\ watcher'[b] = IF Watching(b, q) THEN Unwatched ELSE watcher[b]
         /\ wire'[b] = IF Watching(b, q) THEN << >> ELSE wire[b]
  BY DEF Crash
<1>3. /\ UNCHANGED <<view, fetch, prompt>>
      /\ \A x \in Pollers : poll'[x] = IF poll[x].at = q THEN Unasked ELSE poll[x]
  BY DEF Crash
<1>4. Unwatched \in NudgeType /\ Unasked \in PollType /\ << >> \in Seq(MessageType)
  BY HintsTyped DEF Unwatched, Unasked, NudgeType, PollType
<1>5. ClientTyped'
  <2>1. \A b \in Browsers : browser'[b] \in PageType
    BY <1>2, DisconnectedTyped DEF IInv, ClientTyped
  <2>2. browser' \in [Browsers -> PageType]
    BY <2>1 DEF Crash
  <2>3. watcher' \in [Browsers -> NudgeType] /\ wire' \in [Browsers -> Seq(MessageType)]
    BY <1>4 DEF Crash, IInv, ClientTyped
  <2>4. poll' \in [Pollers -> PollType]
    BY <1>4 DEF Crash, IInv, ClientTyped
  <2>5. QED
    BY <1>3, <2>2, <2>3, <2>4 DEF IInv, ClientTyped
<1>6. ASSUME NEW b \in Browsers PROVE WiredAt(b)' /\ ComingAt(b)'
  <2>1. CASE Watching(b, q)
    <3>1. browser'[b].socket = Down /\ wire'[b] = << >>
      BY <1>2, <2>1, DisconnectedTyped DEF IInv, ClientTyped
    <3>2. QED
      BY <3>1 DEF WiredAt, ComingAt, Down, Has
  <2>2. CASE ~ Watching(b, q)
    <3>1. browser'[b] = browser[b] /\ watcher'[b] = watcher[b] /\ wire'[b] = wire[b]
      BY <1>2, <2>2
    <3>2. PICK p \in Processes \cup {"nowhere"} : p = browser[b].socket.at
      BY DEF IInv, ClientTyped, PageType
    <3>3. p = "nowhere" => browser[b].socket = Down
      BY <3>2 DEF IInv, WiredAt, ClientTyped, PageType, Down
    <3>4. p \in Processes /\ OnItsWay(p, CardKinds) => OnItsWay(p, CardKinds)'
      BY <2>2, <3>2, CrashCarries, KindsOfNews DEF IInv, Watching
    <3>5. /\ OnItsWay(browser[b].socket.at, CardKinds) <=> OnItsWay(p, CardKinds)
          /\ OnItsWay(browser[b].socket.at, CardKinds)' <=> OnItsWay(p, CardKinds)'
      BY <3>1, <3>2 DEF OnItsWay
    <3>6. Underway(b)' <=> Underway(b)
      BY <1>3, <3>1 DEF Underway
    <3>7. WiredAt(b) /\ ComingAt(b)
      BY DEF IInv
    <3>8. WiredAt(b)'
      BY <3>1, <3>7 DEF WiredAt
    <3>9. ComingAt(b)'
      BY <1>3, <3>1, <3>3, <3>4, <3>5, <3>6, <3>7, <3>2 DEF ComingAt
    <3>10. QED
      BY <3>8, <3>9
  <2>3. QED
    BY <2>1, <2>2
<1>7. ASSUME NEW x \in Pollers PROVE PollAt(x)'
  <2>1. CASE poll[x].at = q
    BY <1>3, <2>1 DEF PollAt, Unasked
  <2>2. CASE poll[x].at # q
    <3>1. PICK p \in Processes \cup {"nowhere"} : p = poll[x].at
      BY DEF IInv, ClientTyped, PollType
    <3>2. poll'[x] = poll[x] /\ PollAt(x)
      BY <1>3, <2>2 DEF IInv
    <3>3. p \in Processes /\ OnItsWay(p, {"prompt"}) => OnItsWay(p, {"prompt"})'
      BY <2>2, <3>1, CrashCarries, KindsOfNews DEF IInv
    <3>4. /\ OnItsWay(poll[x].at, {"prompt"}) <=> OnItsWay(p, {"prompt"})
          /\ OnItsWay(poll[x].at, {"prompt"})' <=> OnItsWay(p, {"prompt"})'
      BY <3>1, <3>2 DEF OnItsWay
    <3>5. QED
      BY <1>3, <3>1, <3>2, <3>3, <3>4 DEF PollAt
  <2>3. QED
    BY <2>1, <2>2
<1>8. QED
  BY <1>1, <1>5, <1>6, <1>7 DEF IInv

\* A change is news for every process at once.
LEMMA ChangeKeeps ==
  ASSUME IInv, NEW q \in Processes, NEW k \in Kinds, Change(q, k)
  PROVE  IInv'
<1>1. k \in Events /\ (Touches(k) = "cards" <=> k \in CardKinds)
  BY KindsOfNews DEF Touches, CardKinds, Events
<1>2. /\ untold' = untold \cup {<<q, k>>} /\ made' = made + 1
      /\ prompt' = IF k = "prompt" THEN "closed" ELSE prompt
      /\ UNCHANGED <<faults, hides, outgoing, line, incoming, lost, browser, watcher, wire, poll>>
  BY DEF Change
<1>3. \A b \in Browsers, l \in Shown :
         /\ l # Touches(k) => view'[b][l] = view[b][l] /\ fetch'[b][l] = fetch[b][l]
         /\ view'[b][l] \in {"fresh", "stale"}
         /\ fetch'[b][l] \in {"none", "asked", "fresh", "stale"}
  BY DEF Change, IInv, ClientTyped
<1>4. ServerTyped'
  <2>1. MaxChanges \in Nat
    BY LiveBoardConstants
  <2>2. made' \in 0..MaxChanges
    BY <1>2, <2>1 DEF Change, IInv, ServerTyped
  <2>3. untold' \subseteq Processes \X Events /\ prompt' \in {"open", "closed"}
    BY <1>1, <1>2 DEF IInv, ServerTyped
  <2>4. QED
    BY <1>2, <2>2, <2>3 DEF IInv, ServerTyped
<1>5. ClientTyped'
  BY <1>2, <1>3 DEF Change, IInv, ClientTyped
<1>6. \A p, K : /\ k \in K => OnItsWay(p, K)'
                /\ OnItsWay(p, K) => OnItsWay(p, K)'
  BY <1>2 DEF OnItsWay
<1>7. ASSUME NEW b \in Browsers PROVE WiredAt(b)' /\ ComingAt(b)'
  <2>1. PICK p : p = browser[b].socket.at
    OBVIOUS
  <2>2. /\ OnItsWay(browser[b].socket.at, CardKinds) <=> OnItsWay(p, CardKinds)
        /\ OnItsWay(browser[b].socket.at, CardKinds)' <=> OnItsWay(p, CardKinds)'
    BY <1>2, <2>1 DEF OnItsWay
  <2>3. WiredAt(b) /\ ComingAt(b)
    BY DEF IInv
  <2>4. WiredAt(b)'
    BY <1>2, <2>3 DEF WiredAt
  <2>5. CASE k \in CardKinds
    BY <1>6, <2>2, <2>4, <2>5 DEF ComingAt
  <2>6. CASE k \notin CardKinds
    <3>1. "cards" \in Shown => view'[b]["cards"] = view[b]["cards"]
                               /\ fetch'[b]["cards"] = fetch[b]["cards"]
      BY <1>1, <1>3, <2>6
    <3>2. "cards" \in Shown /\ Underway(b) => Underway(b)'
      BY <1>2, <3>1 DEF Underway
    <3>3. ComingAt(b)'
      BY <1>2, <1>6, <2>2, <2>3, <3>1, <3>2 DEF ComingAt
    <3>4. QED
      BY <2>4, <3>3
  <2>7. QED
    BY <2>5, <2>6
<1>8. ASSUME NEW x \in Pollers PROVE PollAt(x)'
  <2>1. PICK p : p = poll[x].at
    OBVIOUS
  <2>2. /\ OnItsWay(poll[x].at, {"prompt"}) <=> OnItsWay(p, {"prompt"})
        /\ OnItsWay(poll[x].at, {"prompt"})' <=> OnItsWay(p, {"prompt"})'
    BY <1>2, <2>1 DEF OnItsWay
  <2>3. PollAt(x)
    BY DEF IInv
  <2>4. QED
    BY <1>2, <1>6, <2>2, <2>3 DEF PollAt
<1>9. QED
  BY <1>4, <1>5, <1>7, <1>8 DEF IInv

-----------------------------------------------------------------------------
(* What a page does keeps what is due to it.                                *)

\* ComingAt, of a page, watcher, wire, view and fetch.
Awaited(pg, n, w, v, f) ==
    "cards" \in Shown /\ "stale" \in {v["cards"], f["cards"]} =>
        \/ pg.socket = Down
        \/ f["cards"] \in {"asked", "fresh"}
        \/ (pg.timer \/ pg.missed) /\ NamesCards(pg.pending)
        \/ \E m \in MessageType : Has(w, m) /\ Says(m)
        \/ NamesCards(n.changed)
        \/ OnItsWay(pg.socket.at, CardKinds)

\* WiredAt, likewise.
WellWired(pg, w) ==
    /\ pg.socket.at = "nowhere" => ~ pg.socket.ready /\ w = << >>
    /\ \A m \in MessageType : Has(w, m) /\ m.type = "agent.feed" => m.changed = Nothing

\* One page, and what is at either end of its socket, may change.
Moves(b, pg, n, w, v, f) ==
    /\ browser' = [browser EXCEPT ![b] = pg]
    /\ watcher' = [watcher EXCEPT ![b] = n]
    /\ wire' = [wire EXCEPT ![b] = w]
    /\ view' = [view EXCEPT ![b] = v]
    /\ fetch' = [fetch EXCEPT ![b] = f]

LEMMA NowAwaited ==
  ASSUME IInv, NEW b \in Browsers
  PROVE  /\ Awaited(browser[b], watcher[b], wire[b], view[b], fetch[b])
         /\ WellWired(browser[b], wire[b])
         /\ browser[b] \in PageType /\ watcher[b] \in NudgeType /\ wire[b] \in Seq(MessageType)
         /\ view[b] \in [Shown -> {"fresh", "stale"}]
         /\ fetch[b] \in [Shown -> {"none", "asked", "fresh", "stale"}]
BY DEF IInv, ClientTyped, ComingAt, Underway, WiredAt, Awaited, WellWired

LEMMA Unmoved ==
  ASSUME ClientTyped, NEW b \in Browsers
  PROVE  /\ browser = [browser EXCEPT ![b] = browser[b]]
         /\ watcher = [watcher EXCEPT ![b] = watcher[b]]
         /\ wire = [wire EXCEPT ![b] = wire[b]]
         /\ view = [view EXCEPT ![b] = view[b]]
         /\ fetch = [fetch EXCEPT ![b] = fetch[b]]
BY DEF ClientTyped

LEMMA PageKeeps ==
  ASSUME IInv, NEW b \in Browsers, NEW pg \in PageType, NEW n \in NudgeType,
         NEW w \in Seq(MessageType), NEW v \in [Shown -> {"fresh", "stale"}],
         NEW f \in [Shown -> {"none", "asked", "fresh", "stale"}],
         Moves(b, pg, n, w, v, f), UNCHANGED <<made, server, poll>>,
         faults' \in 0..MaxFaults, hides' \in 0..MaxHides,
         WellWired(pg, w), Awaited(pg, n, w, v, f)
  PROVE  IInv'
<1>1. UNCHANGED <<made, prompt, untold, outgoing, line, incoming, lost, poll>>
  BY DEF server
<1>2. ServerTyped'
  BY <1>1 DEF IInv, ServerTyped
<1>3. ClientTyped'
  BY <1>1 DEF IInv, ClientTyped, Moves
<1>4. \A p, K : OnItsWay(p, K)' <=> OnItsWay(p, K)
  BY <1>1, NewsStays
<1>5. ASSUME NEW c \in Browsers PROVE WiredAt(c)' /\ ComingAt(c)'
  <2>1. PICK p : p = browser'[c].socket.at
    OBVIOUS
  <2>2. OnItsWay(browser[c].socket.at, CardKinds)' <=> OnItsWay(p, CardKinds)
    BY <1>1, <2>1 DEF OnItsWay
  <2>3. CASE c = b
    <3>1. /\ browser'[b] = pg /\ watcher'[b] = n /\ wire'[b] = w /\ view'[b] = v
          /\ fetch'[b] = f
      BY DEF Moves, IInv, ClientTyped
    <3>2. WiredAt(b)'
      BY <3>1 DEF WiredAt, WellWired
    <3>3. ComingAt(b)'
      BY <2>1, <2>2, <2>3, <3>1 DEF ComingAt, Underway, Awaited
    <3>4. QED
      BY <2>3, <3>2, <3>3
  <2>4. CASE c # b
    <3>1. /\ browser'[c] = browser[c] /\ watcher'[c] = watcher[c] /\ wire'[c] = wire[c]
          /\ view'[c] = view[c] /\ fetch'[c] = fetch[c]
      BY <2>4 DEF Moves, IInv, ClientTyped
    <3>2. WiredAt(c) /\ ComingAt(c)
      BY DEF IInv
    <3>3. WiredAt(c)'
      BY <3>1, <3>2 DEF WiredAt
    <3>4. Underway(c)' <=> Underway(c)
      BY <3>1 DEF Underway
    <3>5. OnItsWay(browser[c].socket.at, CardKinds) <=> OnItsWay(p, CardKinds)
      BY <2>1, <3>1 DEF OnItsWay
    <3>6. ComingAt(c)'
      BY <2>2, <3>1, <3>2, <3>4, <3>5 DEF ComingAt
    <3>7. QED
      BY <3>3, <3>6
  <2>5. QED
    BY <2>3, <2>4
<1>6. ASSUME NEW x \in Pollers PROVE PollAt(x)'
  <2>1. PollAt(x)
    BY DEF IInv
  <2>2. OnItsWay(poll[x].at, {"prompt"})' <=> OnItsWay(poll[x].at, {"prompt"})
    BY <1>1 DEF OnItsWay
  <2>3. QED
    BY <1>1, <2>1, <2>2 DEF PollAt
<1>7. QED
  BY <1>2, <1>3, <1>5, <1>6 DEF IInv

LEMMA ConnectKeeps ==
  ASSUME IInv, NEW b \in Browsers, NEW p \in Processes, Connect(b, p)
  PROVE  IInv'
<1> DEFINE pg == [browser[b] EXCEPT !.socket.at = p]
           ready == [type |-> "ready", changed |-> Nothing]
           w == <<ready>>
<1>1. browser[b] \in PageType /\ browser[b].socket = Down
  BY NowAwaited DEF Connect
<1>2. pg \in PageType /\ pg.socket.at = p
  BY <1>1 DEF PageType
<1>3. ready \in MessageType /\ ready.type = "ready" /\ Unwatched \in NudgeType
  BY HintsTyped DEF MessageType, NudgeType, Unwatched
<1>4. Moves(b, pg, Unwatched, w, view[b], fetch[b]) /\ UNCHANGED <<made, faults, hides, server, poll>>
  BY Unmoved DEF Connect, Moves, IInv
<1> HIDE DEF pg, ready
<1>5. w \in Seq(MessageType) /\ w[1] = ready /\ DOMAIN w = {1}
  BY <1>3
<1>6. Has(w, ready) /\ \A m : Has(w, m) => m = ready
  BY <1>5 DEF Has
<1>7. WellWired(pg, w) /\ Awaited(pg, Unwatched, w, view[b], fetch[b])
  BY <1>2, <1>3, <1>6, LiveBoardConstants DEF WellWired, Awaited, Says
<1> HIDE DEF w
<1>8. faults' \in 0..MaxFaults /\ hides' \in 0..MaxHides
  BY <1>4 DEF IInv, ServerTyped
<1>9. QED
  BY <1>2, <1>3, <1>4, <1>5, <1>7, <1>8, NowAwaited, PageKeeps

\* What the watcher named is named on the wire, before it is forgotten here.
LEMMA ForwardKeeps ==
  ASSUME IInv, NEW b \in Browsers, ForwardNudge(b)
  PROVE  IInv'
<1>1. /\ browser[b].socket # Down /\ wire[b] = << >> /\ watcher[b] \in NudgeType
      /\ Awaited(browser[b], watcher[b], wire[b], view[b], fetch[b])
      /\ WellWired(browser[b], wire[b])
  BY NowAwaited DEF ForwardNudge
<1>2. browser[b].socket.at # "nowhere"
  BY <1>1, NowAwaited DEF WellWired, PageType, Down
<1>3. ASSUME NEW m \in MessageType, NEW n \in NudgeType,
             m.type = "agent.feed" => m.changed = Nothing,
             NamesCards(watcher[b].changed) => Says(m) \/ NamesCards(n.changed),
             wire' = [wire EXCEPT ![b] = <<m>>], watcher' = [watcher EXCEPT ![b] = n],
             UNCHANGED <<made, faults, hides, server, browser, view, fetch, poll>>
      PROVE  IInv'
  <2>1. PICK w \in Seq(MessageType) : w = <<m>>
    <3>1. <<m>> \in Seq(MessageType)
      OBVIOUS
    <3>2. QED
      BY <3>1, Zenon
  <2>2. Has(w, m) /\ (\A e : Has(w, e) => e = m) /\ \A e : ~ Has(wire[b], e)
    BY <1>1, <2>1 DEF Has
  <2>3. WellWired(browser[b], w)
    BY <1>2, <1>3, <2>2 DEF WellWired
  <2>4. Awaited(browser[b], n, w, view[b], fetch[b])
    BY <1>1, <1>3, <2>2 DEF Awaited
  <2>5. Moves(b, browser[b], n, w, view[b], fetch[b])
    BY <1>3, <2>1, Unmoved DEF Moves, IInv
  <2>6. faults' \in 0..MaxFaults /\ hides' \in 0..MaxHides
    BY <1>3 DEF IInv, ServerTyped
  <2>7. QED
    BY <1>3, <2>3, <2>4, <2>5, <2>6, NowAwaited, PageKeeps
<1>4. UNCHANGED <<made, faults, hides, server, browser, view, fetch, poll>>
  BY DEF ForwardNudge
<1>5. CASE /\ wire' = [wire EXCEPT ![b] =
                         <<[type |-> "board.changed", changed |-> watcher[b].changed]>>]
           /\ watcher' = [watcher EXCEPT ![b].changed = Nothing]
  <2> DEFINE m == [type |-> "board.changed", changed |-> watcher[b].changed]
             n == [watcher[b] EXCEPT !.changed = Nothing]
  <2>1. m \in MessageType /\ m.type = "board.changed" /\ m.changed = watcher[b].changed
    BY <1>1 DEF MessageType, NudgeType
  <2>2. n \in NudgeType
    BY <1>1, HintsTyped DEF NudgeType
  <2>3. wire' = [wire EXCEPT ![b] = <<m>>] /\ watcher' = [watcher EXCEPT ![b] = n]
    BY <1>5
  <2> HIDE DEF m, n
  <2>4. QED
    BY <1>3, <1>4, <2>1, <2>2, <2>3 DEF Says
<1>6. CASE /\ wire' = [wire EXCEPT ![b] = <<[type |-> "agent.feed", changed |-> Nothing]>>]
           /\ watcher' = [watcher EXCEPT ![b].feed = FALSE]
  <2> DEFINE m == [type |-> "agent.feed", changed |-> Nothing]
             n == [watcher[b] EXCEPT !.feed = FALSE]
  <2>1. m \in MessageType /\ m.type = "agent.feed" /\ m.changed = Nothing
    BY HintsTyped DEF MessageType
  <2>2. n \in NudgeType /\ n.changed = watcher[b].changed
    BY <1>1 DEF NudgeType
  <2>3. wire' = [wire EXCEPT ![b] = <<m>>] /\ watcher' = [watcher EXCEPT ![b] = n]
    BY <1>6
  <2> HIDE DEF m, n
  <2>4. QED
    BY <1>3, <1>4, <2>1, <2>2, <2>3
<1>7. QED
  BY <1>5, <1>6 DEF ForwardNudge

\* What a page remembers it will read, once it is looked at or the burst ends.
LEMMA RefreshedRemembers ==
  ASSUME NEW pg \in PageType, NEW hint \in Hints
  PROVE  /\ Refreshed(pg, hint) \in PageType /\ Refreshed(pg, hint).socket = pg.socket
         /\ Refreshed(pg, hint).timer \/ Refreshed(pg, hint).missed
         /\ NamesCards(hint) \/ NamesCards(pg.pending) => NamesCards(Refreshed(pg, hint).pending)
<1> DEFINE joined == IF Anything \in {pg.pending, hint} THEN Anything ELSE pg.pending \cup hint
<1>1. pg.pending \in Hints
  BY DEF PageType
<1>2. joined \in Hints /\ (NamesCards(hint) \/ NamesCards(pg.pending) => NamesCards(joined))
  <2>1. CASE Anything \in {pg.pending, hint}
    BY <2>1, HintsTyped
  <2>2. CASE Anything \notin {pg.pending, hint}
    <3>1. pg.pending \in SUBSET {"card", "hook"} /\ hint \in SUBSET {"card", "hook"}
      BY <1>1, <2>2 DEF Hints
    <3>2. joined = pg.pending \cup hint /\ joined \in Hints
      BY <2>2, <3>1 DEF Hints
    <3>3. QED
      BY <1>1, <2>2, <3>2, NamingCards
  <2>3. QED
    BY <2>1, <2>2
<1> HIDE DEF joined
<1>3. Refreshed(pg, hint) = [pg EXCEPT !.pending = joined, !.missed = @ \/ pg.hidden,
                                       !.timer = @ \/ ~ pg.hidden]
  BY DEF Refreshed, joined
<1>4. /\ Refreshed(pg, hint) \in PageType /\ Refreshed(pg, hint).socket = pg.socket
      /\ Refreshed(pg, hint).pending = joined
  BY <1>2, <1>3 DEF PageType
<1>5. pg.hidden \in BOOLEAN /\ pg.timer \in BOOLEAN /\ pg.missed \in BOOLEAN
  BY DEF PageType
<1>6. Refreshed(pg, hint).timer = (pg.timer \/ ~ pg.hidden)
      /\ Refreshed(pg, hint).missed = (pg.missed \/ pg.hidden)
  BY <1>3, <1>5 DEF PageType
<1>7. QED
  BY <1>2, <1>4, <1>5, <1>6

\* The reads under way when these lists have been given up and asked for anew.
Reads(b, lists) == [l \in Shown |-> IF l \in lists THEN "asked" ELSE fetch[b][l]]

LEMMA InvalidatedReads ==
  ASSUME IInv, NEW b \in Browsers, NEW lists
  PROVE  /\ Invalidated(b, lists) = [fetch EXCEPT ![b] = Reads(b, lists)]
         /\ Reads(b, lists) \in [Shown -> {"none", "asked", "fresh", "stale"}]
         /\ \A l \in Shown :
               Reads(b, lists)[l] = IF l \in lists THEN "asked" ELSE fetch[b][l]
BY NowAwaited DEF Invalidated, Reads

LEMMA ReceiveKeeps ==
  ASSUME IInv, NEW b \in Browsers, Receive(b)
  PROVE  IInv'
<1>1. PICK pg : pg = browser[b]
  OBVIOUS
<1>2. PICK w : w = wire[b]
  OBVIOUS
<1>3. PICK m : m = Head(w)
  OBVIOUS
<1>4. /\ pg \in PageType /\ w \in Seq(MessageType) /\ w # << >>
      /\ Awaited(pg, watcher[b], w, view[b], fetch[b]) /\ WellWired(pg, w)
      /\ wire' = [wire EXCEPT ![b] = Tail(w)]
      /\ UNCHANGED <<made, faults, hides, server, watcher, view, poll>>
  BY <1>1, <1>2, NowAwaited DEF Receive
<1>5. /\ m \in MessageType /\ Tail(w) \in Seq(MessageType)
      /\ \A e : Has(w, e) => e = m \/ Has(Tail(w), e)
      /\ Has(w, m) /\ \A e : Has(Tail(w), e) => Has(w, e)
  <2>1. m \in MessageType /\ Tail(w) \in Seq(MessageType) /\ w[1] = m /\ 1 \in DOMAIN w
    BY <1>3, <1>4
  <2>2. \A e : Has(w, e) => e = m \/ Has(Tail(w), e)
    BY <1>3, <1>4, <2>1, QueueOps
  <2>3. ASSUME NEW e, Has(Tail(w), e) PROVE Has(w, e)
    <3>1. PICK i \in DOMAIN Tail(w) : Tail(w)[i] = e
      BY <2>3 DEF Has
    <3>2. i + 1 \in DOMAIN w /\ w[i + 1] = e
      BY <1>4, <3>1
    <3>3. QED
      BY <3>2 DEF Has
  <2>4. QED
    BY <2>1, <2>2, <2>3 DEF Has
<1>6. pg.socket.at # "nowhere"
  BY <1>4 DEF WellWired
<1>7. ASSUME NEW q \in PageType, NEW f \in [Shown -> {"none", "asked", "fresh", "stale"}],
             browser' = [browser EXCEPT ![b] = q], fetch' = [fetch EXCEPT ![b] = f],
             q.socket.at = pg.socket.at, Awaited(q, watcher[b], Tail(w), view[b], f)
      PROVE  IInv'
  <2>1. Moves(b, q, watcher[b], Tail(w), view[b], f)
    BY <1>4, <1>7, Unmoved DEF Moves, IInv
  <2>2. WellWired(q, Tail(w))
    BY <1>4, <1>5, <1>6, <1>7 DEF WellWired
  <2>3. faults' \in 0..MaxFaults /\ hides' \in 0..MaxHides
    BY <1>4 DEF IInv, ServerTyped
  <2>4. QED
    BY <1>4, <1>5, <1>7, <2>1, <2>2, <2>3, NowAwaited, PageKeeps
<1>8. CASE m.type = "ready"
  <2> DEFINE q == [Refreshed(pg, Anything) EXCEPT !.socket.ready = TRUE]
  <2>1. PICK r : r = Refreshed(pg, Anything)
    OBVIOUS
  <2>2. r \in PageType /\ r.socket = pg.socket /\ (r.timer \/ r.missed) /\ NamesCards(r.pending)
    BY <1>4, <2>1, RefreshedRemembers, HintsTyped
  <2>3. q = [r EXCEPT !.socket.ready = TRUE]
    BY <2>1
  <2>4. /\ q \in PageType /\ q.socket.at = pg.socket.at /\ q.timer = r.timer
        /\ q.missed = r.missed /\ q.pending = r.pending
    <3> DEFINE s == [r.socket EXCEPT !.ready = TRUE]
    <3>1. s \in [at : Processes \cup {"nowhere"}, ready : BOOLEAN] /\ s.at = pg.socket.at
      BY <2>2 DEF PageType
    <3>2. q = [r EXCEPT !.socket = s]
      BY <2>3
    <3> HIDE DEF q, s
    <3>3. QED
      BY <2>2, <3>1, <3>2 DEF PageType
  <2>5. browser' = [browser EXCEPT ![b] = q] /\ fetch' = fetch
    BY <1>1, <1>2, <1>3, <1>8 DEF Receive
  <2> HIDE DEF q
  <2>6. Awaited(q, watcher[b], Tail(w), view[b], fetch[b])
    BY <2>2, <2>4 DEF Awaited
  <2>7. QED
    BY <1>7, <2>4, <2>5, <2>6, NowAwaited, Unmoved DEF IInv
<1>9. CASE m.type = "board.changed"
  <2>1. PICK q : q = Refreshed(pg, m.changed)
    OBVIOUS
  <2>2. m.changed \in Hints
    BY <1>5 DEF MessageType
  <2>3. /\ q \in PageType /\ q.socket = pg.socket /\ (q.timer \/ q.missed)
        /\ NamesCards(m.changed) \/ NamesCards(pg.pending) => NamesCards(q.pending)
    BY <1>4, <2>1, <2>2, RefreshedRemembers
  <2>4. browser' = [browser EXCEPT ![b] = q] /\ fetch' = fetch
    BY <1>1, <1>2, <1>3, <1>9, <2>1 DEF Receive
  <2>5. Awaited(q, watcher[b], Tail(w), view[b], fetch[b])
    BY <1>4, <1>5, <1>9, <2>3 DEF Awaited, Says
  <2>6. QED
    BY <1>7, <2>3, <2>4, <2>5, NowAwaited, Unmoved DEF IInv
<1>10. CASE m.type = "agent.feed"
  <2>1. ~ Says(m)
    BY <1>4, <1>5, <1>10, HintsTyped DEF WellWired, Says
  <2>2. CASE pg.hidden
    <3> DEFINE q == [pg EXCEPT !.missed = TRUE]
    <3>1. /\ q \in PageType /\ q.socket = pg.socket /\ q.timer = pg.timer /\ q.missed
          /\ q.pending = pg.pending
      BY <1>4 DEF PageType
    <3>2. browser' = [browser EXCEPT ![b] = q] /\ fetch' = fetch
      BY <1>1, <1>2, <1>3, <1>10, <2>2 DEF Receive
    <3> HIDE DEF q
    <3>3. Awaited(q, watcher[b], Tail(w), view[b], fetch[b])
      BY <1>4, <1>5, <2>1, <3>1 DEF Awaited
    <3>4. QED
      BY <1>7, <3>1, <3>2, <3>3, NowAwaited, Unmoved DEF IInv
  <2>3. CASE ~ pg.hidden
    <3>1. browser' = browser /\ fetch' = Invalidated(b, {"feed"})
      BY <1>1, <1>2, <1>3, <1>10, <2>3 DEF Receive
    <3>2. PICK f : f = Reads(b, {"feed"})
      OBVIOUS
    <3>3. /\ f \in [Shown -> {"none", "asked", "fresh", "stale"}]
          /\ fetch' = [fetch EXCEPT ![b] = f]
          /\ \A l \in Shown : f[l] = IF l \in {"feed"} THEN "asked" ELSE fetch[b][l]
      BY <3>1, <3>2, InvalidatedReads
    <3>4. Awaited(pg, watcher[b], Tail(w), view[b], f)
      BY <1>4, <1>5, <2>1, <3>3 DEF Awaited
    <3>5. browser' = [browser EXCEPT ![b] = pg]
      BY <1>1, <3>1, Unmoved DEF IInv
    <3>6. QED
      BY <1>4, <1>7, <3>3, <3>4, <3>5
  <2>4. QED
    BY <2>2, <2>3
<1>11. QED
  BY <1>5, <1>8, <1>9, <1>10 DEF MessageType

\* Settled, the page has begun to read the cards if it was to read them.
LEMMA SettleKeeps ==
  ASSUME IInv, NEW b \in Browsers, NEW pg \in PageType, Settle(b, pg),
         pg.socket = browser[b].socket, pg.pending = browser[b].pending,
         UNCHANGED <<made, faults, hides, server, watcher, wire, view, poll>>
  PROVE  IInv'
<1>1. PICK q : q = [pg EXCEPT !.pending = Nothing]
  OBVIOUS
<1>2. q \in PageType /\ q.socket = pg.socket
  BY <1>1, HintsTyped DEF PageType
<1>3. PICK lists : lists = ListsOf(IF pg.pending = Nothing THEN Anything ELSE pg.pending)
  OBVIOUS
<1>4. NamesCards(pg.pending) => "cards" \in lists
  BY <1>3, HintsTyped DEF NamesCards
<1>5. browser' = [browser EXCEPT ![b] = q] /\ fetch' = Invalidated(b, lists)
  BY <1>1, <1>3 DEF Settle
<1>6. PICK f : /\ f \in [Shown -> {"none", "asked", "fresh", "stale"}]
               /\ fetch' = [fetch EXCEPT ![b] = f]
               /\ \A l \in Shown : f[l] = IF l \in lists THEN "asked" ELSE fetch[b][l]
  <2>1. PICK f : f = Reads(b, lists)
    OBVIOUS
  <2>2. /\ f \in [Shown -> {"none", "asked", "fresh", "stale"}]
        /\ fetch' = [fetch EXCEPT ![b] = f]
        /\ \A l \in Shown : f[l] = IF l \in lists THEN "asked" ELSE fetch[b][l]
    BY <1>5, <2>1, InvalidatedReads
  <2>3. QED
    BY <2>2
<1>7. WellWired(q, wire[b])
  BY <1>2, NowAwaited DEF WellWired
<1>8. Awaited(q, watcher[b], wire[b], view[b], f)
  BY <1>2, <1>4, <1>6, NowAwaited DEF Awaited
<1>9. Moves(b, q, watcher[b], wire[b], view[b], f)
  BY <1>5, <1>6, Unmoved DEF Moves, IInv
<1>10. faults' \in 0..MaxFaults /\ hides' \in 0..MaxHides
  BY DEF IInv, ServerTyped
<1>11. QED
  BY <1>2, <1>6, <1>7, <1>8, <1>9, <1>10, NowAwaited, PageKeeps

LEMMA SettlesKeep ==
  ASSUME IInv, NEW b \in Browsers, Debounced(b) \/ Show(b)
  PROVE  IInv'
<1>1. browser[b] \in PageType
  BY NowAwaited
<1>2. CASE Debounced(b)
  <2> DEFINE pg == [browser[b] EXCEPT !.timer = FALSE]
  <2>1. /\ pg \in PageType /\ pg.socket = browser[b].socket
        /\ pg.pending = browser[b].pending
    BY <1>1 DEF PageType
  <2>2. Settle(b, pg) /\ UNCHANGED <<made, faults, hides, server, watcher, wire, view, poll>>
    BY <1>2 DEF Debounced
  <2> HIDE DEF pg
  <2>3. QED
    BY <2>1, <2>2, SettleKeeps
<1>3. CASE Show(b) /\ browser[b].missed
  <2> DEFINE shown == [browser[b] EXCEPT !.hidden = FALSE]
             pg == [shown EXCEPT !.missed = FALSE]
  <2>1. shown \in PageType /\ shown.socket = browser[b].socket
        /\ shown.pending = browser[b].pending /\ shown.missed = browser[b].missed
    BY <1>1 DEF PageType
  <2>2. /\ pg \in PageType /\ pg.socket = browser[b].socket
        /\ pg.pending = browser[b].pending
    BY <2>1 DEF PageType
  <2>3. Settle(b, pg) /\ UNCHANGED <<made, faults, hides, server, watcher, wire, view, poll>>
    BY <1>3, <2>1 DEF Show
  <2> HIDE DEF pg
  <2>4. QED
    BY <2>2, <2>3, SettleKeeps
<1>4. CASE Show(b) /\ ~ browser[b].missed
  <2> DEFINE pg == [browser[b] EXCEPT !.hidden = FALSE]
  <2>1. /\ pg \in PageType /\ pg.socket = browser[b].socket /\ pg.timer = browser[b].timer
        /\ pg.missed = browser[b].missed /\ pg.pending = browser[b].pending
    BY <1>1 DEF PageType
  <2>2. browser' = [browser EXCEPT ![b] = pg]
        /\ UNCHANGED <<made, faults, hides, server, watcher, wire, view, fetch, poll>>
    BY <1>4, <2>1 DEF Show
  <2> HIDE DEF pg
  <2>3. WellWired(pg, wire[b]) /\ Awaited(pg, watcher[b], wire[b], view[b], fetch[b])
    BY <2>1, NowAwaited DEF WellWired, Awaited
  <2>4. Moves(b, pg, watcher[b], wire[b], view[b], fetch[b])
    BY <2>2, Unmoved DEF Moves, IInv
  <2>5. faults' \in 0..MaxFaults /\ hides' \in 0..MaxHides
    BY <2>2 DEF IInv, ServerTyped
  <2>6. QED
    BY <2>1, <2>2, <2>3, <2>4, <2>5, NowAwaited, PageKeeps
<1>5. QED
  BY <1>2, <1>3, <1>4

LEMMA HideKeeps ==
  ASSUME IInv, NEW b \in Browsers, Hide(b)
  PROVE  IInv'
<1> DEFINE pg == [browser[b] EXCEPT !.hidden = TRUE]
<1>1. /\ pg \in PageType /\ pg.socket = browser[b].socket /\ pg.timer = browser[b].timer
      /\ pg.missed = browser[b].missed /\ pg.pending = browser[b].pending
  BY NowAwaited DEF PageType
<1>2. browser' = [browser EXCEPT ![b] = pg]
      /\ UNCHANGED <<made, faults, server, watcher, wire, view, fetch, poll>>
  BY DEF Hide
<1> HIDE DEF pg
<1>3. WellWired(pg, wire[b]) /\ Awaited(pg, watcher[b], wire[b], view[b], fetch[b])
  BY <1>1, NowAwaited DEF WellWired, Awaited
<1>4. Moves(b, pg, watcher[b], wire[b], view[b], fetch[b])
  BY <1>2, Unmoved DEF Moves, IInv
<1>5. faults' \in 0..MaxFaults /\ hides' \in 0..MaxHides
  <2>1. MaxHides \in Nat
    BY LiveBoardConstants
  <2>2. hides \in 0..MaxHides /\ hides < MaxHides /\ hides' = hides + 1 /\ faults \in 0..MaxFaults
    BY DEF Hide, IInv, ServerTyped
  <2>3. QED
    BY <1>2, <2>1, <2>2
<1>6. QED
  BY <1>1, <1>2, <1>3, <1>4, <1>5, NowAwaited, PageKeeps

\* Lists are asked for, read and shown: what is shown is as old as what was
\* read, and only a read that is not old yet counts.
LEMMA ReadsKeep ==
  ASSUME IInv, NEW b \in Browsers,
         PollBoard(b) \/ \E l \in Shown : ReadList(b, l) \/ ShowList(b, l)
  PROVE  IInv'
<1>1. ASSUME NEW v \in [Shown -> {"fresh", "stale"}],
             NEW f \in [Shown -> {"none", "asked", "fresh", "stale"}],
             view' = [view EXCEPT ![b] = v], fetch' = [fetch EXCEPT ![b] = f],
             UNCHANGED <<made, faults, hides, server, browser, watcher, wire, poll>>,
             Awaited(browser[b], watcher[b], wire[b], v, f)
      PROVE  IInv'
  <2>1. Moves(b, browser[b], watcher[b], wire[b], v, f)
    BY <1>1, Unmoved DEF Moves, IInv
  <2>2. faults' \in 0..MaxFaults /\ hides' \in 0..MaxHides
    BY <1>1 DEF IInv, ServerTyped
  <2>3. QED
    BY <1>1, <2>1, <2>2, NowAwaited, PageKeeps
<1>2. CASE PollBoard(b)
  <2>1. fetch' = Invalidated(b, {"cards"})
        /\ UNCHANGED <<made, faults, hides, server, browser, watcher, wire, view, poll>>
    BY <1>2 DEF PollBoard
  <2>2. PICK f : /\ f \in [Shown -> {"none", "asked", "fresh", "stale"}]
                 /\ fetch' = [fetch EXCEPT ![b] = f]
                 /\ \A l \in Shown : f[l] = IF l \in {"cards"} THEN "asked" ELSE fetch[b][l]
    <3>1. PICK f : f = Reads(b, {"cards"})
      OBVIOUS
    <3>2. /\ f \in [Shown -> {"none", "asked", "fresh", "stale"}]
          /\ fetch' = [fetch EXCEPT ![b] = f]
          /\ \A l \in Shown : f[l] = IF l \in {"cards"} THEN "asked" ELSE fetch[b][l]
      BY <2>1, <3>1, InvalidatedReads
    <3>3. QED
      BY <3>2
  <2>3. Awaited(browser[b], watcher[b], wire[b], view[b], f)
    BY <2>2 DEF Awaited
  <2>4. view' = [view EXCEPT ![b] = view[b]]
    BY <2>1, Unmoved DEF IInv
  <2>5. QED
    BY <1>1, <2>1, <2>2, <2>3, <2>4, NowAwaited
<1>3. ASSUME NEW l \in Shown, ReadList(b, l) PROVE IInv'
  <2> DEFINE f == [fetch[b] EXCEPT ![l] = "fresh"]
  <2>1. f \in [Shown -> {"none", "asked", "fresh", "stale"}]
        /\ \A c \in Shown : f[c] = IF c = l THEN "fresh" ELSE fetch[b][c]
    BY NowAwaited
  <2>2. fetch' = [fetch EXCEPT ![b] = f]
        /\ UNCHANGED <<made, faults, hides, server, browser, watcher, wire, view, poll>>
    BY <1>3 DEF ReadList
  <2> HIDE DEF f
  <2>3. Awaited(browser[b], watcher[b], wire[b], view[b], f)
    BY <2>1, NowAwaited DEF Awaited
  <2>4. view' = [view EXCEPT ![b] = view[b]]
    BY <2>2, Unmoved DEF IInv
  <2>5. QED
    BY <1>1, <2>1, <2>2, <2>3, <2>4, NowAwaited
<1>4. ASSUME NEW l \in Shown, ShowList(b, l) PROVE IInv'
  <2> DEFINE f == [fetch[b] EXCEPT ![l] = "none"]
             v == [view[b] EXCEPT ![l] = fetch[b][l]]
  <2>1. fetch[b][l] \in {"fresh", "stale"}
    BY <1>4 DEF ShowList
  <2>2. /\ f \in [Shown -> {"none", "asked", "fresh", "stale"}]
        /\ v \in [Shown -> {"fresh", "stale"}]
        /\ \A c \in Shown : /\ f[c] = IF c = l THEN "none" ELSE fetch[b][c]
                            /\ v[c] = IF c = l THEN fetch[b][l] ELSE view[b][c]
    BY <2>1, NowAwaited
  <2>3. fetch' = [fetch EXCEPT ![b] = f] /\ view' = [view EXCEPT ![b] = v]
        /\ UNCHANGED <<made, faults, hides, server, browser, watcher, wire, poll>>
    BY <1>4 DEF ShowList
  <2> HIDE DEF f, v
  <2>4. Awaited(browser[b], watcher[b], wire[b], v, f)
    <3>1. CASE l = "cards"
      BY <2>1, <2>2, <3>1, NowAwaited DEF Awaited
    <3>2. CASE l # "cards"
      BY <2>2, <3>2, NowAwaited DEF Awaited
    <3>3. QED
      BY <3>1, <3>2
  <2>5. QED
    BY <1>1, <2>2, <2>3, <2>4
<1>5. QED
  BY <1>2, <1>3, <1>4

LEMMA LoseSocketKeeps ==
  ASSUME IInv, NEW b \in Browsers, LoseSocket(b)
  PROVE  IInv'
<1>1. PICK pg \in PageType : pg = Disconnected(browser[b])
  BY NowAwaited, DisconnectedTyped
<1>2. PICK w \in Seq(MessageType) : w = << >>
  <2>1. << >> \in Seq(MessageType)
    OBVIOUS
  <2>2. QED
    BY <2>1, Zenon
<1>3. pg.socket = Down
  BY <1>1, NowAwaited, DisconnectedTyped
<1>4. Unwatched \in NudgeType
  BY HintsTyped DEF NudgeType, Unwatched
<1>5. Moves(b, pg, Unwatched, w, view[b], fetch[b]) /\ UNCHANGED <<made, hides, server, poll>>
  BY <1>1, <1>2, Unmoved DEF LoseSocket, Moves, IInv
<1>6. WellWired(pg, w) /\ Awaited(pg, Unwatched, w, view[b], fetch[b])
  BY <1>2, <1>3 DEF WellWired, Awaited, Down, Has
<1>7. faults' \in 0..MaxFaults /\ hides' \in 0..MaxHides
  BY <1>5, FaultsStayBounded DEF LoseSocket, IInv, ServerTyped
<1>8. QED
  BY <1>4, <1>5, <1>6, <1>7, NowAwaited, PageKeeps

-----------------------------------------------------------------------------
(* Long polls.                                                              *)

LEMMA PollsKeep ==
  ASSUME IInv, NEW x \in Pollers,
         (\E p \in Processes : Look(x, p)) \/ Await(x) \/ Wake(x) \/ PollTimesOut(x)
  PROVE  IInv'
<1>1. UNCHANGED <<made, faults, hides, prompt, untold, outgoing, line, incoming, lost,
                  browser, watcher, wire, view, fetch>>
  BY DEF Look, Await, Wake, PollTimesOut, server, client
<1>2. poll[x] \in PollType /\ PollAt(x)
  BY DEF IInv, ClientTyped
<1>3. \E k \in PollType :
         /\ poll' = [poll EXCEPT ![x] = k]
         /\ k.step # "idle" =>
               \/ prompt = "open" /\ k.at \in Processes
               \/ poll[x].step # "idle" /\ k.at = poll[x].at /\ k.woken = poll[x].woken
  <2>1. CASE \E p \in Processes : Look(x, p)
    <3>1. PICK p \in Processes : Look(x, p)
      BY <2>1
    <3> DEFINE k == [step |-> "looked", at |-> p, woken |-> FALSE]
    <3>2. k \in PollType /\ k.at = p
      BY DEF PollType
    <3>3. poll' = [poll EXCEPT ![x] = k] /\ prompt = "open"
      BY <3>1 DEF Look
    <3> HIDE DEF k
    <3>4. QED
      BY <3>2, <3>3
  <2>2. CASE Await(x)
    <3> DEFINE k == [poll[x] EXCEPT !.step = "waiting"]
    <3>1. k \in PollType /\ k.at = poll[x].at /\ k.woken = poll[x].woken
      BY <1>2 DEF PollType
    <3>2. poll' = [poll EXCEPT ![x] = k] /\ poll[x].step # "idle"
      BY <2>2 DEF Await
    <3> HIDE DEF k
    <3>3. QED
      BY <3>1, <3>2
  <2>3. CASE Wake(x) \/ PollTimesOut(x)
    <3>1. Unasked \in PollType /\ Unasked.step = "idle"
      BY DEF Unasked, PollType
    <3>2. poll' = [poll EXCEPT ![x] = Unasked]
      BY <2>3 DEF Wake, PollTimesOut
    <3>3. QED
      BY <3>1, <3>2
  <2>4. QED
    BY <2>1, <2>2, <2>3
<1>4. PICK k \in PollType :
         /\ poll' = [poll EXCEPT ![x] = k]
         /\ k.step # "idle" =>
               \/ prompt = "open" /\ k.at \in Processes
               \/ poll[x].step # "idle" /\ k.at = poll[x].at /\ k.woken = poll[x].woken
  BY <1>3
<1>5. ServerTyped' /\ ClientTyped'
  BY <1>1, <1>4 DEF IInv, ServerTyped, ClientTyped
<1>6. \A p, K : OnItsWay(p, K)' <=> OnItsWay(p, K)
  BY <1>1, NewsStays
<1>7. ASSUME NEW b \in Browsers PROVE WiredAt(b)' /\ ComingAt(b)'
  <2>1. WiredAt(b) /\ ComingAt(b)
    BY DEF IInv
  <2>2. OnItsWay(browser[b].socket.at, CardKinds)' <=> OnItsWay(browser[b].socket.at, CardKinds)
    BY <1>1 DEF OnItsWay
  <2>3. QED
    BY <1>1, <2>1, <2>2 DEF WiredAt, ComingAt, Underway
<1>8. ASSUME NEW y \in Pollers PROVE PollAt(y)'
  <2>1. PICK p : p = poll'[y].at
    OBVIOUS
  <2>2. OnItsWay(poll[y].at, {"prompt"})' <=> OnItsWay(p, {"prompt"})
    BY <1>1, <2>1 DEF OnItsWay
  <2>3. CASE y = x
    <3>1. poll'[x] = k
      BY <1>4 DEF IInv, ClientTyped
    <3>2. QED
      BY <1>1, <1>2, <1>4, <2>1, <2>2, <2>3, <3>1, LiveBoardConstants DEF PollAt
  <2>4. CASE y # x
    <3>1. poll'[y] = poll[y] /\ PollAt(y)
      BY <1>4, <2>4 DEF IInv, ClientTyped
    <3>2. QED
      BY <1>1, <2>1, <2>2, <3>1 DEF PollAt
  <2>5. QED
    BY <2>3, <2>4
<1>9. QED
  BY <1>5, <1>7, <1>8 DEF IInv

-----------------------------------------------------------------------------
(* The theorems.                                                            *)

LEMMA InitIInv == Init => IInv
<1> SUFFICES ASSUME Init PROVE IInv
  OBVIOUS
<1>1. ServerTyped
  <2>1. << >> \in Seq(Events) /\ Len(<< >>) = 0
    OBVIOUS
  <2>2. {MaxChanges, MaxFaults, MaxHides, BACKLOG} \subseteq Nat
    BY LiveBoardConstants
  <2>3. outgoing \in [Processes -> Seq(Events)]
        /\ \A p \in Processes : Len(outgoing[p]) <= BACKLOG
    BY <2>1, <2>2 DEF Init
  <2>4. QED
    BY <2>2, <2>3 DEF Init, ServerTyped
<1>2. ClientTyped
  <2>1. << >> \in Seq(MessageType) /\ Unwatched \in NudgeType /\ Unasked \in PollType
    BY HintsTyped DEF Unwatched, Unasked, NudgeType, PollType
  <2>2. browser \in [Browsers -> PageType]
    <3>1. ASSUME NEW p \in Processes
          PROVE  [socket |-> [at |-> p, ready |-> TRUE], hidden |-> FALSE, missed |-> FALSE,
                  pending |-> Nothing, timer |-> FALSE] \in PageType
      BY HintsTyped DEF PageType
    <3>2. QED
      BY <3>1 DEF Init
  <2>3. QED
    BY <2>1, <2>2 DEF Init, ClientTyped
<1>3. ASSUME NEW b \in Browsers PROVE WiredAt(b) /\ ComingAt(b)
  <2>1. browser[b].socket.at \in Processes
    BY DEF Init
  <2>2. /\ wire[b] = << >>
        /\ "cards" \in Shown => view[b]["cards"] = "fresh" /\ fetch[b]["cards"] = "none"
    BY DEF Init
  <2>3. QED
    BY <2>1, <2>2, LiveBoardConstants DEF WiredAt, ComingAt, Has
<1>4. \A x \in Pollers : PollAt(x)
  BY DEF Init, PollAt, Unasked
<1>5. QED
  BY <1>1, <1>2, <1>3, <1>4 DEF IInv

LEMMA NextIInv == IInv /\ [Next]_vars => IInv'
<1> SUFFICES ASSUME IInv, [Next]_vars PROVE IInv'
  OBVIOUS
<1>1. ASSUME NEW p \in Processes, NEW k \in Kinds, Change(p, k) \/ Publish(p, k) \/ Hear(p, k)
      PROVE  IInv'
  BY <1>1, ChangeKeeps, PublishKeeps, HearKeeps
<1>2. ASSUME NEW p \in Processes,
             Listen(p) \/ FailToListen(p) \/ LoseLine(p) \/ Send(p) \/ FailToSend(p) \/ Crash(p)
      PROVE  IInv'
  BY <1>2, LineKeeps, CrashKeeps
<1>3. ASSUME NEW b \in Browsers, NEW p \in Processes, Connect(b, p) PROVE IInv'
  BY <1>3, ConnectKeeps
<1>4. ASSUME NEW b \in Browsers,
             ForwardNudge(b) \/ Receive(b) \/ Debounced(b) \/ Hide(b) \/ Show(b) \/ LoseSocket(b)
      PROVE  IInv'
  BY <1>4, ForwardKeeps, ReceiveKeeps, SettlesKeep, HideKeeps, LoseSocketKeeps
<1>5. ASSUME NEW b \in Browsers,
             PollBoard(b) \/ \E l \in Shown : ReadList(b, l) \/ ShowList(b, l)
      PROVE  IInv'
  BY <1>5, ReadsKeep
<1>6. ASSUME NEW x \in Pollers,
             (\E p \in Processes : Look(x, p)) \/ Await(x) \/ Wake(x) \/ PollTimesOut(x)
      PROVE  IInv'
  BY <1>6, PollsKeep
<1>7. CASE UNCHANGED vars
  <2>1. UNCHANGED <<made, faults, hides, prompt, untold, outgoing, line, incoming, lost,
                    browser, watcher, wire, view, fetch, poll>>
    BY <1>7 DEF vars, server, client
  <2>2. ServerTyped' /\ ClientTyped'
    BY <2>1 DEF IInv, ServerTyped, ClientTyped
  <2>3. QED
    BY <2>1, <2>2 DEF IInv, WiredAt, ComingAt, Underway, PollAt, OnItsWay
<1>8. QED
  BY <1>1, <1>2, <1>3, <1>4, <1>5, <1>6, <1>7 DEF Next

\* For any processes, pages, polls and backlog, and whatever fails: what is due
\* to a page or a poll is always in some hand, unless an event of its kind is in
\* `lost' (hub.py, bus.py, liveRefresh.ts).
THEOREM Invariant == Spec => []IInv
BY InitIInv, NextIInv, PTL DEF Spec

\* Queues keep within their bounds, hints name kinds or anything, and nobody is
\* where no process is (bus.py _BACKLOG, hub.py, useBoardSocket.ts).
THEOREM TypeCorrect == Spec => []TypeOK
<1>1. IInv => TypeOK
  BY DEF IInv, ServerTyped, ClientTyped, TypeOK, PageType, NudgeType, MessageType, PollType
<1>2. QED
  BY Invariant, <1>1, PTL

\* A page that shows cards, and has a socket, shows old ones only while something
\* is left that makes it read them again, or once an event about cards or prompts
\* was dropped from a full backlog, failed to be sent, died with its process or
\* was sent before another process first listened (hub.py, bus.py: a missed
\* doorbell is made good by ringing again, but those are not rung).
THEOREM OldCardsAreReplaced ==
  ASSUME "cards" \in Shown
  PROVE  Spec => []OldCardsAreComing
<1>1. IInv => OldCardsAreComing
  <2> SUFFICES ASSUME IInv, NEW b \in Browsers, view[b]["cards"] = "stale"
               PROVE  \/ browser[b].socket = Down
                      \/ fetch[b]["cards"] \in {"asked", "fresh"}
                      \/ browser[b].timer \/ browser[b].missed
                      \/ \E i \in DOMAIN wire[b] :
                            wire[b][i].type = "ready" \/ NamesCards(wire[b][i].changed)
                      \/ NamesCards(watcher[b].changed)
                      \/ OnItsWay(browser[b].socket.at, CardKinds)
    BY DEF OldCardsAreComing
  <2>1. ComingAt(b)
    BY DEF IInv
  <2>2. QED
    BY <2>1 DEF ComingAt, Underway, Has, Says
<1>2. QED
  BY Invariant, <1>1, PTL

\* A long poll is woken by the close of its prompt, wherever the close falls
\* between its read and its wait, unless the news of it was lost as above
\* (hub.py prompt_waiter).
THEOREM ClosesWake == Spec => []CloseWakesPolls
<1>1. IInv => CloseWakesPolls
  BY DEF IInv, PollAt, CloseWakesPolls
<1>2. QED
  BY Invariant, <1>1, PTL
=============================================================================
