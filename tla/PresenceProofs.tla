--------------------------- MODULE PresenceProofs ---------------------------
(***************************************************************************)
(* For any prompts, answers, processes and number of sockets: a hook is    *)
(* told the answer that the card records, and one that is left waiting     *)
(* when nothing is on its way waits for what a person can still answer.    *)
(*                                                                         *)
(* An answer never changes, since only an open prompt closes: so every     *)
(* copy of one, on a socket, on the bus or in an inbox, agrees with the    *)
(* card for good (Recorded).  A wait is followed from the daemon to the    *)
(* card and back (ComingInv): its prompt is queued for the machine, or is  *)
(* held by the machine and, on the link that is live, sent, open, answered *)
(* or being told of on the bus.  Whoever serves a link that is not         *)
(* displaced is in its process's hub (LinkInv), so the news of a closing   *)
(* reaches it; and what makes the machine let go of a prompt leaves no     *)
(* hook waiting for it (QueueInv).                                         *)
(***************************************************************************)
EXTENDS Presence, TLAPS, SequenceTheorems, FiniteSetTheorems

\* What is put in the queues: for the machine, on a socket, on the bus.
Events ==
    [t : {"ask"}, p : Prompts] \cup [t : {"drop"}, p : Prompts, why : {"terminal", "expired"}]
    \cup [t : {"ran"}] \cup [t : {"state"}, level : Levels]

Frames ==
    [t : {"level"}, level : Levels] \cup [t : {"prompt"}, p : Prompts]
    \cup [t : {"withdraw"}, p : Prompts, why : {"terminal", "expired"}]

Tidings ==
    [t : {"closed"}, outcome : Prompts \X Outcomes] \cup [t : {"connected"}, c : Links]

Hooks == [step : {"idle", "begun", "waiting", "done"}, inbox : Outcomes \cup {None},
          told : Outcomes \cup {"nothing", None}]

Ends == [state : {"off", "open", "serving", "ending", "closed"},
         at : Processes \cup {None}, displaced : BOOLEAN, cut : BOOLEAN]

Machines == [link : Links \cup {None}, level : Levels, asking : Seq(Prompts)]

DaemonTyped ==
    /\ hook \in [Prompts -> Hooks]
    /\ events \in Seq(Events)
    /\ machine \in Machines
    /\ IsInjective(machine.asking)

SocketsTyped ==
    /\ link \in [Links -> Ends]
    /\ up \in [Links -> Seq(Frames)]
    /\ down \in [Links -> SUBSET (Prompts \X Outcomes)]

ServerTyped ==
    /\ agent \in [Processes -> Links \cup {None}]
    /\ news \in [Processes -> [Processes -> Seq(Tidings)]]
    /\ row \in Levels \cup {"none", "done"}
    /\ prompt \in [Prompts -> Outcomes \cup {"absent", "open"}]

Started(h) == h.step \in {"waiting", "done"}
Held(h) == h.step = "waiting" /\ h.inbox = None

\* A prompt is asked once, and neither a drop nor a tool that ran takes away
\* one that a hook is still held for.
QueueInv ==
    /\ \A p \in ToSet(machine.asking) : Started(hook[p])
    /\ \A i \in DOMAIN events :
          /\ events[i].t = "ask" =>
                /\ Started(hook[events[i].p]) /\ events[i].p \notin ToSet(machine.asking)
                /\ \A j \in DOMAIN events : events[j] = events[i] => j = i
          /\ events[i].t = "drop" => hook[events[i].p].step = "done"
          /\ events[i].t = "ran" =>
                /\ \A p \in ToSet(machine.asking) : ~Held(hook[p])
                /\ \A j \in 1 .. i - 1 : events[j].t = "ask" => ~Held(hook[events[j].p])

\* Every copy of an answer agrees with the card.
Recorded ==
    /\ \A p \in Prompts :
          /\ hook[p].inbox \in Answers => prompt[p] = hook[p].inbox
          /\ hook[p].told \in Answers => prompt[p] = hook[p].told
    /\ \A c \in Links : \A x \in down[c] : x[2] \in Answers => prompt[x[1]] = x[2]
    /\ \A a, b \in Processes : \A n \in ToSet(news[a][b]) :
          n.t = "closed" /\ n.outcome[2] \in Answers => prompt[n.outcome[1]] = n.outcome[2]

\* A socket that is served, and not displaced, is its process's for the session.
LinkInv ==
    /\ \A c \in Links :
          /\ link[c].state # "off" => link[c].at \in Processes
          /\ link[c].state = "serving" /\ ~link[c].displaced => agent[link[c].at] = c
    /\ Live => link[machine.link].state # "off"

Sent(p, c) == [t |-> "prompt", p |-> p] \in ToSet(up[c])
Replied(p, c) == \E o \in Outcomes : <<p, o>> \in down[c]
OnTheBus(p, c) ==
    \E a \in Processes : \E n \in ToSet(news[a][link[c].at]) :
        n.t = "closed" /\ n.outcome[1] = p

OnLink(p, c) ==
    /\ link[c].state = "open" => Sent(p, c)
    /\ link[c].state = "serving" /\ ~link[c].displaced =>
          Sent(p, c) \/ prompt[p] = "open" \/ Replied(p, c) \/ OnTheBus(p, c)

Asked(p) == [t |-> "ask", p |-> p] \in ToSet(events)

\* A hook is held for a prompt that is on its way to the card, open there, or
\* on its way back.
ComingInv ==
    \A p \in Prompts : Held(hook[p]) =>
        \/ Asked(p)
        \/ p \in ToSet(machine.asking) /\ (Live => OnLink(p, machine.link))

IInv ==
    /\ DaemonTyped /\ SocketsTyped /\ ServerTyped
    /\ QueueInv
    /\ Recorded
    /\ LinkInv
    /\ ComingInv

-----------------------------------------------------------------------------
(* What the operators on sequences give.                                    *)

\* A sequence's members are its elements, and those of the set it is over.
LEMMA SetParts ==
  ASSUME NEW S, NEW s \in Seq(S)
  PROVE  /\ ToSet(s) \subseteq S /\ \A i \in DOMAIN s : s[i] \in S /\ s[i] \in ToSet(s)
         /\ \A x \in ToSet(s) : \E i \in DOMAIN s : s[i] = x
         /\ DOMAIN s = 1 .. Len(s) /\ Len(s) \in Nat
BY DEF ToSet

LEMMA EmptyParts ==
  ASSUME NEW S
  PROVE  << >> \in Seq(S) /\ ToSet(<< >>) = {} /\ DOMAIN << >> = {}
BY DEF ToSet

\* One more at the end is one more member, and moves none.
LEMMA AppendParts ==
  ASSUME NEW S, NEW s \in Seq(S), NEW e \in S
  PROVE  /\ Append(s, e) \in Seq(S) /\ ToSet(Append(s, e)) = ToSet(s) \cup {e}
         /\ DOMAIN Append(s, e) = 1 .. Len(s) + 1 /\ DOMAIN s = 1 .. Len(s) /\ Len(s) \in Nat
         /\ Append(s, e)[Len(s) + 1] = e
         /\ \A i \in DOMAIN s : Append(s, e)[i] = s[i]
<1>1. /\ Append(s, e) \in Seq(S)
      /\ DOMAIN Append(s, e) = 1 .. Len(s) + 1 /\ DOMAIN s = 1 .. Len(s) /\ Len(s) \in Nat
      /\ Append(s, e)[Len(s) + 1] = e
      /\ \A i \in DOMAIN s : Append(s, e)[i] = s[i]
  OBVIOUS
<1>2. ToSet(Append(s, e)) \subseteq ToSet(s) \cup {e}
  BY <1>1 DEF ToSet
<1>3. \A x \in ToSet(s) : x \in ToSet(Append(s, e))
  <2> SUFFICES ASSUME NEW x \in ToSet(s) PROVE x \in ToSet(Append(s, e))
    OBVIOUS
  <2>1. PICK i \in 1 .. Len(s) : s[i] = x
    BY DEF ToSet
  <2>2. i \in DOMAIN Append(s, e) /\ Append(s, e)[i] = x
    BY <1>1, <2>1
  <2>3. QED
    BY <2>2 DEF ToSet
<1>4. e \in ToSet(Append(s, e))
  <2>1. Len(s) + 1 \in DOMAIN Append(s, e)
    BY <1>1
  <2>2. QED
    BY <1>1, <2>1 DEF ToSet
<1>5. QED
  BY <1>1, <1>2, <1>3, <1>4

\* The first read: the others move up, and the members are it and they.
LEMMA TailParts ==
  ASSUME NEW S, NEW s \in Seq(S), s # << >>
  PROVE  /\ Tail(s) \in Seq(S) /\ Head(s) \in S /\ Head(s) = s[1] /\ 1 \in DOMAIN s
         /\ ToSet(s) = {Head(s)} \cup ToSet(Tail(s))
         /\ DOMAIN s = 1 .. Len(s) /\ DOMAIN Tail(s) = 1 .. Len(s) - 1 /\ Len(s) \in Nat
         /\ \A i \in DOMAIN Tail(s) : i + 1 \in DOMAIN s /\ Tail(s)[i] = s[i + 1]
<1>1. /\ Tail(s) \in Seq(S) /\ Head(s) \in S /\ Head(s) = s[1] /\ 1 \in DOMAIN s
      /\ DOMAIN s = 1 .. Len(s) /\ DOMAIN Tail(s) = 1 .. Len(s) - 1 /\ Len(s) \in Nat
      /\ \A i \in DOMAIN Tail(s) : i + 1 \in DOMAIN s /\ Tail(s)[i] = s[i + 1]
  OBVIOUS
<1>2. {Head(s)} \cup ToSet(Tail(s)) \subseteq ToSet(s)
  BY <1>1 DEF ToSet
<1>3. ASSUME NEW x \in ToSet(s) PROVE x = Head(s) \/ x \in ToSet(Tail(s))
  <2>1. PICK i \in DOMAIN s : s[i] = x
    BY DEF ToSet
  <2>2. CASE i = 1
    BY <1>1, <2>1, <2>2
  <2>3. CASE i # 1
    <3>1. i - 1 \in DOMAIN Tail(s)
      BY <1>1, <2>3
    <3>2. Tail(s)[i - 1] = x
      BY <1>1, <2>1, <3>1
    <3>3. QED
      BY <3>1, <3>2 DEF ToSet
  <2>4. QED
    BY <2>2, <2>3
<1>4. QED
  BY <1>1, <1>2, <1>3

\* Two sequences in a row have the members of both.
LEMMA ConcatParts ==
  ASSUME NEW S, NEW s \in Seq(S), NEW t \in Seq(S)
  PROVE  s \o t \in Seq(S) /\ ToSet(s \o t) = ToSet(s) \cup ToSet(t)
<1>1. /\ s \o t \in Seq(S) /\ DOMAIN (s \o t) = 1 .. Len(s) + Len(t)
      /\ DOMAIN s = 1 .. Len(s) /\ DOMAIN t = 1 .. Len(t) /\ Len(s) \in Nat /\ Len(t) \in Nat
      /\ \A i \in 1 .. Len(s) : (s \o t)[i] = s[i]
      /\ \A i \in Len(s) + 1 .. Len(s) + Len(t) : (s \o t)[i] = t[i - Len(s)]
  OBVIOUS
<1>2. ASSUME NEW x \in ToSet(s) PROVE x \in ToSet(s \o t)
  <2>1. PICK i \in DOMAIN s : s[i] = x
    BY DEF ToSet
  <2>2. i \in DOMAIN (s \o t) /\ (s \o t)[i] = x
    BY <1>1, <2>1
  <2>3. QED
    BY <2>2 DEF ToSet
<1>3. ASSUME NEW x \in ToSet(t) PROVE x \in ToSet(s \o t)
  <2>1. PICK i \in DOMAIN t : t[i] = x
    BY DEF ToSet
  <2>2. /\ Len(s) + i \in Len(s) + 1 .. Len(s) + Len(t)
        /\ Len(s) + i \in DOMAIN (s \o t) /\ Len(s) + i - Len(s) = i
    BY <1>1, <2>1
  <2>3. (s \o t)[Len(s) + i] = x
    BY <1>1, <2>1, <2>2
  <2>4. QED
    BY <2>2, <2>3 DEF ToSet
<1>4. ASSUME NEW x \in ToSet(s \o t) PROVE x \in ToSet(s) \cup ToSet(t)
  <2>1. PICK i \in DOMAIN (s \o t) : (s \o t)[i] = x
    BY DEF ToSet
  <2>2. CASE i <= Len(s)
    <3>1. i \in DOMAIN s /\ s[i] = x
      BY <1>1, <2>1, <2>2
    <3>2. QED
      BY <3>1 DEF ToSet
  <2>3. CASE i > Len(s)
    <3>1. i - Len(s) \in DOMAIN t /\ t[i - Len(s)] = x
      BY <1>1, <2>1, <2>3
    <3>2. QED
      BY <3>1 DEF ToSet
  <2>4. QED
    BY <1>1, <2>1, <2>2, <2>3
<1>5. QED
  BY <1>1, <1>2, <1>3, <1>4

\* A finite set put in a sequence, in some order, has those members.
LEMMA SetToSeqParts ==
  ASSUME NEW S, IsFiniteSet(S)
  PROVE  SetToSeq(S) \in Seq(S) /\ ToSet(SetToSeq(S)) = S
<1> DEFINE n == Cardinality(S)
           s == SetToSeq(S)
<1>1. n \in Nat /\ ExistsBijection(1 .. n, S)
  BY FS_CardinalityType
<1>2. PICK g \in Bijection(1 .. n, S) : TRUE
  BY <1>1 DEF ExistsBijection
<1>3. g \in [1 .. n -> S] /\ IsInjective(g)
  BY <1>2 DEF Bijection, Injection
<1>4. s \in [1 .. n -> S] /\ IsInjective(s)
  BY <1>3 DEF SetToSeq
<1>5. s \in Injection(1 .. n, S)
  BY <1>4 DEF Injection
<1>6. IsFiniteSet(1 .. n) /\ Cardinality(1 .. n) = n
  BY <1>1, FS_Interval
<1>7. s \in Surjection(1 .. n, S)
  BY <1>5, <1>6, FS_Injection
<1>8. s \in Seq(S)
  BY <1>1, <1>4
<1>9. ToSet(s) = S
  BY <1>4, <1>7 DEF ToSet, Surjection
<1>10. QED
  BY <1>8, <1>9

\* Leaving the one out of a sequence with no two alike leaves the others in.
LEMMA RemoveFirstParts ==
  ASSUME NEW S, NEW s \in Seq(S), IsInjective(s), NEW e
  PROVE  /\ RemoveFirst(s, e) \in Seq(S) /\ IsInjective(RemoveFirst(s, e))
         /\ ToSet(RemoveFirst(s, e)) = ToSet(s) \ {e}
<1> DEFINE I == {i \in 1 .. Len(s) : s[i] = e}
           k == SelectInSeq(s, LAMBDA v : v = e)
           r == RemoveFirst(s, e)
<1>1. Len(s) \in Nat /\ DOMAIN s = 1 .. Len(s) /\ \A i \in DOMAIN s : s[i] \in S
  OBVIOUS
<1>2. CASE I = {}
  <2>1. r = s
    BY <1>2 DEF RemoveFirst
  <2>2. e \notin ToSet(s)
    BY <1>1, <1>2 DEF ToSet
  <2>3. QED
    BY <2>1, <2>2
<1>3. CASE I # {}
  <2>1. PICK j \in 1 .. Len(s) : s[j] = e
    BY <1>3
  <2>2. I = {j}
    BY <1>1, <2>1 DEF IsInjective
  <2>3. Min({j}) = j
    BY <2>1 DEF Min
  <2>4. k = j
    BY <2>2, <2>3 DEF SelectInSeq
  <2>5. r = RemoveAt(s, j)
    BY <2>1, <2>4 DEF RemoveFirst
  <2>6. r = SubSeq(s, 1, j - 1) \o SubSeq(s, j + 1, Len(s))
    BY <2>5 DEF RemoveAt
  <2>7. /\ r \in Seq(S) /\ DOMAIN r = 1 .. Len(s) - 1
        /\ \A i \in DOMAIN r : /\ i < j => r[i] = s[i]
                               /\ i >= j => r[i] = s[i + 1]
    <3> DEFINE u == SubSeq(s, 1, j - 1)
               v == SubSeq(s, j + 1, Len(s))
    <3>1. /\ u \in Seq(S) /\ Len(u) = j - 1 /\ DOMAIN u = 1 .. j - 1
          /\ \A i \in 1 .. j - 1 : u[i] = s[i]
      <4>1. /\ u \in Seq(S) /\ Len(u) = (IF 1 <= j - 1 THEN (j - 1) - 1 + 1 ELSE 0)
            /\ \A i \in 1 .. (j - 1) - 1 + 1 : u[i] = s[1 + i - 1]
        BY <1>1, <2>1, SubSeqProperties
      <4>2. Len(u) = j - 1 /\ DOMAIN u = 1 .. j - 1
        BY <1>1, <2>1, <4>1, LenProperties
      <4>3. QED
        BY <1>1, <2>1, <4>1, <4>2
    <3>2. /\ v \in Seq(S) /\ Len(v) = Len(s) - j /\ DOMAIN v = 1 .. Len(s) - j
          /\ \A i \in 1 .. Len(s) - j : v[i] = s[i + j]
      <4>1. /\ v \in Seq(S) /\ Len(v) = (IF j + 1 <= Len(s) THEN Len(s) - (j + 1) + 1 ELSE 0)
            /\ \A i \in 1 .. Len(s) - (j + 1) + 1 : v[i] = s[j + 1 + i - 1]
        BY <1>1, <2>1, SubSeqProperties
      <4>2. Len(v) = Len(s) - j /\ DOMAIN v = 1 .. Len(s) - j
        BY <1>1, <2>1, <4>1, LenProperties
      <4>3. ASSUME NEW i \in 1 .. Len(s) - j PROVE v[i] = s[i + j]
        <5>1. i \in 1 .. Len(s) - (j + 1) + 1 /\ j + 1 + i - 1 = i + j
          BY <1>1, <2>1
        <5>2. QED
          BY <4>1, <5>1
      <4>4. QED
        BY <4>1, <4>2, <4>3
    <3> HIDE DEF u, v
    <3>3. r = u \o v
      BY <2>6 DEF u, v
    <3>4. /\ u \o v \in Seq(S) /\ DOMAIN (u \o v) = 1 .. Len(s) - 1
          /\ \A i \in 1 .. Len(s) - 1 : (u \o v)[i] = IF i <= j - 1 THEN u[i] ELSE v[i - (j - 1)]
      <4>1. /\ u \o v \in Seq(S) /\ Len(u \o v) = Len(u) + Len(v)
            /\ \A i \in 1 .. Len(u) + Len(v) :
                  (u \o v)[i] = IF i <= Len(u) THEN u[i] ELSE v[i - Len(u)]
        BY <3>1, <3>2, ConcatProperties
      <4>2. Len(u) + Len(v) = Len(s) - 1
        BY <1>1, <2>1, <3>1, <3>2
      <4>3. DOMAIN (u \o v) = 1 .. Len(s) - 1
        BY <4>1, <4>2, LenProperties
      <4>4. QED
        BY <3>1, <4>1, <4>2, <4>3
    <3>5. QED
      <4>1. r \in Seq(S) /\ DOMAIN r = 1 .. Len(s) - 1
        BY <3>3, <3>4
      <4>2. ASSUME NEW i \in DOMAIN r, i < j PROVE r[i] = s[i]
        <5>1. i \in 1 .. Len(s) - 1 /\ i <= j - 1 /\ i \in 1 .. j - 1
          BY <1>1, <2>1, <4>1, <4>2
        <5>2. r[i] = u[i]
          BY <3>3, <3>4, <5>1
        <5>3. QED
          BY <3>1, <5>1, <5>2
      <4>3. ASSUME NEW i \in DOMAIN r, i >= j PROVE r[i] = s[i + 1]
        <5>1. /\ i \in 1 .. Len(s) - 1 /\ ~(i <= j - 1)
              /\ i - (j - 1) \in 1 .. Len(s) - j /\ (i - (j - 1)) + j = i + 1
          BY <1>1, <2>1, <4>1, <4>3
        <5>2. r[i] = v[i - (j - 1)]
          BY <3>3, <3>4, <5>1
        <5>3. v[i - (j - 1)] = s[(i - (j - 1)) + j]
          BY <3>2, <5>1
        <5>4. QED
          BY <5>1, <5>2, <5>3
      <4>4. QED
        BY <4>1, <4>2, <4>3
  <2>8. IsInjective(r)
    <3> SUFFICES ASSUME NEW a \in DOMAIN r, NEW b \in DOMAIN r, r[a] = r[b] PROVE a = b
      BY DEF IsInjective
    <3>1. \A x, y \in 1 .. Len(s) : s[x] = s[y] => x = y
      BY <1>1 DEF IsInjective
    <3>2. QED
      BY <1>1, <2>1, <2>7, <3>1
  <2>9. ASSUME NEW x \in ToSet(r) PROVE x \in ToSet(s) /\ x # e
    <3>1. PICK i \in DOMAIN r : r[i] = x
      BY DEF ToSet
    <3>2. PICK m \in 1 .. Len(s) : s[m] = x /\ m # j
      BY <1>1, <2>1, <2>7, <3>1
    <3>3. x # e
      BY <1>1, <2>1, <3>2 DEF IsInjective
    <3>4. QED
      BY <1>1, <3>2, <3>3 DEF ToSet
  <2>10. ASSUME NEW x \in ToSet(s), x # e PROVE x \in ToSet(r)
    <3>1. PICK m \in 1 .. Len(s) : s[m] = x
      BY <1>1 DEF ToSet
    <3>2. m # j
      BY <2>1, <2>10, <3>1
    <3>3. PICK i \in DOMAIN r : r[i] = x
      <4>1. CASE m < j
        BY <1>1, <2>1, <2>7, <3>1, <4>1
      <4>2. CASE m > j
        <5>1. m - 1 \in DOMAIN r /\ m - 1 >= j /\ (m - 1) + 1 = m
          BY <1>1, <2>1, <2>7, <3>1, <4>2
        <5>2. r[m - 1] = x
          BY <2>7, <3>1, <5>1
        <5>3. QED
          BY <5>1, <5>2
      <4>3. QED
        BY <1>1, <2>1, <3>1, <3>2, <4>1, <4>2
    <3>4. QED
      BY <3>3 DEF ToSet
  <2>11. QED
    BY <2>7, <2>8, <2>9, <2>10
<1>4. QED
  BY <1>2, <1>3

-----------------------------------------------------------------------------
(* What the events, the frames and the machine's steps are.                 *)

LEMMA Constants ==
  /\ IsFiniteSet(Prompts) /\ Home \in Processes /\ None \notin Outcomes /\ None \notin Links
  /\ {MaxLinks, MaxReports, MaxFaults} \subseteq Nat /\ Reported \subseteq Levels
  /\ \A k \in Answers : k \notin {"absent", "open", "withdrawn", "expired", "nothing"}
  /\ Answers \subseteq Outcomes
BY PresenceConstants DEF Outcomes

LEMMA EventParts ==
  ASSUME NEW e \in Events
  PROVE  /\ e.t \in {"ask", "drop", "ran", "state"}
         /\ e.t = "ask" => e.p \in Prompts /\ e = [t |-> "ask", p |-> e.p]
         /\ e.t = "drop" => e.p \in Prompts /\ e.why \in {"terminal", "expired"}
         /\ e.t = "state" => e.level \in Levels
BY DEF Events

LEMMA EventValues ==
  /\ \A p \in Prompts : [t |-> "ask", p |-> p] \in Events
  /\ \A p \in Prompts, why \in {"terminal", "expired"} : [t |-> "drop", p |-> p, why |-> why] \in Events
  /\ [t |-> "ran"] \in Events
  /\ \A level \in Levels : [t |-> "state", level |-> level] \in Events
BY DEF Events

LEMMA FrameParts ==
  ASSUME NEW f \in Frames
  PROVE  /\ f.t = "level" => f.level \in Levels
         /\ f.t = "prompt" => f.p \in Prompts /\ f = [t |-> "prompt", p |-> f.p]
         /\ f.t = "withdraw" => f.p \in Prompts /\ f.why \in {"terminal", "expired"}
BY DEF Frames

LEMMA FrameValues ==
  /\ \A p \in Prompts : [t |-> "prompt", p |-> p] \in Frames
  /\ \A p \in Prompts, why \in {"terminal", "expired"} : WithdrawFrame(p, why) \in Frames
  /\ \A level \in Levels : [t |-> "level", level |-> level] \in Frames
BY DEF Frames, WithdrawFrame

LEMMA TidingParts ==
  ASSUME NEW n \in Tidings
  PROVE  /\ n.t \in {"closed", "connected"}
         /\ n.t = "closed" => n.outcome \in Prompts \X Outcomes
         /\ n.t = "connected" => n.c \in Links
BY DEF Tidings

LEMMA TidingValues ==
  /\ \A x \in Prompts \X Outcomes : [t |-> "closed", outcome |-> x] \in Tidings
  /\ \A c \in Links : [t |-> "connected", c |-> c] \in Tidings
BY DEF Tidings

\* On a new socket every prompt the machine holds is sent.
LEMMA FramesOfAsking ==
  ASSUME NEW m \in Machines
  PROVE  /\ PromptFrames(m) \in Seq(Frames)
         /\ \A p \in ToSet(m.asking) : [t |-> "prompt", p |-> p] \in ToSet(PromptFrames(m))
         /\ [i \in 1 .. Len(m.asking) |-> WithdrawFrame(m.asking[i], "terminal")] \in Seq(Frames)
<1>1. /\ m.asking \in Seq(Prompts) /\ Len(m.asking) \in Nat /\ DOMAIN m.asking = 1 .. Len(m.asking)
      /\ \A i \in 1 .. Len(m.asking) : m.asking[i] \in Prompts
  BY DEF Machines
<1>2. PromptFrames(m) \in Seq(Frames)
  BY <1>1, FrameValues DEF PromptFrames
<1>3. [i \in 1 .. Len(m.asking) |-> WithdrawFrame(m.asking[i], "terminal")] \in Seq(Frames)
  BY <1>1, FrameValues
<1>4. ASSUME NEW p \in ToSet(m.asking) PROVE [t |-> "prompt", p |-> p] \in ToSet(PromptFrames(m))
  <2>1. PICK i \in 1 .. Len(m.asking) : m.asking[i] = p
    BY <1>1 DEF ToSet
  <2>2. i \in DOMAIN PromptFrames(m) /\ PromptFrames(m)[i] = [t |-> "prompt", p |-> p]
    BY <2>1 DEF PromptFrames
  <2>3. QED
    BY <2>2 DEF ToSet
<1>5. QED
  BY <1>2, <1>3, <1>4

\* The machine without a prompt asks the others, and it no more.
LEMMA WithoutParts ==
  ASSUME NEW m \in Machines, IsInjective(m.asking), NEW p
  PROVE  /\ Without(m, p) \in Machines /\ IsInjective(Without(m, p).asking)
         /\ ToSet(Without(m, p).asking) = ToSet(m.asking) \ {p}
         /\ Without(m, p).link = m.link
<1>1. m.asking \in Seq(Prompts)
  BY DEF Machines
<1>2. /\ RemoveFirst(m.asking, p) \in Seq(Prompts) /\ IsInjective(RemoveFirst(m.asking, p))
      /\ ToSet(RemoveFirst(m.asking, p)) = ToSet(m.asking) \ {p}
  BY <1>1, RemoveFirstParts
<1>3. Without(m, p).asking = RemoveFirst(m.asking, p) /\ Without(m, p).link = m.link
  BY DEF Without, Machines
<1>4. Without(m, p) \in Machines
  BY <1>2 DEF Without, Machines
<1>5. QED
  BY <1>2, <1>3, <1>4

LEMMA WorkingIfIdleParts ==
  ASSUME NEW m \in Machines
  PROVE  /\ WorkingIfIdle(m) \in Machines /\ WorkingIfIdle(m).asking = m.asking
         /\ WorkingIfIdle(m).link = m.link
BY DEF WorkingIfIdle, Machines, Levels

\* The machine keeps its link; what it asks follows its events.
Follows(m, e, r) ==
    /\ r.next \in Machines /\ IsInjective(r.next.asking) /\ r.next.link = m.link
    /\ r.send \in Seq(Frames)
    /\ e.t = "ask" => /\ ToSet(r.next.asking) = ToSet(m.asking) \cup {e.p}
                      /\ [t |-> "prompt", p |-> e.p] \in ToSet(r.send)
    /\ e.t = "drop" => ToSet(r.next.asking) = ToSet(m.asking) \ {e.p}
    /\ e.t = "ran" => ToSet(r.next.asking) = {}
    /\ e.t = "state" => r.next.asking = m.asking

\* What each event makes of the machine: only an ask adds a prompt, which it
\* sends, and only a drop of it or a tool that ran takes one away.
LEMMA OnEventParts ==
  ASSUME NEW m \in Machines, IsInjective(m.asking), NEW e \in Events, NEW noted \in BOOLEAN,
         e.t = "ask" => e.p \notin ToSet(m.asking)
  PROVE  Follows(m, e, OnEvent(m, e, noted))
<1> DEFINE r == OnEvent(m, e, noted)
<1>1. m.asking \in Seq(Prompts) /\ m.level \in Levels /\ m.link \in Links \cup {None}
  BY DEF Machines
<1>2. CASE e.t = "state"
  <2>1. r = OnState(m, e.level, noted)
    BY <1>2 DEF OnEvent
  <2>2. e.level \in Levels /\ [t |-> "level", level |-> e.level] \in Frames
    BY <1>2, EventParts, FrameValues
  <2>3. /\ r.next = [m EXCEPT !.level = e.level]
        /\ r.send \in {<< >>, <<[t |-> "level", level |-> e.level]>>}
    BY <2>1 DEF OnState
  <2>4. << >> \in Seq(Frames) /\ <<[t |-> "level", level |-> e.level]>> \in Seq(Frames)
    BY <2>2
  <2>5. r.next \in Machines /\ r.next.asking = m.asking /\ r.next.link = m.link
    BY <2>2, <2>3 DEF Machines
  <2>6. r.send \in Seq(Frames)
    BY <2>3, <2>4
  <2>7. QED
    BY <1>2, <2>5, <2>6 DEF Follows
<1>3. CASE e.t = "ask"
  <2> DEFINE next == [m EXCEPT !.level = "permission", !.asking = Append(@, e.p)]
             f == [t |-> "prompt", p |-> e.p]
  <2>1. r = OnAsk(m, e.p)
    BY <1>3 DEF OnEvent
  <2>2. e.p \in Prompts /\ f \in Frames /\ e.p \notin ToSet(m.asking)
    BY <1>3, EventParts, FrameValues
  <2>3. r.next = next /\ r.send = <<LevelFrame(next), f>>
    BY <2>1 DEF OnAsk
  <2>4. /\ Append(m.asking, e.p) \in Seq(Prompts)
        /\ ToSet(Append(m.asking, e.p)) = ToSet(m.asking) \cup {e.p}
        /\ DOMAIN Append(m.asking, e.p) = 1 .. Len(m.asking) + 1
        /\ DOMAIN m.asking = 1 .. Len(m.asking) /\ Len(m.asking) \in Nat
        /\ Append(m.asking, e.p)[Len(m.asking) + 1] = e.p
        /\ \A i \in DOMAIN m.asking : Append(m.asking, e.p)[i] = m.asking[i]
    BY <1>1, <2>2, AppendParts
  <2>5. next \in Machines /\ next.asking = Append(m.asking, e.p) /\ next.link = m.link
        /\ next.level = "permission"
    BY <2>4 DEF Machines, Levels
  <2>6. \A i \in DOMAIN m.asking : m.asking[i] # e.p
    BY <1>1, <2>2, SetParts
  <2>7. IsInjective(Append(m.asking, e.p))
    BY <2>4, <2>6 DEF IsInjective
  <2>8. LevelFrame(next) \in Frames
    BY <2>5, FrameValues DEF LevelFrame, Levels
  <2>9. r.send \in Seq(Frames) /\ 2 \in DOMAIN r.send /\ r.send[2] = f
    BY <2>2, <2>3, <2>8
  <2>10. f \in ToSet(r.send)
    BY <2>9 DEF ToSet
  <2>11. QED
    BY <1>3, <2>3, <2>4, <2>5, <2>7, <2>9, <2>10 DEF Follows
<1>4. CASE e.t = "drop"
  <2>1. r = OnDrop(m, e.p, e.why)
    BY <1>4 DEF OnEvent
  <2>2. e.p \in Prompts /\ e.why \in {"terminal", "expired"} /\ WithdrawFrame(e.p, e.why) \in Frames
    BY <1>4, EventParts, FrameValues
  <2>3. CASE ~Asking(m, e.p)
    <3>1. r.next = m /\ r.send = << >> /\ e.p \notin ToSet(m.asking)
      BY <2>1, <2>3 DEF OnDrop, Asking
    <3>2. QED
      BY <1>4, <3>1, EmptyParts DEF Follows
  <2>4. CASE Asking(m, e.p)
    <3> DEFINE left == Without(m, e.p)
    <3>1. /\ r.next \in {left, WorkingIfIdle(left)}
          /\ r.send = <<WithdrawFrame(e.p, e.why)>>
      BY <2>1, <2>4 DEF OnDrop
    <3>2. /\ left \in Machines /\ IsInjective(left.asking) /\ left.link = m.link
          /\ ToSet(left.asking) = ToSet(m.asking) \ {e.p}
      BY WithoutParts
    <3>3. /\ WorkingIfIdle(left) \in Machines /\ WorkingIfIdle(left).asking = left.asking
          /\ WorkingIfIdle(left).link = left.link
      BY <3>2, WorkingIfIdleParts
    <3>4. r.send \in Seq(Frames)
      BY <2>2, <3>1
    <3>5. r.next \in Machines /\ r.next.asking = left.asking /\ r.next.link = m.link
      BY <3>1, <3>2, <3>3
    <3>6. QED
      BY <1>4, <3>2, <3>4, <3>5 DEF Follows
  <2>5. QED
    BY <2>3, <2>4
<1>5. CASE e.t = "ran"
  <2>1. r = OnRan(m)
    BY <1>5 DEF OnEvent
  <2>2. r.send \in Seq(Frames)
    BY <2>1, FramesOfAsking DEF OnRan
  <2>3. CASE m.asking = << >>
    <3>1. r.next = m
      BY <2>1, <2>3 DEF OnRan
    <3>2. QED
      BY <1>5, <2>2, <2>3, <3>1, EmptyParts DEF Follows
  <2>4. CASE m.asking # << >>
    <3>1. r.next = [m EXCEPT !.asking = << >>, !.level = "working"]
      BY <2>1, <2>4 DEF OnRan
    <3>2. r.next \in Machines /\ r.next.asking = << >> /\ r.next.link = m.link
      <4>1. << >> \in Seq(Prompts)
        BY EmptyParts
      <4>2. /\ m = [link |-> m.link, level |-> m.level, asking |-> m.asking]
            /\ r.next = [link |-> m.link, level |-> "working", asking |-> << >>]
        BY <3>1 DEF Machines
      <4>3. QED
        BY <1>1, <4>1, <4>2 DEF Machines, Levels
    <3>3. IsInjective(<< >>)
      BY DEF IsInjective
    <3>4. QED
      BY <1>5, <2>2, <3>2, <3>3, EmptyParts DEF Follows
  <2>5. QED
    BY <2>3, <2>4
<1>6. QED
  BY <1>2, <1>3, <1>4, <1>5, EventParts

-----------------------------------------------------------------------------
(* What is said over the bus.                                               *)

\* What is posted is added behind what is on its way to the others.
LEMMA PostParts ==
  ASSUME news \in [Processes -> [Processes -> Seq(Tidings)]],
         NEW a \in Processes, NEW told \in Seq(Tidings)
  PROVE  /\ Post(a, told) \in [Processes -> [Processes -> Seq(Tidings)]]
         /\ \A from, to \in Processes :
               ToSet(Post(a, told)[from][to]) =
                  ToSet(news[from][to]) \cup IF from = a /\ to # a THEN ToSet(told) ELSE {}
<1>1. ASSUME NEW from \in Processes, NEW to \in Processes
      PROVE  /\ news[from][to] \o told \in Seq(Tidings) /\ news[from][to] \in Seq(Tidings)
             /\ ToSet(news[from][to] \o told) = ToSet(news[from][to]) \cup ToSet(told)
  <2>1. news[from][to] \in Seq(Tidings)
    OBVIOUS
  <2>2. QED
    BY <2>1, ConcatParts
<1>2. \A from, to \in Processes :
         Post(a, told)[from][to] = IF from = a /\ to # a THEN news[from][to] \o told ELSE news[from][to]
  BY DEF Post
<1>3. Post(a, told) \in [Processes -> [Processes -> Seq(Tidings)]]
  BY <1>1 DEF Post
<1>4. QED
  BY <1>1, <1>2, <1>3

\* The tidings of some outcomes: a sequence of them, in some order.
LEMMA TidingsOfClosed ==
  ASSUME NEW closed \in SUBSET (Prompts \X Outcomes), IsFiniteSet(closed)
  PROVE  LET T == {[t |-> "closed", outcome |-> x] : x \in closed} IN
         SetToSeq(T) \in Seq(Tidings) /\ ToSet(SetToSeq(T)) = T
<1> DEFINE T == {[t |-> "closed", outcome |-> x] : x \in closed}
           f == [x \in closed |-> [t |-> "closed", outcome |-> x]]
<1>1. f \in Surjection(closed, T)
  BY DEF Surjection
<1>2. IsFiniteSet(T)
  BY <1>1, FS_Surjection
<1>3. SetToSeq(T) \in Seq(T) /\ ToSet(SetToSeq(T)) = T
  BY <1>2, SetToSeqParts
<1>4. T \subseteq Tidings
  BY TidingValues
<1>5. SetToSeq(T) \in Seq(Tidings)
  BY <1>3, <1>4, SeqMonotonic
<1>6. QED
  BY <1>3, <1>5

\* An announcement puts every closing before the hub's own socket, and on its
\* way to every other hub.
LEMMA AnnounceParts ==
  ASSUME SocketsTyped, ServerTyped, NEW a \in Processes,
         NEW closed \in SUBSET (Prompts \X Outcomes), IsFiniteSet(closed), Announce(a, closed)
  PROVE  /\ down' \in [Links -> SUBSET (Prompts \X Outcomes)]
         /\ \A c \in Links : down'[c] = down[c] \cup IF c = agent[a] THEN closed ELSE {}
         /\ news' \in [Processes -> [Processes -> Seq(Tidings)]]
         /\ \A from, to \in Processes :
               ToSet(news'[from][to]) = ToSet(news[from][to]) \cup
                  IF from = a /\ to # a THEN {[t |-> "closed", outcome |-> x] : x \in closed} ELSE {}
<1> DEFINE T == {[t |-> "closed", outcome |-> x] : x \in closed}
<1>1. SetToSeq(T) \in Seq(Tidings) /\ ToSet(SetToSeq(T)) = T
  BY TidingsOfClosed
<1>2. news' = Post(a, SetToSeq(T))
  BY DEF Announce
<1> HIDE DEF T
<1>3. /\ news' \in [Processes -> [Processes -> Seq(Tidings)]]
      /\ \A from, to \in Processes :
            ToSet(news'[from][to]) = ToSet(news[from][to]) \cup
               IF from = a /\ to # a THEN T ELSE {}
  <2> DEFINE told == SetToSeq(T)
  <2>1. told \in Seq(Tidings) /\ ToSet(told) = T
    BY <1>1
  <2>2. news' = Post(a, told)
    BY <1>2
  <2> HIDE DEF told
  <2>3. news \in [Processes -> [Processes -> Seq(Tidings)]]
    BY DEF ServerTyped
  <2>4. /\ Post(a, told) \in [Processes -> [Processes -> Seq(Tidings)]]
        /\ \A from, to \in Processes :
              ToSet(Post(a, told)[from][to]) =
                 ToSet(news[from][to]) \cup IF from = a /\ to # a THEN ToSet(told) ELSE {}
    BY <2>1, <2>3, PostParts
  <2>5. QED
    BY <2>1, <2>2, <2>4
<1>4. /\ down' \in [Links -> SUBSET (Prompts \X Outcomes)]
      /\ \A c \in Links : down'[c] = down[c] \cup IF c = agent[a] THEN closed ELSE {}
  BY DEF Announce, SocketsTyped
<1>5. QED
  BY <1>3, <1>4 DEF T

\* The closings of whatever prompts are open: so many, and no more.
LEMMA AllWithdrawn ==
  /\ {<<p, "withdrawn">> : p \in OpenPrompts} \in SUBSET (Prompts \X Outcomes)
  /\ IsFiniteSet({<<p, "withdrawn">> : p \in OpenPrompts})
<1> DEFINE T == {<<p, "withdrawn">> : p \in OpenPrompts}
           f == [p \in OpenPrompts |-> <<p, "withdrawn">>]
<1>1. OpenPrompts \subseteq Prompts /\ "withdrawn" \in Outcomes
  BY DEF OpenPrompts, Outcomes
<1>2. IsFiniteSet(OpenPrompts)
  BY <1>1, Constants, FS_Subset
<1>3. f \in Surjection(OpenPrompts, T)
  BY DEF Surjection
<1>4. IsFiniteSet(T)
  BY <1>2, <1>3, FS_Surjection
<1>5. QED
  BY <1>1, <1>4

-----------------------------------------------------------------------------
(* Steps of one kind keep the invariant together.                           *)

\* Open prompts close, and process a announces it: what no hub hears at once
\* is on its way to it.
LEMMA ClosingStep ==
  ASSUME IInv, NEW a \in Processes,
         NEW closed \in SUBSET (Prompts \X Outcomes), IsFiniteSet(closed), Announce(a, closed),
         UNCHANGED <<daemon, agent>>,
         prompt' \in [Prompts -> Outcomes \cup {"absent", "open"}],
         row' \in Levels \cup {"none", "done"},
         link' \in [Links -> Ends], up' \in [Links -> Seq(Frames)],
         \A p \in Prompts : prompt'[p] # prompt[p] => prompt[p] = "open" /\ <<p, prompt'[p]>> \in closed,
         \A x \in closed : prompt'[x[1]] = x[2],
         \A c \in Links : /\ link'[c].at = link[c].at /\ link'[c].displaced = link[c].displaced
                          /\ link'[c].state # link[c].state =>
                                link[c].state = "ending" /\ link'[c].state = "closed",
         \A c \in Links, p \in Prompts :
            [t |-> "prompt", p |-> p] \in ToSet(up[c]) => [t |-> "prompt", p |-> p] \in ToSet(up'[c])
  PROVE  IInv'
<1>1. DaemonTyped /\ SocketsTyped /\ ServerTyped /\ QueueInv /\ Recorded /\ LinkInv /\ ComingInv
  BY DEF IInv
<1>2. UNCHANGED <<hook, events, machine>>
  BY DEF daemon
<1>3. /\ down' \in [Links -> SUBSET (Prompts \X Outcomes)]
      /\ \A c \in Links : down'[c] = down[c] \cup IF c = agent[a] THEN closed ELSE {}
      /\ news' \in [Processes -> [Processes -> Seq(Tidings)]]
      /\ \A from, to \in Processes :
            ToSet(news'[from][to]) = ToSet(news[from][to]) \cup
               IF from = a /\ to # a THEN {[t |-> "closed", outcome |-> x] : x \in closed} ELSE {}
  BY <1>1, AnnounceParts
<1>4. DaemonTyped' /\ SocketsTyped' /\ ServerTyped'
  BY <1>1, <1>2, <1>3 DEF DaemonTyped, SocketsTyped, ServerTyped
<1>5. QueueInv'
  BY <1>1, <1>2 DEF QueueInv, Started, Held
<1>6. \A p \in Prompts : prompt[p] \in Answers => prompt'[p] = prompt[p]
  BY Constants
<1>7. Recorded'
  <2>1. ASSUME NEW p \in Prompts
        PROVE  /\ hook'[p].inbox \in Answers => prompt'[p] = hook'[p].inbox
               /\ hook'[p].told \in Answers => prompt'[p] = hook'[p].told
    BY <1>1, <1>2, <1>6 DEF Recorded
  <2>2. ASSUME NEW c \in Links, NEW x \in down'[c], x[2] \in Answers PROVE prompt'[x[1]] = x[2]
    <3>1. CASE x \in closed
      BY <3>1
    <3>2. CASE x \in down[c]
      <4>1. x[1] \in Prompts
        BY <1>1, <3>2 DEF SocketsTyped
      <4>2. QED
        BY <1>1, <1>6, <2>2, <3>2, <4>1 DEF Recorded
    <3>3. QED
      BY <1>3, <2>2, <3>1, <3>2
  <2>3. ASSUME NEW from \in Processes, NEW to \in Processes, NEW n \in ToSet(news'[from][to]),
               n.t = "closed", n.outcome[2] \in Answers
        PROVE  prompt'[n.outcome[1]] = n.outcome[2]
    <3>1. CASE n \in ToSet(news[from][to])
      <4>1. n \in Tidings
        BY <1>1, <3>1, SetParts DEF ServerTyped
      <4>2. n.outcome[1] \in Prompts
        BY <2>3, <4>1, TidingParts
      <4>3. QED
        BY <1>1, <1>6, <2>3, <3>1, <4>2 DEF Recorded
    <3>2. CASE n \notin ToSet(news[from][to])
      <4>1. PICK x \in closed : n = [t |-> "closed", outcome |-> x]
        BY <1>3, <2>3, <3>2
      <4>2. QED
        BY <4>1
    <3>3. QED
      BY <3>1, <3>2
  <2>4. QED
    BY <2>1, <2>2, <2>3 DEF Recorded
<1>8. LinkInv'
  <2>1. ASSUME NEW c \in Links
        PROVE  /\ link'[c].state # "off" => link'[c].at \in Processes
               /\ link'[c].state = "serving" /\ ~link'[c].displaced => agent'[link'[c].at] = c
    BY <1>1 DEF LinkInv
  <2>2. ASSUME Live PROVE link'[machine.link].state # "off"
    <3>1. machine.link \in Links /\ link[machine.link].state # "off"
      BY <1>1, <2>2 DEF LinkInv, Live, DaemonTyped, Machines
    <3>2. QED
      BY <3>1
  <2>3. QED
    BY <1>2, <2>1, <2>2 DEF LinkInv, Live
<1>9. ComingInv'
  <2> SUFFICES ASSUME NEW p \in Prompts, Held(hook[p]), ~Asked(p), Live
               PROVE  p \in ToSet(machine.asking) /\ OnLink(p, machine.link)'
    BY <1>1, <1>2 DEF ComingInv, Held, Asked, Live
  <2> DEFINE c == machine.link
  <2>1. p \in ToSet(machine.asking) /\ OnLink(p, c)
    BY <1>1 DEF ComingInv
  <2>2. c \in Links /\ c' = c /\ link[c].at \in Processes
    BY <1>1, <1>2 DEF DaemonTyped, Machines, Live, LinkInv
  <2>3. Sent(p, c) => Sent(p, c)'
    BY <1>2, <2>2 DEF Sent
  <2>4. Replied(p, c) => Replied(p, c)'
    BY <1>2, <1>3, <2>2 DEF Replied
  <2>5. OnTheBus(p, c) => OnTheBus(p, c)'
    <3> SUFFICES ASSUME OnTheBus(p, c) PROVE OnTheBus(p, c)'
      OBVIOUS
    <3>0. PICK from \in Processes : \E n \in ToSet(news[from][link[c].at]) :
             n.t = "closed" /\ n.outcome[1] = p
      BY DEF OnTheBus
    <3>1. PICK n \in ToSet(news[from][link[c].at]) : n.t = "closed" /\ n.outcome[1] = p
      BY <3>0
    <3>2. link'[c'].at = link[c].at
      BY <2>2
    <3>3. n \in ToSet(news'[from][link'[c'].at])
      BY <1>3, <2>2, <3>1, <3>2
    <3>4. QED
      BY <3>1, <3>3 DEF OnTheBus
  <2>6. ASSUME link[c].state = "serving", ~link[c].displaced, prompt[p] = "open", prompt'[p] # "open"
        PROVE  Replied(p, c)' \/ OnTheBus(p, c)'
    <3> DEFINE b == link[c].at
               x == <<p, prompt'[p]>>
    <3>1. x \in closed /\ agent[b] = c /\ x[1] = p /\ prompt'[p] \in Outcomes
      BY <1>1, <2>2, <2>6 DEF LinkInv
    <3>2. CASE a = b
      <4>1. x \in down'[c]
        BY <1>3, <2>2, <3>1, <3>2
      <4>2. QED
        BY <1>2, <2>2, <3>1, <4>1 DEF Replied
    <3>3. CASE a # b
      <4>0. ToSet(news'[a][b]) = ToSet(news[a][b]) \cup {[t |-> "closed", outcome |-> y] : y \in closed}
        BY <1>3, <2>2, <3>3
      <4>1. [t |-> "closed", outcome |-> x] \in ToSet(news'[a][b])
        BY <3>1, <4>0
      <4>2. link'[c'].at = b
        BY <2>2
      <4>3. \E n \in ToSet(news'[a][link'[c'].at]) : n.t = "closed" /\ n.outcome[1] = p
        BY <3>1, <4>1, <4>2
      <4>4. QED
        BY <4>3 DEF OnTheBus
    <3>4. QED
      BY <3>2, <3>3
  <2>7. OnLink(p, c)'
    BY <2>1, <2>2, <2>3, <2>4, <2>5, <2>6 DEF OnLink
  <2>8. QED
    BY <2>1, <2>7
<1>10. QED
  BY <1>4, <1>5, <1>7, <1>8, <1>9 DEF IInv

\* What a thread may put for the main thread, given what its hook has become.
NewEvent(e) ==
    /\ e \in Events
    /\ e.t = "ask" => /\ ~Started(hook[e.p]) /\ hook'[e.p].step = "waiting"
    /\ e.t = "drop" => hook'[e.p].step = "done"
    /\ e.t = "ran" => \A p \in Prompts : ~Held(hook'[p])

\* What a step may make of a hook.
HookGoesOn(p) ==
    /\ Started(hook[p]) => Started(hook'[p])
    /\ Held(hook'[p]) => Held(hook[p]) \/ (~Started(hook[p]) /\ Asked(p)')
    /\ hook[p].step = "done" => hook'[p].step = "done"
    /\ hook'[p].inbox \in Answers => hook'[p].inbox = hook[p].inbox
    /\ hook'[p].told \in Answers => hook'[p].told \in {hook[p].told, hook[p].inbox}

\* The hooks go on, and a thread may put an event: a hook holds on to a wait
\* that it had, or that it tells the main thread of.
LEMMA HookStep ==
  ASSUME IInv, hook' \in [Prompts -> Hooks], UNCHANGED <<machine, link, up, down, server>>,
         \A p \in Prompts : HookGoesOn(p),
         events' = events \/ \E e \in Events : events' = Append(events, e) /\ NewEvent(e)
  PROVE  IInv'
<1>1. DaemonTyped /\ SocketsTyped /\ ServerTyped /\ QueueInv /\ Recorded /\ LinkInv /\ ComingInv
  BY DEF IInv
<1>2. UNCHANGED <<machine, link, up, down, agent, news, row, prompt>>
  BY DEF server
<1>3. events \in Seq(Events) /\ Len(events) \in Nat /\ DOMAIN events = 1 .. Len(events)
      /\ \A i \in DOMAIN events : events[i] \in Events
  BY <1>1 DEF DaemonTyped
<1>4. PICK grown \in BOOLEAN, e \in Events :
         /\ ~grown => events' = events
         /\ grown => events' = Append(events, e) /\ NewEvent(e)
  <2>1. Events # {}
    BY EventValues
  <2>2. QED
    BY <2>1
<1>4a. \A p \in Prompts :
         /\ Started(hook[p]) => Started(hook'[p])
         /\ Held(hook'[p]) => Held(hook[p]) \/ (~Started(hook[p]) /\ Asked(p)')
         /\ hook[p].step = "done" => hook'[p].step = "done"
         /\ hook'[p].inbox \in Answers => hook'[p].inbox = hook[p].inbox
         /\ hook'[p].told \in Answers => hook'[p].told \in {hook[p].told, hook[p].inbox}
  BY DEF HookGoesOn
<1>5. e \in Events
  OBVIOUS
<1>6. /\ events' \in Seq(Events) /\ ToSet(events) \subseteq ToSet(events')
      /\ DOMAIN events \subseteq DOMAIN events' /\ DOMAIN events' \subseteq 1 .. Len(events) + 1
      /\ \A i \in DOMAIN events : events'[i] = events[i]
      /\ \A i \in DOMAIN events' \ DOMAIN events :
            i = Len(events) + 1 /\ grown /\ events'[i] = e
  <2>1. CASE grown
    <3>1. events' = Append(events, e) /\ e \in Events
      BY <1>4, <1>5, <2>1
    <3>2. /\ Append(events, e) \in Seq(Events)
          /\ ToSet(Append(events, e)) = ToSet(events) \cup {e}
          /\ DOMAIN Append(events, e) = 1 .. Len(events) + 1
          /\ Append(events, e)[Len(events) + 1] = e
          /\ \A i \in DOMAIN events : Append(events, e)[i] = events[i]
      BY <1>3, AppendParts
    <3>3. /\ events' \in Seq(Events) /\ ToSet(events') = ToSet(events) \cup {e}
          /\ DOMAIN events' = 1 .. Len(events) + 1 /\ events'[Len(events) + 1] = e
          /\ \A i \in DOMAIN events : events'[i] = events[i]
      BY <3>1, <3>2
    <3>4. \A i \in DOMAIN events' \ DOMAIN events : i = Len(events) + 1
      BY <1>3, <3>3
    <3>5. DOMAIN events \subseteq DOMAIN events'
      BY <1>3, <3>3
    <3>6. QED
      BY <2>1, <3>3, <3>4, <3>5
  <2>2. CASE ~grown
    <3>1. events' = events
      BY <1>4, <2>2
    <3>2. QED
      BY <1>3, <3>1
  <2>3. QED
    BY <2>1, <2>2
<1>7. DaemonTyped' /\ SocketsTyped' /\ ServerTyped'
  BY <1>1, <1>2, <1>6 DEF DaemonTyped, SocketsTyped, ServerTyped
<1>8. ASSUME NEW p \in Prompts, Started(hook[p]), ~Held(hook[p]) PROVE ~Held(hook'[p])
  BY <1>4a, <1>8
<1>9. /\ \A p \in ToSet(machine.asking) : p \in Prompts /\ Started(hook[p])
      /\ \A i \in DOMAIN events : events[i].t = "ask" => events[i].p \in Prompts /\ Started(hook[events[i].p])
  <2>1. ToSet(machine.asking) \subseteq Prompts
    BY <1>1, SetParts DEF DaemonTyped, Machines
  <2>2. QED
    BY <1>1, <1>3, <2>1, EventParts DEF QueueInv
<1>10. QueueInv'
  <2>1. \A p \in ToSet(machine'.asking) : Started(hook'[p])
    BY <1>2, <1>4a, <1>9
  <2>2. ASSUME NEW i \in DOMAIN events', events'[i].t = "ask"
        PROVE  /\ Started(hook'[events'[i].p]) /\ events'[i].p \notin ToSet(machine'.asking)
               /\ \A j \in DOMAIN events' : events'[j] = events'[i] => j = i
    <3>1. CASE i \in DOMAIN events
      <4>1. events'[i] = events[i] /\ Started(hook[events[i].p]) /\ Started(hook'[events'[i].p])
            /\ events[i].p \in Prompts
        BY <1>4a, <1>6, <1>9, <2>2, <3>1
      <4>2. ASSUME NEW j \in DOMAIN events', events'[j] = events'[i], j \notin DOMAIN events
            PROVE  FALSE
        <5>1. grown /\ e = events[i]
          BY <1>6, <4>1, <4>2
        <5>2. ~Started(hook[e.p])
          BY <1>4, <2>2, <4>1, <5>1 DEF NewEvent
        <5>3. QED
          BY <4>1, <5>1, <5>2
      <4>3. ASSUME NEW j \in DOMAIN events, events'[j] = events'[i] PROVE j = i
        <5>1. events[j] = events[i] /\ events[i].t = "ask"
          BY <1>6, <2>2, <4>1, <4>3
        <5>2. QED
          BY <1>1, <3>1, <5>1 DEF QueueInv
      <4>4. events[i].p \notin ToSet(machine.asking)
        BY <1>1, <2>2, <3>1, <4>1 DEF QueueInv
      <4>5. QED
        BY <1>2, <4>1, <4>2, <4>3, <4>4
    <3>2. CASE i \notin DOMAIN events
      <4>1. i = Len(events) + 1 /\ grown /\ events'[i] = e
        BY <1>6, <3>2
      <4>2. e.p \in Prompts /\ ~Started(hook[e.p]) /\ hook'[e.p].step = "waiting"
        BY <1>4, <1>5, <2>2, <4>1, EventParts DEF NewEvent
      <4>3. Started(hook'[e.p]) /\ e.p \notin ToSet(machine.asking)
        BY <1>9, <4>2 DEF Started
      <4>4. ASSUME NEW j \in DOMAIN events', events'[j] = e PROVE j = i
        <5>1. CASE j \in DOMAIN events
          <6>1. events[j] = e
            BY <1>6, <4>4, <5>1
          <6>2. Started(hook[e.p])
            BY <1>9, <2>2, <4>1, <5>1, <6>1
          <6>3. QED
            BY <4>2, <6>2
        <5>2. CASE j \notin DOMAIN events
          BY <1>6, <4>1, <5>2
        <5>3. QED
          BY <5>1, <5>2
      <4>5. QED
        BY <1>2, <4>1, <4>3, <4>4
    <3>3. QED
      BY <3>1, <3>2
  <2>3. ASSUME NEW i \in DOMAIN events', events'[i].t = "drop" PROVE hook'[events'[i].p].step = "done"
    <3>1. CASE i \in DOMAIN events
      <4>1. events'[i] = events[i] /\ events[i].p \in Prompts /\ hook[events[i].p].step = "done"
        BY <1>1, <1>3, <1>6, <2>3, <3>1, EventParts DEF QueueInv
      <4>2. QED
        BY <1>4a, <4>1
    <3>2. CASE i \notin DOMAIN events
      BY <1>4, <1>6, <2>3, <3>2 DEF NewEvent
    <3>3. QED
      BY <3>1, <3>2
  <2>4. ASSUME NEW i \in DOMAIN events', events'[i].t = "ran"
        PROVE  /\ \A p \in ToSet(machine'.asking) : ~Held(hook'[p])
               /\ \A j \in 1 .. i - 1 : events'[j].t = "ask" => ~Held(hook'[events'[j].p])
    <3>1. CASE i \in DOMAIN events
      <4>1. events[i].t = "ran"
        BY <1>6, <2>4, <3>1
      <4>2. /\ \A p \in ToSet(machine.asking) : ~Held(hook[p])
            /\ \A j \in 1 .. i - 1 : events[j].t = "ask" => ~Held(hook[events[j].p])
        BY <1>1, <3>1, <4>1 DEF QueueInv
      <4>3. \A j \in 1 .. i - 1 : j \in DOMAIN events /\ events'[j] = events[j]
        BY <1>3, <1>6, <3>1
      <4>4. \A p \in ToSet(machine'.asking) : ~Held(hook'[p])
        BY <1>2, <1>8, <1>9, <4>2
      <4>5. ASSUME NEW j \in 1 .. i - 1, events'[j].t = "ask" PROVE ~Held(hook'[events'[j].p])
        <5>1. events[j].t = "ask" /\ events'[j] = events[j] /\ j \in DOMAIN events
          BY <4>3, <4>5
        <5>2. events[j].p \in Prompts /\ Started(hook[events[j].p]) /\ ~Held(hook[events[j].p])
          BY <1>9, <4>2, <5>1
        <5>3. ~Held(hook'[events[j].p])
          BY <1>8, <5>2
        <5>4. QED
          BY <5>1, <5>3 DEF Held
      <4>6. QED
        BY <4>4, <4>5
    <3>2. CASE i \notin DOMAIN events
      <4>1. \A p \in Prompts : ~Held(hook'[p])
        BY <1>4, <1>6, <2>4, <3>2 DEF NewEvent
      <4>2. ASSUME NEW j \in 1 .. i - 1, events'[j].t = "ask" PROVE ~Held(hook'[events'[j].p])
        <5>1. j \in DOMAIN events /\ events'[j] = events[j]
          BY <1>3, <1>6, <3>2
        <5>2. events'[j].p \in Prompts
          BY <1>9, <4>2, <5>1
        <5>3. QED
          BY <4>1, <5>2 DEF Held
      <4>3. QED
        BY <1>2, <1>9, <4>1, <4>2
    <3>3. QED
      BY <3>1, <3>2
  <2>5. QED
    BY <2>1, <2>2, <2>3, <2>4 DEF QueueInv
<1>11. Recorded'
  <2>1. ASSUME NEW p \in Prompts
        PROVE  /\ hook'[p].inbox \in Answers => prompt'[p] = hook'[p].inbox
               /\ hook'[p].told \in Answers => prompt'[p] = hook'[p].told
    BY <1>1, <1>2, <1>4a DEF Recorded
  <2>2. QED
    BY <1>1, <1>2, <2>1 DEF Recorded
<1>12. LinkInv'
  BY <1>1, <1>2 DEF LinkInv, Live
<1>13. ComingInv'
  <2> SUFFICES ASSUME NEW p \in Prompts, Held(hook'[p]), ~Asked(p)'
               PROVE  p \in ToSet(machine.asking) /\ (Live => OnLink(p, machine.link)')
    BY <1>2 DEF ComingInv, Live
  <2>1. Held(hook[p]) /\ ~Asked(p)
    BY <1>4a, <1>6 DEF Asked
  <2>2. p \in ToSet(machine.asking) /\ (Live => OnLink(p, machine.link))
    BY <1>1, <2>1 DEF ComingInv
  <2>3. OnLink(p, machine.link)' = OnLink(p, machine.link)
    BY <1>2 DEF OnLink, Sent, Replied, OnTheBus
  <2>4. QED
    BY <2>2, <2>3
<1>14. QED
  BY <1>7, <1>10, <1>11, <1>12, <1>13 DEF IInv

-----------------------------------------------------------------------------
(* The hooks and the daemon's threads.                                      *)

LEMMA HookParts ==
  ASSUME IInv, NEW p \in Prompts
  PROVE  /\ hook \in [Prompts -> Hooks]
         /\ hook[p].step \in {"idle", "begun", "waiting", "done"}
         /\ hook[p].inbox \in Outcomes \cup {None} /\ hook[p].told \in Outcomes \cup {"nothing", None}
BY DEF IInv, DaemonTyped, Hooks

LEMMA ExpectStep ==
  ASSUME IInv, NEW p \in Prompts, Expect(p)
  PROVE  IInv'
<1>1. /\ hook[p].step = "idle" /\ hook' = [hook EXCEPT ![p].step = "begun"]
      /\ events' = events /\ UNCHANGED <<machine, link, up, down, server>>
  BY DEF Expect
<1>2. hook' \in [Prompts -> Hooks]
  BY <1>1, HookParts DEF Hooks
<1>3. /\ \A q \in Prompts : q # p => hook'[q] = hook[q]
      /\ hook'[p] = [hook[p] EXCEPT !.step = "begun"]
  BY <1>1, HookParts
<1>4. /\ hook'[p].step = "begun" /\ hook'[p].inbox = hook[p].inbox /\ hook'[p].told = hook[p].told
  BY <1>3, HookParts DEF Hooks
<1>5. \A q \in Prompts : HookGoesOn(q)
  BY <1>1, <1>3, <1>4 DEF HookGoesOn, Started, Held
<1>6. QED
  BY <1>1, <1>2, <1>5, HookStep

LEMMA AskStep ==
  ASSUME IInv, NEW p \in Prompts, Ask(p)
  PROVE  IInv'
<1> DEFINE e == [t |-> "ask", p |-> p]
<1>1. /\ hook[p].step = "begun" /\ hook' = [hook EXCEPT ![p].step = "waiting"]
      /\ events' = Append(events, e) /\ UNCHANGED <<machine, link, up, down, server>>
  BY DEF Ask
<1>2. hook' \in [Prompts -> Hooks]
  BY <1>1, HookParts DEF Hooks
<1>3. /\ \A q \in Prompts : q # p => hook'[q] = hook[q]
      /\ hook'[p].step = "waiting" /\ hook'[p].inbox = hook[p].inbox /\ hook'[p].told = hook[p].told
  BY <1>1, HookParts DEF Hooks
<1>4. e \in Events /\ e.t = "ask" /\ e.p = p
  BY EventValues
<1>5. Asked(p)'
  <2>1. events \in Seq(Events)
    BY DEF IInv, DaemonTyped
  <2>2. QED
    BY <1>1, <1>4, <2>1, AppendParts DEF Asked
<1>6. \A q \in Prompts : HookGoesOn(q)
  BY <1>1, <1>3, <1>5 DEF HookGoesOn, Started, Held
<1>7. NewEvent(e)
  BY <1>1, <1>3, <1>4 DEF NewEvent, Started
<1> HIDE DEF e
<1>8. QED
  BY <1>1, <1>2, <1>4, <1>6, <1>7, HookStep

LEMMA TakeStep ==
  ASSUME IInv, NEW p \in Prompts, Take(p)
  PROVE  IInv'
<1>1. /\ hook[p].step = "waiting"
      /\ hook' = [hook EXCEPT ![p] = [step |-> "done", inbox |-> None, told |-> hook[p].inbox]]
      /\ events' = events /\ UNCHANGED <<machine, link, up, down, server>>
  BY DEF Take
<1>2. hook' \in [Prompts -> Hooks]
  BY <1>1, HookParts DEF Hooks
<1>3. /\ \A q \in Prompts : q # p => hook'[q] = hook[q]
      /\ hook'[p] = [step |-> "done", inbox |-> None, told |-> hook[p].inbox]
  BY <1>1, HookParts
<1>4. None \notin Answers
  BY Constants
<1>5. \A q \in Prompts : HookGoesOn(q)
  BY <1>1, <1>3, <1>4 DEF HookGoesOn, Started, Held
<1>6. QED
  BY <1>1, <1>2, <1>5, HookStep

LEMMA GiveUpStep ==
  ASSUME IInv, NEW p \in Prompts, NEW why \in {"terminal", "expired"}, GiveUp(p, why)
  PROVE  IInv'
<1> DEFINE e == [t |-> "drop", p |-> p, why |-> why]
<1>1. /\ hook[p].step = "waiting"
      /\ hook' = [hook EXCEPT ![p] = [step |-> "done", inbox |-> None, told |-> "nothing"]]
      /\ events' = Append(events, e) /\ UNCHANGED <<machine, link, up, down, server>>
  BY DEF GiveUp
<1>2. hook' \in [Prompts -> Hooks]
  BY <1>1, HookParts DEF Hooks
<1>3. /\ \A q \in Prompts : q # p => hook'[q] = hook[q]
      /\ hook'[p] = [step |-> "done", inbox |-> None, told |-> "nothing"]
  BY <1>1, HookParts
<1>4. None \notin Answers /\ "nothing" \notin Answers
  BY Constants
<1>5. \A q \in Prompts : HookGoesOn(q)
  BY <1>1, <1>3, <1>4 DEF HookGoesOn, Started, Held
<1>6. e \in Events /\ e.t = "drop" /\ e.p = p
  BY EventValues
<1>7. NewEvent(e)
  BY <1>3, <1>6 DEF NewEvent
<1> HIDE DEF e
<1>8. QED
  BY <1>1, <1>2, <1>5, <1>6, <1>7, HookStep

LEMMA RanStep ==
  ASSUME IInv, Ran
  PROVE  IInv'
<1> DEFINE e == [t |-> "ran"]
<1>1. /\ hook' = [p \in Prompts |-> IF Waiting(p) THEN [hook[p] EXCEPT !.inbox = "withdrawn"] ELSE hook[p]]
      /\ events' = Append(events, e) /\ UNCHANGED <<machine, link, up, down, server>>
  BY DEF Ran
<1>2. "withdrawn" \in Outcomes /\ "withdrawn" \notin Answers /\ None \notin Outcomes
  BY Constants DEF Outcomes
<1>3. ASSUME NEW p \in Prompts
      PROVE  /\ hook'[p] \in Hooks /\ hook'[p].step = hook[p].step /\ hook'[p].told = hook[p].told
             /\ hook'[p].inbox = IF Waiting(p) THEN "withdrawn" ELSE hook[p].inbox
  BY <1>1, <1>2, HookParts DEF Hooks
<1>4. hook' \in [Prompts -> Hooks]
  BY <1>1, <1>3
<1>5. \A p \in Prompts : ~Held(hook'[p])
  BY <1>2, <1>3 DEF Held, Waiting
<1>6. \A p \in Prompts : HookGoesOn(p)
  BY <1>2, <1>3, <1>5 DEF HookGoesOn, Started
<1>7. e \in Events /\ e.t = "ran"
  BY EventValues
<1>8. NewEvent(e)
  BY <1>5, <1>7 DEF NewEvent
<1> HIDE DEF e
<1>9. QED
  BY <1>1, <1>4, <1>6, <1>7, <1>8, HookStep

LEMMA ReportStep ==
  ASSUME IInv, NEW level \in Reported, Report(level)
  PROVE  IInv'
<1> DEFINE e == [t |-> "state", level |-> level]
<1>1. events' = Append(events, e) /\ UNCHANGED <<machine, link, up, down, server>>
      /\ hook' = hook
  BY DEF Report
<1>2. e \in Events /\ e.t = "state"
  BY Constants, EventValues
<1>3. NewEvent(e)
  BY <1>2 DEF NewEvent
<1>4. hook' \in [Prompts -> Hooks]
  BY <1>1 DEF IInv, DaemonTyped
<1>5. \A p \in Prompts : HookGoesOn(p)
  BY <1>1 DEF HookGoesOn
<1> HIDE DEF e
<1>6. QED
  BY <1>1, <1>2, <1>3, <1>4, <1>5, HookStep

-----------------------------------------------------------------------------
(* The machine's steps.                                                     *)

LEMMA MachineParts ==
  ASSUME IInv
  PROVE  /\ machine \in Machines /\ machine.asking \in Seq(Prompts) /\ IsInjective(machine.asking)
         /\ ToSet(machine.asking) \subseteq Prompts
         /\ machine.link \in Links \cup {None} /\ (Live => machine.link \in Links)
<1>1. machine \in Machines /\ machine.asking \in Seq(Prompts) /\ IsInjective(machine.asking)
      /\ machine.link \in Links \cup {None}
  BY DEF IInv, DaemonTyped, Machines
<1>2. ToSet(machine.asking) \subseteq Prompts
  BY <1>1, SetParts
<1>3. QED
  BY <1>1, <1>2 DEF Live

\* The machine takes an event: a prompt it asks goes on the live link, and one
\* it lets go of is one that no hook is held for.
LEMMA StepStep ==
  ASSUME IInv, NEW noted \in BOOLEAN, Step(noted)
  PROVE  IInv'
<1> DEFINE e == Head(events)
           r == OnEvent(machine, e, noted)
<1>0. DaemonTyped /\ SocketsTyped /\ ServerTyped /\ QueueInv /\ Recorded /\ LinkInv /\ ComingInv
  BY DEF IInv
<1>1. /\ events # << >> /\ events' = Tail(events) /\ machine' = r.next
      /\ up' = (IF Live THEN [up EXCEPT ![machine.link] = @ \o r.send] ELSE up)
      /\ UNCHANGED <<hook, link, down, server>>
  BY DEF Step
<1>2. UNCHANGED <<agent, news, row, prompt>>
  BY <1>1 DEF server
<1>3. /\ events' \in Seq(Events) /\ e \in Events /\ e = events[1] /\ 1 \in DOMAIN events
      /\ ToSet(events) = {e} \cup ToSet(events')
      /\ DOMAIN events = 1 .. Len(events) /\ DOMAIN events' = 1 .. Len(events) - 1
      /\ Len(events) \in Nat
      /\ \A i \in DOMAIN events' : i + 1 \in DOMAIN events /\ events'[i] = events[i + 1]
  BY <1>0, <1>1, TailParts DEF DaemonTyped
<1>4. e.t = "ask" => e.p \in Prompts /\ Started(hook[e.p]) /\ e.p \notin ToSet(machine.asking)
  BY <1>0, <1>3, EventParts DEF QueueInv
<1>5. /\ r.next \in Machines /\ IsInjective(r.next.asking) /\ r.next.link = machine.link
      /\ r.send \in Seq(Frames)
      /\ e.t = "ask" => /\ ToSet(r.next.asking) = ToSet(machine.asking) \cup {e.p}
                        /\ [t |-> "prompt", p |-> e.p] \in ToSet(r.send)
      /\ e.t = "drop" => ToSet(r.next.asking) = ToSet(machine.asking) \ {e.p}
      /\ e.t = "ran" => ToSet(r.next.asking) = {}
      /\ e.t = "state" => r.next.asking = machine.asking
  <2>1. machine \in Machines /\ IsInjective(machine.asking)
    BY MachineParts
  <2>2. e \in Events /\ (e.t = "ask" => e.p \notin ToSet(machine.asking))
    BY <1>3, <1>4
  <2> HIDE DEF e
  <2>3. Follows(machine, e, r)
    BY <2>1, <2>2, OnEventParts
  <2> HIDE DEF r
  <2>4. QED
    BY <2>3 DEF Follows
<1> DEFINE S == r.send
<1> HIDE DEF e, r
<1>6. /\ up' \in [Links -> Seq(Frames)]
      /\ \A c \in Links : ToSet(up[c]) \subseteq ToSet(up'[c])
      /\ Live => \A f \in ToSet(S) : f \in ToSet(up'[machine.link])
  <2>1. CASE Live
    <3> DEFINE c == machine.link
    <3>1. c \in Links /\ up[c] \in Seq(Frames)
      BY <1>0, <2>1, MachineParts DEF SocketsTyped
    <3>2. up[c] \o S \in Seq(Frames) /\ ToSet(up[c] \o S) = ToSet(up[c]) \cup ToSet(S)
      BY <1>5, <3>1, ConcatParts
    <3>3. up' = [up EXCEPT ![c] = up[c] \o S] /\ up \in [Links -> Seq(Frames)]
      BY <1>0, <1>1, <2>1 DEF SocketsTyped
    <3>4. up'[c] = up[c] \o S /\ \A d \in Links : d # c => up'[d] = up[d]
      BY <3>1, <3>3
    <3>5. QED
      BY <3>1, <3>2, <3>3, <3>4
  <2>2. CASE ~Live
    BY <1>0, <1>1, <2>2 DEF SocketsTyped
  <2>3. QED
    BY <2>1, <2>2
<1>7. DaemonTyped' /\ SocketsTyped' /\ ServerTyped'
  BY <1>0, <1>1, <1>2, <1>3, <1>5, <1>6 DEF DaemonTyped, SocketsTyped, ServerTyped
<1>8. ToSet(machine'.asking) \subseteq ToSet(machine.asking) \cup (IF e.t = "ask" THEN {e.p} ELSE {})
  BY <1>1, <1>3, <1>5, EventParts
<1>9. QueueInv'
  <2>1. \A p \in ToSet(machine'.asking) : Started(hook[p])
    BY <1>0, <1>4, <1>8 DEF QueueInv
  <2>2. ASSUME NEW i \in DOMAIN events'
        PROVE  /\ i + 1 \in DOMAIN events /\ events'[i] = events[i + 1] /\ i + 1 # 1
               /\ i \in Nat /\ events[i + 1] \in Events
    BY <1>0, <1>3 DEF DaemonTyped
  <2>3. ASSUME NEW i \in DOMAIN events', events'[i].t = "ask"
        PROVE  /\ Started(hook[events'[i].p]) /\ events'[i].p \notin ToSet(machine'.asking)
               /\ \A j \in DOMAIN events' : events'[j] = events'[i] => j = i
    <3>1. /\ Started(hook[events[i + 1].p]) /\ events[i + 1].p \notin ToSet(machine.asking)
          /\ \A j \in DOMAIN events : events[j] = events[i + 1] => j = i + 1
      BY <1>0, <2>2, <2>3 DEF QueueInv
    <3>2. ASSUME e.t = "ask", e.p = events[i + 1].p PROVE FALSE
      <4>1. e = [t |-> "ask", p |-> e.p] /\ events[i + 1] = [t |-> "ask", p |-> events[i + 1].p]
        BY <1>3, <2>2, <2>3, <3>2, EventParts
      <4>2. events[1] = events[i + 1]
        BY <1>3, <3>2, <4>1
      <4>3. QED
        BY <1>3, <2>2, <3>1, <4>2
    <3>3. events'[i].p \notin ToSet(machine'.asking)
      BY <1>8, <2>2, <3>1, <3>2
    <3>4. ASSUME NEW j \in DOMAIN events', events'[j] = events'[i] PROVE j = i
      BY <2>2, <3>1, <3>4
    <3>5. QED
      BY <2>2, <3>1, <3>3, <3>4
  <2>4. ASSUME NEW i \in DOMAIN events', events'[i].t = "drop" PROVE hook[events'[i].p].step = "done"
    BY <1>0, <2>2, <2>4 DEF QueueInv
  <2>5. ASSUME NEW i \in DOMAIN events', events'[i].t = "ran"
        PROVE  /\ \A p \in ToSet(machine'.asking) : ~Held(hook[p])
               /\ \A j \in 1 .. i - 1 : events'[j].t = "ask" => ~Held(hook[events'[j].p])
    <3>1. /\ \A p \in ToSet(machine.asking) : ~Held(hook[p])
          /\ \A j \in 1 .. i : events[j].t = "ask" => ~Held(hook[events[j].p])
      <4>1. (i + 1) - 1 = i
        BY <2>2
      <4>2. QED
        BY <1>0, <2>2, <2>5, <4>1 DEF QueueInv
    <3>2. 1 \in 1 .. i
      BY <1>3
    <3>3. e.t = "ask" => ~Held(hook[e.p])
      BY <1>3, <3>1, <3>2
    <3>4. ASSUME NEW j \in 1 .. i - 1, events'[j].t = "ask" PROVE ~Held(hook[events'[j].p])
      <4>1. j \in DOMAIN events' /\ j + 1 \in 1 .. i
        BY <1>3
      <4>2. QED
        BY <2>2, <3>1, <3>4, <4>1
    <3>5. QED
      BY <1>8, <3>1, <3>3, <3>4
  <2>6. QED
    BY <1>1, <2>1, <2>3, <2>4, <2>5 DEF QueueInv
<1>10. Recorded'
  BY <1>0, <1>1, <1>2 DEF Recorded
<1>11. machine'.link = machine.link
  BY <1>1, <1>5
<1>12. LinkInv'
  BY <1>0, <1>1, <1>2, <1>11 DEF LinkInv, Live
<1>13. ComingInv'
  <2> SUFFICES ASSUME NEW p \in Prompts, Held(hook[p]), ~Asked(p)'
               PROVE  p \in ToSet(machine'.asking) /\ (Live => OnLink(p, machine.link)')
    BY <1>1, <1>11 DEF ComingInv, Live
  <2>1. CASE e = [t |-> "ask", p |-> p]
    <3>1. e.t = "ask" /\ e.p = p
      BY <2>1
    <3>2. p \in ToSet(machine'.asking) /\ [t |-> "prompt", p |-> p] \in ToSet(S)
      BY <1>1, <1>5, <3>1
    <3>3. Live => OnLink(p, machine.link)'
      BY <1>6, <1>11, <3>2 DEF OnLink, Sent
    <3>4. QED
      BY <3>2, <3>3
  <2>2. CASE e # [t |-> "ask", p |-> p]
    <3>1. ~Asked(p)
      BY <1>3, <2>2 DEF Asked
    <3>2. p \in ToSet(machine.asking) /\ (Live => OnLink(p, machine.link))
      BY <1>0, <3>1 DEF ComingInv
    <3>3. e.t = "drop" => e.p # p
      BY <1>0, <1>3 DEF QueueInv, Held
    <3>4. e.t # "ran"
      BY <1>0, <1>3, <3>2 DEF QueueInv
    <3>5. p \in ToSet(machine'.asking)
      BY <1>1, <1>3, <1>5, <3>2, <3>3, <3>4, EventParts
    <3>6. ASSUME Live PROVE OnLink(p, machine.link)'
      <4>1. machine.link \in Links /\ OnLink(p, machine.link)
        BY <3>2, <3>6, MachineParts
      <4>2. Sent(p, machine.link) => Sent(p, machine.link)'
        BY <1>6, <1>11, <4>1 DEF Sent
      <4>3. QED
        BY <1>1, <1>2, <1>11, <4>1, <4>2 DEF OnLink, Replied, OnTheBus
    <3>7. QED
      BY <3>5, <3>6
  <2>3. QED
    BY <2>1, <2>2
<1>14. QED
  BY <1>7, <1>9, <1>10, <1>12, <1>13 DEF IInv

LEMMA LinkParts ==
  ASSUME IInv, NEW c \in Links
  PROVE  /\ link \in [Links -> Ends] /\ link[c] \in Ends /\ up[c] \in Seq(Frames)
         /\ link[c].state \in {"off", "open", "serving", "ending", "closed"}
         /\ link[c].at \in Processes \cup {None} /\ link[c].displaced \in BOOLEAN
         /\ link[c].cut \in BOOLEAN
         /\ link[c].state # "off" => link[c].at \in Processes
BY DEF IInv, SocketsTyped, LinkInv, Ends

\* On a new socket the prompts the machine holds are sent again, those whose
\* outcome was lost with the last one included.
LEMMA ConnectStep ==
  ASSUME IInv, NEW c \in Links, NEW a \in Processes, Connect(c, a)
  PROVE  IInv'
<1> DEFINE first == <<LevelFrame(machine)>>
           asked == PromptFrames(machine)
<1>0. DaemonTyped /\ SocketsTyped /\ ServerTyped /\ QueueInv /\ Recorded /\ LinkInv /\ ComingInv
  BY DEF IInv
<1>1. /\ ~Live /\ link[c].state = "off"
      /\ machine' = [machine EXCEPT !.link = c]
      /\ link' = [link EXCEPT ![c].state = "open", ![c].at = a]
      /\ up' = [up EXCEPT ![c] = first \o asked]
      /\ UNCHANGED <<hook, events, down, agent, news, row, prompt>>
  BY DEF Connect, server
<1>2. /\ machine' \in Machines /\ machine'.asking = machine.asking /\ machine'.link = c
  BY <1>1, MachineParts DEF Machines
<1>3. /\ link' \in [Links -> Ends] /\ link'[c].state = "open" /\ link'[c].at = a
      /\ \A d \in Links : d # c => link'[d] = link[d]
  BY <1>1, LinkParts DEF Ends
<1>4. LevelFrame(machine) \in Frames
  BY MachineParts, FrameValues DEF LevelFrame, Machines
<1>5. first \in Seq(Frames)
  BY <1>4
<1>6. /\ asked \in Seq(Frames)
      /\ \A p \in ToSet(machine.asking) : [t |-> "prompt", p |-> p] \in ToSet(asked)
  BY MachineParts, FramesOfAsking
<1> HIDE DEF first, asked
<1>7. first \o asked \in Seq(Frames) /\ ToSet(first \o asked) = ToSet(first) \cup ToSet(asked)
  BY <1>5, <1>6, ConcatParts
<1>8. /\ up' \in [Links -> Seq(Frames)]
      /\ \A p \in ToSet(machine.asking) : [t |-> "prompt", p |-> p] \in ToSet(up'[c])
  BY <1>0, <1>1, <1>6, <1>7 DEF SocketsTyped
<1>9. DaemonTyped' /\ SocketsTyped' /\ ServerTyped'
  BY <1>0, <1>1, <1>2, <1>3, <1>8 DEF DaemonTyped, SocketsTyped, ServerTyped
<1>10. QueueInv'
  BY <1>0, <1>1, <1>2 DEF QueueInv
<1>11. Recorded'
  BY <1>0, <1>1 DEF Recorded
<1>12. LinkInv'
  BY <1>0, <1>1, <1>2, <1>3 DEF LinkInv, Live
<1>13. ComingInv'
  <2> SUFFICES ASSUME NEW p \in Prompts, Held(hook[p]), ~Asked(p)
               PROVE  p \in ToSet(machine'.asking) /\ OnLink(p, machine.link)'
    BY <1>1 DEF ComingInv, Asked
  <2>1. p \in ToSet(machine.asking)
    BY <1>0 DEF ComingInv
  <2>2. [t |-> "prompt", p |-> p] \in ToSet(up'[c])
    BY <1>8, <2>1
  <2>3. OnLink(p, machine.link)'
    BY <1>2, <2>2 DEF OnLink, Sent
  <2>4. QED
    BY <1>2, <2>1, <2>3
<1>14. QED
  BY <1>9, <1>10, <1>11, <1>12, <1>13 DEF IInv

LEMMA LoseLinkStep ==
  ASSUME IInv, LoseLink
  PROVE  IInv'
<1> DEFINE c == machine.link
<1>0. DaemonTyped /\ SocketsTyped /\ ServerTyped /\ QueueInv /\ Recorded /\ LinkInv /\ ComingInv
  BY DEF IInv
<1>1. /\ Live /\ machine' = [machine EXCEPT !.link = None]
      /\ link' = [link EXCEPT ![c].cut = TRUE]
      /\ down' = [down EXCEPT ![c] = {}]
      /\ UNCHANGED <<hook, events, up, agent, news, row, prompt>>
  BY DEF LoseLink, server
<1>2. /\ machine' \in Machines /\ machine'.asking = machine.asking /\ machine'.link = None
      /\ c \in Links
  BY <1>1, MachineParts DEF Machines
<1>3. /\ link' \in [Links -> Ends]
      /\ \A d \in Links : /\ link'[d].state = link[d].state /\ link'[d].at = link[d].at
                          /\ link'[d].displaced = link[d].displaced
  BY <1>1, <1>2, LinkParts DEF Ends
<1>4. /\ down' \in [Links -> SUBSET (Prompts \X Outcomes)]
      /\ \A d \in Links : down'[d] \subseteq down[d]
  BY <1>0, <1>1, <1>2 DEF SocketsTyped
<1>5. ~Live'
  BY <1>2 DEF Live
<1>6. DaemonTyped' /\ SocketsTyped' /\ ServerTyped'
  BY <1>0, <1>1, <1>2, <1>3, <1>4 DEF DaemonTyped, SocketsTyped, ServerTyped
<1>7. QueueInv'
  BY <1>0, <1>1, <1>2 DEF QueueInv
<1>8. Recorded'
  BY <1>0, <1>1, <1>4 DEF Recorded
<1>9. LinkInv'
  BY <1>0, <1>1, <1>3, <1>5 DEF LinkInv
<1>10. ComingInv'
  BY <1>0, <1>1, <1>2, <1>5 DEF ComingInv, Asked
<1>11. QED
  BY <1>6, <1>7, <1>8, <1>9, <1>10 DEF IInv

LEMMA HearStep ==
  ASSUME IInv, NEW p \in Prompts, NEW outcome \in Outcomes, Hear(p, outcome)
  PROVE  IInv'
<1> DEFINE c == machine.link
           left == Without(machine, p)
           x == <<p, outcome>>
<1>0. DaemonTyped /\ SocketsTyped /\ ServerTyped /\ QueueInv /\ Recorded /\ LinkInv /\ ComingInv
  BY DEF IInv
<1>1. /\ Live /\ x \in down[c] /\ down' = [down EXCEPT ![c] = @ \ {x}]
      /\ hook' = (IF Waiting(p) THEN [hook EXCEPT ![p].inbox = outcome] ELSE hook)
      /\ machine' \in {left, WorkingIfIdle(left)}
      /\ UNCHANGED <<events, link, up, agent, news, row, prompt>>
  BY DEF Hear, server
<1>2. /\ left \in Machines /\ IsInjective(left.asking) /\ left.link = c
      /\ ToSet(left.asking) = ToSet(machine.asking) \ {p}
  BY MachineParts, WithoutParts
<1>3. /\ WorkingIfIdle(left) \in Machines /\ WorkingIfIdle(left).asking = left.asking
      /\ WorkingIfIdle(left).link = left.link
  BY <1>2, WorkingIfIdleParts
<1>4. /\ machine' \in Machines /\ IsInjective(machine'.asking) /\ machine'.link = c /\ c \in Links
      /\ ToSet(machine'.asking) = ToSet(machine.asking) \ {p}
  BY <1>1, <1>2, <1>3, MachineParts
<1> HIDE DEF left
<1>5. /\ hook' \in [Prompts -> Hooks] /\ \A q \in Prompts : q # p => hook'[q] = hook[q]
      /\ hook'[p].step = hook[p].step /\ hook'[p].told = hook[p].told
      /\ hook'[p].inbox = IF Waiting(p) THEN outcome ELSE hook[p].inbox
  BY <1>1, HookParts DEF Hooks
<1>6. ~Held(hook'[p])
  BY <1>5, Constants DEF Held, Waiting
<1>7. \A q \in Prompts : Held(hook'[q]) => q # p /\ Held(hook[q])
  BY <1>5, <1>6
<1>8. \A q \in Prompts : hook'[q].step = hook[q].step
  BY <1>5
<1>9. /\ down' \in [Links -> SUBSET (Prompts \X Outcomes)]
      /\ \A d \in Links : down'[d] \subseteq down[d]
      /\ \A d \in Links : \A y \in down[d] : y # x => y \in down'[d]
  BY <1>0, <1>1, <1>4 DEF SocketsTyped
<1>10. DaemonTyped' /\ SocketsTyped' /\ ServerTyped'
  BY <1>0, <1>1, <1>4, <1>5, <1>9 DEF DaemonTyped, SocketsTyped, ServerTyped
<1>11. \A i \in DOMAIN events : events[i].t \in {"ask", "drop"} => events[i].p \in Prompts
  <2>1. \A i \in DOMAIN events : events[i] \in Events
    BY <1>0 DEF DaemonTyped
  <2>2. QED
    BY <2>1, EventParts
<1>12. QueueInv'
  <2>1. \A q \in ToSet(machine'.asking) : q \in ToSet(machine.asking) /\ q \in Prompts
    BY <1>4, MachineParts
  <2>2. \A q \in ToSet(machine'.asking) : Started(hook'[q])
    BY <1>0, <1>8, <2>1 DEF QueueInv, Started
  <2>3. ASSUME NEW i \in DOMAIN events, events[i].t = "ask"
        PROVE  /\ Started(hook'[events[i].p]) /\ events[i].p \notin ToSet(machine'.asking)
               /\ \A j \in DOMAIN events : events[j] = events[i] => j = i
    BY <1>0, <1>8, <1>11, <2>1, <2>3 DEF QueueInv, Started
  <2>4. ASSUME NEW i \in DOMAIN events, events[i].t = "drop" PROVE hook'[events[i].p].step = "done"
    BY <1>0, <1>8, <1>11, <2>4 DEF QueueInv
  <2>5. ASSUME NEW i \in DOMAIN events, events[i].t = "ran"
        PROVE  /\ \A q \in ToSet(machine'.asking) : ~Held(hook'[q])
               /\ \A j \in 1 .. i - 1 : events[j].t = "ask" => ~Held(hook'[events[j].p])
    <3>1. /\ \A q \in ToSet(machine.asking) : ~Held(hook[q])
          /\ \A j \in 1 .. i - 1 : events[j].t = "ask" => ~Held(hook[events[j].p])
      BY <1>0, <2>5 DEF QueueInv
    <3>2. \A j \in 1 .. i - 1 : j \in DOMAIN events
      BY <1>0 DEF DaemonTyped
    <3>3. QED
      BY <1>7, <1>11, <2>1, <3>1, <3>2
  <2>6. QED
    BY <1>1, <2>2, <2>3, <2>4, <2>5 DEF QueueInv
<1>13. Recorded'
  <2>1. outcome \in Answers => prompt[p] = outcome
    BY <1>0, <1>1, <1>4 DEF Recorded
  <2>2. ASSUME NEW q \in Prompts
        PROVE  /\ hook'[q].inbox \in Answers => prompt[q] = hook'[q].inbox
               /\ hook'[q].told \in Answers => prompt[q] = hook'[q].told
    BY <1>0, <1>5, <2>1 DEF Recorded
  <2>3. \A d \in Links : \A y \in down'[d] : y[2] \in Answers => prompt[y[1]] = y[2]
    BY <1>0, <1>9 DEF Recorded
  <2>4. QED
    BY <1>0, <1>1, <2>2, <2>3 DEF Recorded
<1>14. LinkInv'
  BY <1>0, <1>1, <1>4 DEF LinkInv, Live
<1>15. ComingInv'
  <2> SUFFICES ASSUME NEW q \in Prompts, Held(hook'[q]), ~Asked(q)
               PROVE  q \in ToSet(machine'.asking) /\ OnLink(q, machine.link)'
    BY <1>1 DEF ComingInv, Asked
  <2>1. q # p /\ q \in ToSet(machine.asking) /\ OnLink(q, c)
    BY <1>0, <1>1, <1>7 DEF ComingInv
  <2>2. Replied(q, c) => Replied(q, c)'
    <3> SUFFICES ASSUME NEW o \in Outcomes, <<q, o>> \in down[c] PROVE Replied(q, c)'
      BY DEF Replied
    <3>1. <<q, o>> # x
      BY <2>1
    <3>2. <<q, o>> \in down'[c]
      BY <1>4, <1>9, <3>1
    <3>3. QED
      BY <1>4, <3>2 DEF Replied
  <2>3. OnLink(q, machine.link)'
    BY <1>1, <1>4, <2>1, <2>2 DEF OnLink, Sent, OnTheBus
  <2>4. QED
    BY <1>4, <2>1, <2>3
<1>16. QED
  BY <1>10, <1>12, <1>13, <1>14, <1>15 DEF IInv

-----------------------------------------------------------------------------
(* The hub's steps.                                                         *)

\* A socket displaces the one its process held; the one that loses its place
\* has nothing more to keep.
LEMMA RegisterStep ==
  ASSUME IInv, NEW c \in Links, Register(c)
  PROVE  IInv'
<1> DEFINE a == link[c].at
           told == <<[t |-> "connected", c |-> c]>>
<1>0. DaemonTyped /\ SocketsTyped /\ ServerTyped /\ QueueInv /\ Recorded /\ LinkInv /\ ComingInv
  BY DEF IInv
<1>1. /\ link[c].state = "open"
      /\ link' = [d \in Links |-> IF d = c THEN [link[d] EXCEPT !.state = "serving"]
                                  ELSE IF d = agent[a] THEN [link[d] EXCEPT !.displaced = TRUE]
                                  ELSE link[d]]
      /\ agent' = [agent EXCEPT ![a] = c] /\ news' = Post(a, told)
      /\ UNCHANGED <<hook, events, machine, up, down, row, prompt>>
  BY DEF Register, daemon
<1>2. a \in Processes /\ link[c] \in Ends
  BY <1>1, LinkParts
<1>3. /\ link'[c].state = "serving" /\ link'[c].at = a /\ link'[c].displaced = link[c].displaced
      /\ link'[c] \in Ends
  BY <1>1, <1>2 DEF Ends
<1>4. ASSUME NEW d \in Links, d # c
      PROVE  /\ link'[d] \in Ends /\ link'[d].state = link[d].state /\ link'[d].at = link[d].at
             /\ ~link'[d].displaced => ~link[d].displaced /\ d # agent[a]
  <2>1. link[d] \in Ends /\ link'[d] = IF d = agent[a] THEN [link[d] EXCEPT !.displaced = TRUE] ELSE link[d]
    BY <1>1, <1>4, LinkParts
  <2>2. QED
    BY <2>1 DEF Ends
<1>5. link' \in [Links -> Ends]
  BY <1>1, <1>3, <1>4
<1>6. /\ agent' \in [Processes -> Links \cup {None}] /\ agent'[a] = c
      /\ \A b \in Processes : b # a => agent'[b] = agent[b]
  BY <1>0, <1>1, <1>2 DEF ServerTyped
<1>7. told \in Seq(Tidings) /\ \A n \in ToSet(told) : n.t = "connected"
  <2>1. [t |-> "connected", c |-> c] \in Tidings
    BY TidingValues
  <2>2. told \in Seq(Tidings) /\ DOMAIN told = {1} /\ told[1] = [t |-> "connected", c |-> c]
    BY <2>1
  <2>3. QED
    BY <2>2 DEF ToSet
<1> HIDE DEF told
<1>8. /\ news' \in [Processes -> [Processes -> Seq(Tidings)]]
      /\ \A from, to \in Processes :
            /\ ToSet(news[from][to]) \subseteq ToSet(news'[from][to])
            /\ \A n \in ToSet(news'[from][to]) : n \in ToSet(news[from][to]) \/ n.t = "connected"
  <2>1. news \in [Processes -> [Processes -> Seq(Tidings)]]
    BY <1>0 DEF ServerTyped
  <2>2. /\ Post(a, told) \in [Processes -> [Processes -> Seq(Tidings)]]
        /\ \A from, to \in Processes :
              ToSet(Post(a, told)[from][to]) =
                 ToSet(news[from][to]) \cup IF from = a /\ to # a THEN ToSet(told) ELSE {}
    BY <1>2, <1>7, <2>1, PostParts
  <2>3. news' = Post(a, told)
    BY <1>1
  <2>4. ASSUME NEW from \in Processes, NEW to \in Processes
        PROVE  /\ ToSet(news[from][to]) \subseteq ToSet(news'[from][to])
               /\ \A n \in ToSet(news'[from][to]) : n \in ToSet(news[from][to]) \/ n.t = "connected"
    <3>1. ToSet(news'[from][to]) =
             ToSet(news[from][to]) \cup IF from = a /\ to # a THEN ToSet(told) ELSE {}
      BY <2>2, <2>3
    <3>2. QED
      BY <1>7, <3>1
  <2>5. QED
    BY <2>2, <2>3, <2>4
<1>9. DaemonTyped' /\ SocketsTyped' /\ ServerTyped'
  BY <1>0, <1>1, <1>5, <1>6, <1>8 DEF DaemonTyped, SocketsTyped, ServerTyped
<1>10. QueueInv'
  BY <1>0, <1>1 DEF QueueInv
<1>11. Recorded'
  <2>1. ASSUME NEW from \in Processes, NEW to \in Processes, NEW n \in ToSet(news'[from][to]),
               n.t = "closed", n.outcome[2] \in Answers
        PROVE  prompt[n.outcome[1]] = n.outcome[2]
    <3>1. n \in ToSet(news[from][to])
      BY <1>8, <2>1
    <3>2. QED
      BY <1>0, <2>1, <3>1 DEF Recorded
  <2>2. QED
    BY <1>0, <1>1, <2>1 DEF Recorded
<1>12. LinkInv'
  <2>1. ASSUME NEW d \in Links
        PROVE  /\ link'[d].state # "off" => link'[d].at \in Processes
               /\ link'[d].state = "serving" /\ ~link'[d].displaced => agent'[link'[d].at] = d
    <3>1. CASE d = c
      BY <1>2, <1>3, <1>6, <3>1
    <3>2. CASE d # c
      <4>1. link[d].state # "off" => link[d].at \in Processes
        BY LinkParts
      <4>2. ASSUME link'[d].state = "serving", ~link'[d].displaced PROVE agent'[link'[d].at] = d
        <5>1. /\ link[d].state = "serving" /\ ~link[d].displaced /\ d # agent[a]
              /\ link'[d].at = link[d].at
          BY <1>4, <3>2, <4>2
        <5>2. agent[link[d].at] = d /\ link[d].at \in Processes
          BY <1>0, <5>1 DEF LinkInv
        <5>3. link[d].at # a
          BY <5>1, <5>2
        <5>4. QED
          BY <1>6, <5>1, <5>2, <5>3
      <4>3. QED
        BY <1>4, <3>2, <4>1, <4>2
    <3>3. QED
      BY <3>1, <3>2
  <2>2. ASSUME Live PROVE link'[machine.link].state # "off"
    <3>1. machine.link \in Links /\ link[machine.link].state # "off"
      BY <1>0, <2>2, MachineParts DEF LinkInv
    <3>2. QED
      BY <1>3, <1>4, <3>1
  <2>3. QED
    BY <1>1, <2>1, <2>2 DEF LinkInv, Live
<1>13. ComingInv'
  <2> SUFFICES ASSUME NEW p \in Prompts, Held(hook[p]), ~Asked(p), Live
               PROVE  p \in ToSet(machine.asking) /\ OnLink(p, machine.link)'
    BY <1>0, <1>1 DEF ComingInv, Asked, Live
  <2> DEFINE d == machine.link
  <2>1. p \in ToSet(machine.asking) /\ OnLink(p, d) /\ d \in Links /\ d' = d
    BY <1>0, <1>1, MachineParts DEF ComingInv
  <2>2. CASE d = c
    <3>1. Sent(p, c)
      BY <1>1, <2>1, <2>2 DEF OnLink
    <3>2. Sent(p, d)'
      BY <1>1, <2>1, <2>2, <3>1 DEF Sent
    <3>3. QED
      BY <2>1, <3>2 DEF OnLink
  <2>3. CASE d # c
    <3>1. /\ link'[d].state = link[d].state /\ link'[d].at = link[d].at
          /\ ~link'[d].displaced => ~link[d].displaced
      BY <1>4, <2>1, <2>3
    <3>2. Sent(p, d)' = Sent(p, d) /\ Replied(p, d)' = Replied(p, d)
      BY <1>1 DEF Sent, Replied
    <3>3. ASSUME link'[d].state = "serving", OnTheBus(p, d) PROVE OnTheBus(p, d)'
      <4>1. link[d].at \in Processes
        BY <2>1, <3>1, <3>3, LinkParts
      <4>2. PICK from \in Processes : \E n \in ToSet(news[from][link[d].at]) :
                                         n.t = "closed" /\ n.outcome[1] = p
        BY <3>3 DEF OnTheBus
      <4>3. link'[d'].at = link[d].at
        BY <2>1, <3>1
      <4>4. ToSet(news[from][link[d].at]) \subseteq ToSet(news'[from][link'[d'].at])
        BY <1>8, <4>1, <4>3
      <4>5. QED
        BY <4>2, <4>4 DEF OnTheBus
    <3>4. QED
      BY <1>1, <2>1, <3>1, <3>2, <3>3 DEF OnLink
  <2>4. QED
    BY <2>2, <2>3
<1>14. QED
  BY <1>9, <1>10, <1>11, <1>12, <1>13 DEF IInv

\* News is heard: a closing goes down the socket the hub holds, and a newer
\* socket elsewhere displaces it.
LEMMA HearNewsStep ==
  ASSUME IInv, NEW a \in Processes, NEW b \in Processes, HearNews(a, b)
  PROVE  IInv'
<1> DEFINE x == Head(news[a][b])
           c == agent[b]
           displaces == x.t = "connected" /\ c \notin {None, x.c}
<1>0. DaemonTyped /\ SocketsTyped /\ ServerTyped /\ QueueInv /\ Recorded /\ LinkInv /\ ComingInv
  BY DEF IInv
<1>1. /\ news[a][b] # << >> /\ news' = [news EXCEPT ![a][b] = Tail(@)]
      /\ agent' = (IF displaces THEN [agent EXCEPT ![b] = None] ELSE agent)
      /\ link' = (IF displaces THEN [link EXCEPT ![c].displaced = TRUE] ELSE link)
      /\ down' = (IF x.t = "closed" /\ c # None THEN [down EXCEPT ![c] = @ \cup {x.outcome}] ELSE down)
      /\ UNCHANGED <<hook, events, machine, up, row, prompt>>
  BY DEF HearNews, daemon
<1>2. c \in Links \cup {None} /\ news[a][b] \in Seq(Tidings) /\ agent \in [Processes -> Links \cup {None}]
  BY <1>0 DEF ServerTyped
<1>3. /\ Tail(news[a][b]) \in Seq(Tidings) /\ x \in Tidings
      /\ ToSet(news[a][b]) = {x} \cup ToSet(Tail(news[a][b]))
  BY <1>1, <1>2, TailParts
<1>4. /\ x.t \in {"closed", "connected"} /\ (x.t = "closed" => x.outcome \in Prompts \X Outcomes)
  BY <1>3, TidingParts
<1>5. displaces => c \in Links /\ x.t # "closed"
  BY <1>2
<1>6. /\ news' \in [Processes -> [Processes -> Seq(Tidings)]]
      /\ \A from, to \in Processes :
            /\ ToSet(news'[from][to]) \subseteq ToSet(news[from][to])
            /\ \A n \in ToSet(news[from][to]) :
                  n \in ToSet(news'[from][to]) \/ (n = x /\ to = b)
  <2>1. news \in [Processes -> [Processes -> Seq(Tidings)]]
    BY <1>0 DEF ServerTyped
  <2>2. news'[a][b] = Tail(news[a][b])
    BY <1>1, <2>1
  <2>3. \A from, to \in Processes : from # a \/ to # b => news'[from][to] = news[from][to]
    BY <1>1, <2>1
  <2>4. news' \in [Processes -> [Processes -> Seq(Tidings)]]
    BY <1>1, <1>3, <2>1
  <2>5. QED
    BY <1>3, <2>2, <2>3, <2>4
<1>7. /\ down' \in [Links -> SUBSET (Prompts \X Outcomes)]
      /\ \A d \in Links : down[d] \subseteq down'[d]
      /\ \A d \in Links : \A y \in down'[d] : y \in down[d] \/ (y = x.outcome /\ x.t = "closed")
      /\ x.t = "closed" /\ c \in Links => x.outcome \in down'[c]
  BY <1>0, <1>1, <1>2, <1>4, Constants DEF SocketsTyped
<1> HIDE DEF x, c
<1>8. /\ link' \in [Links -> Ends]
      /\ \A d \in Links : /\ link'[d].state = link[d].state /\ link'[d].at = link[d].at
                          /\ ~link'[d].displaced => ~link[d].displaced /\ (displaces => d # c)
  <2>1. CASE displaces
    <3>1. c \in Links /\ link' = [link EXCEPT ![c].displaced = TRUE]
      BY <1>1, <1>5, <2>1
    <3>2. /\ link'[c] = [link[c] EXCEPT !.displaced = TRUE]
          /\ \A d \in Links : d # c => link'[d] = link[d]
      BY <3>1, LinkParts
    <3>3. link'[c].state = link[c].state /\ link'[c].at = link[c].at /\ link'[c].displaced = TRUE
          /\ link'[c] \in Ends
      BY <3>1, <3>2, LinkParts DEF Ends
    <3>4. link' \in [Links -> Ends]
      BY <3>1, <3>2, <3>3, LinkParts
    <3>5. QED
      BY <3>2, <3>3, <3>4
  <2>2. CASE ~displaces
    BY <1>0, <1>1, <2>2 DEF SocketsTyped
  <2>3. QED
    BY <2>1, <2>2
<1>9. /\ agent' \in [Processes -> Links \cup {None}]
      /\ \A q \in Processes : agent'[q] # agent[q] => q = b /\ displaces
  BY <1>1, <1>2
<1>10. DaemonTyped' /\ SocketsTyped' /\ ServerTyped'
  BY <1>0, <1>1, <1>6, <1>7, <1>8, <1>9 DEF DaemonTyped, SocketsTyped, ServerTyped
<1>11. QueueInv'
  BY <1>0, <1>1 DEF QueueInv
<1>12. Recorded'
  <2>1. ASSUME x.t = "closed", x.outcome[2] \in Answers PROVE prompt[x.outcome[1]] = x.outcome[2]
    BY <1>0, <1>3, <2>1 DEF Recorded
  <2>2. \A d \in Links : \A y \in down'[d] : y[2] \in Answers => prompt[y[1]] = y[2]
    BY <1>0, <1>7, <2>1 DEF Recorded
  <2>3. ASSUME NEW from \in Processes, NEW to \in Processes, NEW n \in ToSet(news'[from][to])
        PROVE  n.t = "closed" /\ n.outcome[2] \in Answers => prompt[n.outcome[1]] = n.outcome[2]
    <3>1. n \in ToSet(news[from][to])
      BY <1>6
    <3>2. QED
      BY <1>0, <3>1 DEF Recorded
  <2>4. QED
    BY <1>0, <1>1, <2>2, <2>3 DEF Recorded
<1>13. LinkInv'
  <2>1. ASSUME NEW d \in Links
        PROVE  /\ link'[d].state # "off" => link'[d].at \in Processes
               /\ link'[d].state = "serving" /\ ~link'[d].displaced => agent'[link'[d].at] = d
    <3>1. link[d].state # "off" => link[d].at \in Processes
      BY LinkParts
    <3>2. ASSUME link'[d].state = "serving", ~link'[d].displaced PROVE agent'[link'[d].at] = d
      <4>1. /\ link[d].state = "serving" /\ ~link[d].displaced /\ (displaces => d # c)
            /\ link'[d].at = link[d].at
        BY <1>8, <3>2
      <4>2. agent[link[d].at] = d /\ link[d].at \in Processes
        BY <1>0, <4>1 DEF LinkInv
      <4>3. displaces => link[d].at # b
        BY <4>1, <4>2 DEF c
      <4>4. QED
        BY <1>9, <4>1, <4>2, <4>3
    <3>3. QED
      BY <1>8, <3>1, <3>2
  <2>2. ASSUME Live PROVE link'[machine.link].state # "off"
    BY <1>0, <1>8, <2>2, MachineParts DEF LinkInv
  <2>3. QED
    BY <1>1, <2>1, <2>2 DEF LinkInv, Live
<1>14. ComingInv'
  <2> SUFFICES ASSUME NEW p \in Prompts, Held(hook[p]), ~Asked(p), Live
               PROVE  p \in ToSet(machine.asking) /\ OnLink(p, machine.link)'
    BY <1>0, <1>1 DEF ComingInv, Asked, Live
  <2> DEFINE d == machine.link
  <2>1. p \in ToSet(machine.asking) /\ OnLink(p, d) /\ d \in Links /\ d' = d
    BY <1>0, <1>1, MachineParts DEF ComingInv
  <2>2. Sent(p, d)' = Sent(p, d)
    BY <1>1 DEF Sent
  <2>3. Replied(p, d) => Replied(p, d)'
    BY <1>7, <2>1 DEF Replied
  <2>4. /\ link'[d].state = link[d].state /\ link'[d].at = link[d].at
        /\ ~link'[d].displaced => ~link[d].displaced
    BY <1>8, <2>1
  <2>5. ASSUME link'[d].state = "serving", ~link'[d].displaced, OnTheBus(p, d)
        PROVE  OnTheBus(p, d)' \/ Replied(p, d)'
    <3>1. PICK from \in Processes : \E n \in ToSet(news[from][link[d].at]) :
                                       n.t = "closed" /\ n.outcome[1] = p
      BY <2>5 DEF OnTheBus
    <3>2. PICK n \in ToSet(news[from][link[d].at]) : n.t = "closed" /\ n.outcome[1] = p
      BY <3>1
    <3>3. link[d].at \in Processes /\ agent[link[d].at] = d
      BY <1>0, <2>1, <2>4, <2>5 DEF LinkInv
    <3>4. CASE n \in ToSet(news'[from][link[d].at])
      <4>1. n \in ToSet(news'[from][link'[d'].at])
        BY <2>1, <2>4, <3>4
      <4>2. QED
        BY <3>2, <4>1 DEF OnTheBus
    <3>5. CASE n = x /\ link[d].at = b
      <4>1. x.t = "closed" /\ x.outcome[1] = p /\ c = d
        BY <3>2, <3>3, <3>5 DEF c
      <4>2. x.outcome \in down'[d]
        BY <1>7, <2>1, <4>1
      <4>3. x.outcome = <<p, x.outcome[2]>> /\ x.outcome[2] \in Outcomes
        BY <1>4, <4>1
      <4>4. QED
        BY <2>1, <4>2, <4>3 DEF Replied
    <3>6. QED
      BY <1>6, <3>2, <3>3, <3>4, <3>5
  <2>6. QED
    BY <1>1, <2>1, <2>2, <2>3, <2>4, <2>5 DEF OnLink
<1>15. QED
  BY <1>10, <1>11, <1>12, <1>13, <1>14 DEF IInv

-----------------------------------------------------------------------------
(* The server's handlers.                                                   *)

\* Nothing closes, and a hub lets go of no socket but one that stops serving.
LEMMA RestStep ==
  ASSUME IInv, UNCHANGED <<daemon, down, news, prompt>>,
         row' \in Levels \cup {"none", "done"},
         link' \in [Links -> Ends], up' \in [Links -> Seq(Frames)],
         agent' \in [Processes -> Links \cup {None}],
         \A a \in Processes : agent'[a] # agent[a] =>
            agent[a] \in Links /\ link'[agent[a]].state # "serving",
         \A d \in Links : /\ link'[d].at = link[d].at /\ link'[d].displaced = link[d].displaced
                          /\ link'[d].state # link[d].state =>
                                link[d].state # "off" /\ link'[d].state \in {"ending", "closed"},
         \A d \in Links, p \in Prompts :
            link'[d].state \in {"open", "serving"} /\ [t |-> "prompt", p |-> p] \in ToSet(up[d])
               => [t |-> "prompt", p |-> p] \in ToSet(up'[d])
  PROVE  IInv'
<1>1. DaemonTyped /\ SocketsTyped /\ ServerTyped /\ QueueInv /\ Recorded /\ LinkInv /\ ComingInv
  BY DEF IInv
<1>2. UNCHANGED <<hook, events, machine>>
  BY DEF daemon
<1>3. DaemonTyped' /\ SocketsTyped' /\ ServerTyped'
  BY <1>1, <1>2 DEF DaemonTyped, SocketsTyped, ServerTyped
<1>4. QueueInv' /\ Recorded'
  BY <1>1, <1>2 DEF QueueInv, Recorded
<1>5. LinkInv'
  <2>1. ASSUME NEW d \in Links
        PROVE  /\ link'[d].state # "off" => link'[d].at \in Processes
               /\ link'[d].state = "serving" /\ ~link'[d].displaced => agent'[link'[d].at] = d
    <3>1. link[d].state # "off" => link[d].at \in Processes
      BY LinkParts
    <3>2. ASSUME link'[d].state = "serving", ~link'[d].displaced PROVE agent'[link'[d].at] = d
      <4>1. link[d].state = "serving" /\ ~link[d].displaced /\ link'[d].at = link[d].at
        BY <3>2
      <4>2. agent[link[d].at] = d /\ link[d].at \in Processes
        BY <1>1, <4>1 DEF LinkInv
      <4>3. QED
        BY <3>2, <4>1, <4>2
    <3>3. QED
      BY <3>1, <3>2
  <2>2. ASSUME Live PROVE link'[machine.link].state # "off"
    <3>1. machine.link \in Links /\ link[machine.link].state # "off"
      BY <1>1, <2>2, MachineParts DEF LinkInv
    <3>2. QED
      BY <3>1
  <2>3. QED
    BY <1>2, <2>1, <2>2 DEF LinkInv, Live
<1>6. ComingInv'
  <2> SUFFICES ASSUME NEW p \in Prompts, Held(hook[p]), ~Asked(p), Live
               PROVE  p \in ToSet(machine.asking) /\ OnLink(p, machine.link)'
    BY <1>1, <1>2 DEF ComingInv, Asked, Live
  <2> DEFINE d == machine.link
  <2>1. p \in ToSet(machine.asking) /\ OnLink(p, d) /\ d \in Links /\ d' = d
    BY <1>1, <1>2, MachineParts DEF ComingInv
  <2>2. link'[d].state \in {"open", "serving"} /\ Sent(p, d) => Sent(p, d)'
    BY <2>1 DEF Sent
  <2>3. Replied(p, d)' = Replied(p, d)
    BY <2>1 DEF Replied
  <2>4. OnTheBus(p, d)' = OnTheBus(p, d)
    BY <2>1 DEF OnTheBus
  <2>5. link'[d].state \in {"open", "serving"} => link'[d].state = link[d].state
    BY <2>1
  <2>6. link'[d].displaced = link[d].displaced
    BY <2>1
  <2>7. QED
    BY <2>1, <2>2, <2>3, <2>4, <2>5, <2>6 DEF OnLink
<1>7. QED
  BY <1>3, <1>4, <1>5, <1>6 DEF IInv

LEMMA WithdrawAllStep ==
  ASSUME IInv, NEW a \in Processes, WithdrawAll(a), UNCHANGED <<daemon, agent>>,
         row' \in Levels \cup {"none", "done"},
         link' \in [Links -> Ends], up' \in [Links -> Seq(Frames)],
         \A c \in Links : /\ link'[c].at = link[c].at /\ link'[c].displaced = link[c].displaced
                          /\ link'[c].state # link[c].state =>
                                link[c].state = "ending" /\ link'[c].state = "closed",
         \A c \in Links, p \in Prompts :
            [t |-> "prompt", p |-> p] \in ToSet(up[c]) => [t |-> "prompt", p |-> p] \in ToSet(up'[c])
  PROVE  IInv'
<1> DEFINE closed == {<<p, "withdrawn">> : p \in OpenPrompts}
<1>1. closed \in SUBSET (Prompts \X Outcomes) /\ IsFiniteSet(closed)
  BY AllWithdrawn
<1>2. /\ prompt' = [p \in Prompts |-> IF prompt[p] = "open" THEN "withdrawn" ELSE prompt[p]]
      /\ Announce(a, closed)
  BY DEF WithdrawAll
<1>3. /\ prompt' \in [Prompts -> Outcomes \cup {"absent", "open"}]
      /\ \A p \in Prompts : prompt'[p] # prompt[p] => prompt[p] = "open" /\ prompt'[p] = "withdrawn"
  BY <1>2 DEF IInv, ServerTyped, Outcomes
<1>4. \A p \in Prompts : prompt[p] = "open" => <<p, "withdrawn">> \in closed
  BY DEF OpenPrompts
<1>5. \A x \in closed : prompt'[x[1]] = x[2]
  BY <1>2 DEF OpenPrompts
<1> HIDE DEF closed
<1>6. \A p \in Prompts : prompt'[p] # prompt[p] => prompt[p] = "open" /\ <<p, prompt'[p]>> \in closed
  BY <1>3, <1>4
<1>7. QED
  BY <1>1, <1>2, <1>3, <1>5, <1>6, ClosingStep

LEMMA CloseStep ==
  ASSUME IInv, NEW p \in Prompts, NEW outcome \in Outcomes, NEW resumes \in BOOLEAN,
         NEW a \in Processes, prompt[p] = "open", Close(p, outcome, resumes, a),
         UNCHANGED <<daemon, link, agent>>, up' \in [Links -> Seq(Frames)],
         \A c \in Links, q \in Prompts :
            [t |-> "prompt", p |-> q] \in ToSet(up[c]) => [t |-> "prompt", p |-> q] \in ToSet(up'[c])
  PROVE  IInv'
<1> DEFINE closed == {<<p, outcome>>}
<1>1. closed \in SUBSET (Prompts \X Outcomes) /\ IsFiniteSet(closed)
  <2>1. IsFiniteSet(closed)
    BY FS_Singleton
  <2>2. <<p, outcome>> \in Prompts \X Outcomes
    OBVIOUS
  <2>3. QED
    BY <2>1, <2>2
<1>2. /\ prompt' = [prompt EXCEPT ![p] = outcome] /\ Announce(a, closed)
      /\ row' \in {"working", row}
  BY DEF Close
<1>3. /\ prompt \in [Prompts -> Outcomes \cup {"absent", "open"}]
      /\ row \in Levels \cup {"none", "done"} /\ link \in [Links -> Ends]
  BY DEF IInv, ServerTyped, SocketsTyped
<1>4. prompt' \in [Prompts -> Outcomes \cup {"absent", "open"}] /\ row' \in Levels \cup {"none", "done"}
  BY <1>2, <1>3 DEF Levels
<1>5. \A q \in Prompts : prompt'[q] # prompt[q] => prompt[q] = "open" /\ <<q, prompt'[q]>> \in closed
  BY <1>2, <1>3
<1>6. \A x \in closed : prompt'[x[1]] = x[2]
  BY <1>2, <1>3
<1> HIDE DEF closed
<1>7. link' \in [Links -> Ends] /\ \A c \in Links : link'[c] = link[c]
  BY <1>3
<1>8. UNCHANGED <<daemon, agent>>
  OBVIOUS
<1>9. QED
  BY <1>1, <1>2, <1>4, <1>5, <1>6, <1>7, <1>8, ClosingStep

\* What is left to read on a socket whose first frame is read.
LEMMA ReadParts ==
  ASSUME IInv, NEW c \in Links, up[c] # << >>, up' = [up EXCEPT ![c] = Tail(@)]
  PROVE  /\ up' \in [Links -> Seq(Frames)] /\ Head(up[c]) \in Frames
         /\ \A d \in Links, p \in Prompts :
               [t |-> "prompt", p |-> p] \in ToSet(up[d]) =>
                  \/ [t |-> "prompt", p |-> p] \in ToSet(up'[d])
                  \/ d = c /\ Head(up[c]) = [t |-> "prompt", p |-> p]
<1>1. up \in [Links -> Seq(Frames)] /\ up[c] \in Seq(Frames)
  BY DEF IInv, SocketsTyped
<1>2. /\ Tail(up[c]) \in Seq(Frames) /\ Head(up[c]) \in Frames
      /\ ToSet(up[c]) = {Head(up[c])} \cup ToSet(Tail(up[c]))
  BY <1>1, TailParts
<1>3. /\ up' \in [Links -> Seq(Frames)] /\ up'[c] = Tail(up[c])
      /\ \A d \in Links : d # c => up'[d] = up[d]
  BY <1>1, <1>2
<1>4. QED
  BY <1>2, <1>3

\* A prompt that arrives is open from then, or its outcome is the reply.
LEMMA TakePromptStep ==
  ASSUME IInv, NEW c \in Links, link[c].state = "serving", ~link[c].displaced, up[c] # << >>,
         up' = [up EXCEPT ![c] = Tail(@)], UNCHANGED <<daemon, link, agent>>,
         Head(up[c]).t = "prompt", TakePrompt(c, Head(up[c]).p)
  PROVE  IInv'
<1> DEFINE p == Head(up[c]).p
           reply == CASE prompt[p] = "absent" -> {<<p, "withdrawn">>}
                      [] prompt[p] = "open"   -> {}
                      [] OTHER                -> {<<p, prompt[p]>>}
<1>0. DaemonTyped /\ SocketsTyped /\ ServerTyped /\ QueueInv /\ Recorded /\ LinkInv /\ ComingInv
  BY DEF IInv
<1>1. UNCHANGED <<hook, events, machine, link, agent, news>>
  BY DEF daemon, TakePrompt
<1>2. /\ up' \in [Links -> Seq(Frames)] /\ Head(up[c]) \in Frames
      /\ \A d \in Links, q \in Prompts :
            [t |-> "prompt", p |-> q] \in ToSet(up[d]) =>
               \/ [t |-> "prompt", p |-> q] \in ToSet(up'[d])
               \/ d = c /\ Head(up[c]) = [t |-> "prompt", p |-> q]
  BY ReadParts
<1>3. p \in Prompts
  BY <1>2, FrameParts
<1>4. \/ prompt[p] = "absent" /\ prompt' = [prompt EXCEPT ![p] = "open"] /\ row' = "permission"
         /\ down' = down
      \/ prompt' = prompt /\ row' = row /\ down' = [down EXCEPT ![c] = @ \cup reply]
  BY DEF TakePrompt
<1>5. \A d \in Links, q \in Prompts :
         [t |-> "prompt", p |-> q] \in ToSet(up[d]) =>
            [t |-> "prompt", p |-> q] \in ToSet(up'[d]) \/ (d = c /\ q = p)
  BY <1>2
<1> HIDE DEF p
<1>6. prompt[p] \in Outcomes \cup {"absent", "open"}
  BY <1>0, <1>3 DEF ServerTyped
<1>7. /\ reply \in SUBSET (Prompts \X Outcomes)
      /\ \A x \in reply : x[2] \in Answers => prompt[x[1]] = x[2]
      /\ prompt[p] # "open" => \E o \in Outcomes : <<p, o>> \in reply
  <2>1. "withdrawn" \in Outcomes /\ "withdrawn" \notin Answers
    BY Constants DEF Outcomes
  <2>2. CASE prompt[p] = "absent"
    <3>1. reply = {<<p, "withdrawn">>}
      BY <2>2
    <3>2. QED
      BY <1>3, <2>1, <3>1
  <2>3. CASE prompt[p] = "open"
    <3>1. reply = {}
      BY <2>3
    <3>2. QED
      BY <2>3, <3>1
  <2>4. CASE prompt[p] \notin {"absent", "open"}
    <3>1. reply = {<<p, prompt[p]>>}
      BY <2>4
    <3>2. prompt[p] \in Outcomes
      BY <1>6, <2>4
    <3>3. QED
      BY <1>3, <3>1, <3>2
  <2>5. QED
    BY <2>2, <2>3, <2>4
<1> HIDE DEF reply
<1>8. /\ prompt' \in [Prompts -> Outcomes \cup {"absent", "open"}]
      /\ row' \in Levels \cup {"none", "done"}
      /\ \A q \in Prompts : prompt[q] \notin {"absent"} => prompt'[q] = prompt[q]
      /\ prompt'[p] = "open" \/ down' = [down EXCEPT ![c] = @ \cup reply]
  BY <1>0, <1>3, <1>4 DEF ServerTyped, Levels
<1>9. /\ down' \in [Links -> SUBSET (Prompts \X Outcomes)]
      /\ \A d \in Links : down[d] \subseteq down'[d]
      /\ \A d \in Links : \A x \in down'[d] : x \in down[d] \/ x \in reply
      /\ down' # down => \A x \in reply : x \in down'[c]
  BY <1>0, <1>4, <1>7 DEF SocketsTyped
<1>10. DaemonTyped' /\ SocketsTyped' /\ ServerTyped'
  BY <1>0, <1>1, <1>2, <1>8, <1>9 DEF DaemonTyped, SocketsTyped, ServerTyped
<1>11. QueueInv'
  BY <1>0, <1>1 DEF QueueInv
<1>12. \A q \in Prompts : prompt[q] \in Answers => prompt'[q] = prompt[q]
  BY <1>8, Constants
<1>13. Recorded'
  <2>1. \A q \in Prompts : /\ hook[q].inbox \in Answers => prompt'[q] = hook[q].inbox
                           /\ hook[q].told \in Answers => prompt'[q] = hook[q].told
    BY <1>0, <1>12 DEF Recorded
  <2>2. ASSUME NEW d \in Links, NEW x \in down'[d], x[2] \in Answers PROVE prompt'[x[1]] = x[2]
    <3>1. x[1] \in Prompts
      BY <1>9
    <3>2. prompt[x[1]] = x[2]
      BY <1>0, <1>7, <1>9, <2>2 DEF Recorded
    <3>3. QED
      BY <1>12, <2>2, <3>1, <3>2
  <2>3. ASSUME NEW from \in Processes, NEW to \in Processes, NEW n \in ToSet(news[from][to]),
               n.t = "closed", n.outcome[2] \in Answers
        PROVE  prompt'[n.outcome[1]] = n.outcome[2]
    <3>1. n \in Tidings
      BY <1>0, SetParts DEF ServerTyped
    <3>2. n.outcome[1] \in Prompts
      BY <2>3, <3>1, TidingParts
    <3>3. QED
      BY <1>0, <1>12, <2>3, <3>2 DEF Recorded
  <2>4. QED
    BY <1>1, <2>1, <2>2, <2>3 DEF Recorded
<1>14. LinkInv'
  BY <1>0, <1>1 DEF LinkInv, Live
<1>15. ComingInv'
  <2> SUFFICES ASSUME NEW q \in Prompts, Held(hook[q]), ~Asked(q), Live
               PROVE  q \in ToSet(machine.asking) /\ OnLink(q, machine.link)'
    BY <1>0, <1>1 DEF ComingInv, Asked, Live
  <2> DEFINE d == machine.link
  <2>1. q \in ToSet(machine.asking) /\ OnLink(q, d) /\ d \in Links /\ d' = d
    BY <1>0, <1>1, MachineParts DEF ComingInv
  <2>2. Replied(q, d) => Replied(q, d)'
    BY <1>9, <2>1 DEF Replied
  <2>3. OnTheBus(q, d)' = OnTheBus(q, d)
    BY <1>1 DEF OnTheBus
  <2>4. prompt[q] = "open" => prompt'[q] = "open"
    BY <1>8
  <2>5. CASE d = c /\ q = p
    <3>1. CASE prompt'[p] = "open"
      BY <1>1, <2>1, <2>5, <3>1 DEF OnLink
    <3>2. CASE prompt'[p] # "open"
      <4>1. prompt' = prompt /\ down' = [down EXCEPT ![c] = @ \cup reply]
        BY <1>0, <1>3, <1>4, <3>2 DEF ServerTyped
      <4>2. PICK o \in Outcomes : <<p, o>> \in reply
        BY <1>7, <3>2, <4>1
      <4>3. <<p, o>> \in down'[c]
        BY <1>0, <4>1, <4>2 DEF SocketsTyped
      <4>4. Replied(q, d)'
        BY <2>1, <2>5, <4>2, <4>3 DEF Replied
      <4>5. QED
        BY <1>1, <2>1, <2>5, <4>4 DEF OnLink
    <3>3. QED
      BY <3>1, <3>2
  <2>6. CASE ~(d = c /\ q = p)
    <3>1. Sent(q, d) => Sent(q, d)'
      BY <1>5, <2>1, <2>6 DEF Sent
    <3>2. QED
      BY <1>1, <2>1, <2>2, <2>3, <2>4, <3>1 DEF OnLink
  <2>7. QED
    BY <2>5, <2>6
<1>16. QED
  BY <1>10, <1>11, <1>13, <1>14, <1>15 DEF IInv

LEMMA ServeStep ==
  ASSUME IInv, NEW c \in Links, Serve(c)
  PROVE  IInv'
<1> DEFINE f == Head(up[c])
<1>1. /\ link[c].state = "serving" /\ ~link[c].displaced /\ up[c] # << >>
      /\ up' = [up EXCEPT ![c] = Tail(@)] /\ UNCHANGED <<daemon, link, agent>>
      /\ \/ f.t = "level" /\ TakeLevel(c, f.level)
         \/ f.t = "prompt" /\ TakePrompt(c, f.p)
         \/ f.t = "withdraw" /\ TakeWithdraw(c, f.p, f.why)
  BY DEF Serve
<1>2. /\ up' \in [Links -> Seq(Frames)] /\ f \in Frames
      /\ \A d \in Links, q \in Prompts :
            [t |-> "prompt", p |-> q] \in ToSet(up[d]) =>
               \/ [t |-> "prompt", p |-> q] \in ToSet(up'[d])
               \/ d = c /\ f = [t |-> "prompt", p |-> q]
  BY <1>1, ReadParts
<1>3. /\ f.t # "prompt" => \A d \in Links, q \in Prompts :
            [t |-> "prompt", p |-> q] \in ToSet(up[d]) => [t |-> "prompt", p |-> q] \in ToSet(up'[d])
  BY <1>2
<1>4. /\ link[c].at \in Processes /\ row \in Levels \cup {"none", "done"}
      /\ link' \in [Links -> Ends] /\ agent' \in [Processes -> Links \cup {None}]
      /\ \A d \in Links : link'[d] = link[d]
  BY <1>1, LinkParts DEF IInv, ServerTyped, SocketsTyped
<1>5. CASE f.t = "level" /\ TakeLevel(c, f.level)
  <2>1. f.level \in Levels
    BY <1>2, <1>5, FrameParts
  <2>2. row' \in Levels \cup {"none", "done"}
    BY <1>5, <2>1 DEF TakeLevel
  <2>3. f.t # "prompt"
    BY <1>5
  <2>4. CASE IsOpen /\ f.level # "permission"
    <3>1. WithdrawAll(link[c].at)
      BY <1>5, <2>4 DEF TakeLevel
    <3>2. UNCHANGED <<daemon, agent>>
      BY <1>1
    <3> HIDE DEF f
    <3>3. QED
      BY <1>2, <1>3, <1>4, <2>2, <2>3, <3>1, <3>2, WithdrawAllStep
  <2>5. CASE ~(IsOpen /\ f.level # "permission")
    <3>1. UNCHANGED <<daemon, down, news, prompt>>
      BY <1>1, <1>5, <2>5 DEF TakeLevel
    <3>2. agent' = agent
      BY <1>1
    <3> HIDE DEF f
    <3>3. QED
      BY <1>2, <1>3, <1>4, <2>2, <2>3, <3>1, <3>2, RestStep
  <2>6. QED
    BY <2>4, <2>5
<1>6. CASE f.t = "prompt" /\ TakePrompt(c, f.p)
  BY <1>1, <1>6, TakePromptStep
<1>7. CASE f.t = "withdraw" /\ TakeWithdraw(c, f.p, f.why)
  <2>1. f.p \in Prompts /\ f.t # "prompt"
    BY <1>2, <1>7, FrameParts
  <2>2. CASE prompt[f.p] = "open"
    <3> DEFINE outcome == IF f.why = "expired" THEN "expired" ELSE "withdrawn"
               resumes == f.why = "terminal"
    <3>1. Close(f.p, outcome, resumes, link[c].at)
      BY <1>7, <2>2 DEF TakeWithdraw
    <3>2. outcome \in Outcomes /\ resumes \in BOOLEAN
      BY DEF Outcomes
    <3> HIDE DEF f, outcome, resumes
    <3>3. QED
      BY <1>1, <1>2, <1>3, <1>4, <2>1, <2>2, <3>1, <3>2, CloseStep
  <2>3. CASE prompt[f.p] # "open"
    <3>1. UNCHANGED <<daemon, down, news, prompt>> /\ row' = row /\ agent' = agent
      BY <1>1, <1>7, <2>3 DEF TakeWithdraw
    <3> HIDE DEF f
    <3>2. QED
      BY <1>2, <1>3, <1>4, <2>1, <3>1, RestStep
  <2>4. QED
    BY <2>2, <2>3
<1>8. QED
  BY <1>1, <1>5, <1>6, <1>7

LEMMA LetGoStep ==
  ASSUME IInv, NEW c \in Links, LetGo(c)
  PROVE  IInv'
<1>1. /\ link[c].state = "serving"
      /\ link' = [link EXCEPT ![c].state = IF link[c].displaced THEN "closed" ELSE "ending"]
      /\ agent' = [a \in Processes |-> IF agent[a] = c THEN None ELSE agent[a]]
      /\ up' = [up EXCEPT ![c] = << >>]
      /\ UNCHANGED <<daemon, down, news, row, prompt>>
  BY DEF LetGo
<1>2. /\ link \in [Links -> Ends] /\ up \in [Links -> Seq(Frames)]
      /\ agent \in [Processes -> Links \cup {None}] /\ row \in Levels \cup {"none", "done"}
  BY DEF IInv, SocketsTyped, ServerTyped
<1>3. /\ link'[c] \in Ends /\ link'[c].state \in {"ending", "closed"}
      /\ link'[c].at = link[c].at /\ link'[c].displaced = link[c].displaced
      /\ \A d \in Links : d # c => link'[d] = link[d]
  BY <1>1, <1>2, LinkParts DEF Ends
<1>4. link' \in [Links -> Ends]
  BY <1>1, <1>2, <1>3
<1>5. /\ up' \in [Links -> Seq(Frames)] /\ \A d \in Links : d # c => up'[d] = up[d]
  BY <1>1, <1>2, EmptyParts
<1>6. /\ agent' \in [Processes -> Links \cup {None}]
      /\ \A a \in Processes : agent'[a] # agent[a] => agent[a] = c
  BY <1>1, <1>2
<1>7. \A d \in Links : /\ link'[d].at = link[d].at /\ link'[d].displaced = link[d].displaced
                       /\ link'[d].state # link[d].state =>
                             link[d].state # "off" /\ link'[d].state \in {"ending", "closed"}
  BY <1>1, <1>3
<1>8. \A a \in Processes : agent'[a] # agent[a] =>
         agent[a] \in Links /\ link'[agent[a]].state # "serving"
  BY <1>3, <1>6
<1>9. \A d \in Links, p \in Prompts :
         link'[d].state \in {"open", "serving"} /\ [t |-> "prompt", p |-> p] \in ToSet(up[d])
            => [t |-> "prompt", p |-> p] \in ToSet(up'[d])
  BY <1>3, <1>5
<1>10. row' \in Levels \cup {"none", "done"} /\ UNCHANGED <<daemon, down, news, prompt>>
  BY <1>1, <1>2
<1>11. QED
  BY <1>4, <1>5, <1>6, <1>7, <1>8, <1>9, <1>10, RestStep

LEMMA EndRowStep ==
  ASSUME IInv, NEW c \in Links, EndRow(c)
  PROVE  IInv'
<1>1. /\ link[c].state = "ending" /\ link' = [link EXCEPT ![c].state = "closed"]
      /\ UNCHANGED <<daemon, up, agent>>
  BY DEF EndRow
<1>2. /\ link \in [Links -> Ends] /\ up \in [Links -> Seq(Frames)]
      /\ agent \in [Processes -> Links \cup {None}] /\ row \in Levels \cup {"none", "done"}
      /\ link[c].at \in Processes
  BY <1>1, LinkParts DEF IInv, SocketsTyped, ServerTyped
<1>3. /\ link'[c] \in Ends /\ link'[c].state = "closed"
      /\ link'[c].at = link[c].at /\ link'[c].displaced = link[c].displaced
      /\ \A d \in Links : d # c => link'[d] = link[d]
  BY <1>1, <1>2, LinkParts DEF Ends
<1>4. link' \in [Links -> Ends]
  BY <1>1, <1>2, <1>3
<1>5. \A d \in Links : /\ link'[d].at = link[d].at /\ link'[d].displaced = link[d].displaced
                       /\ link'[d].state # link[d].state =>
                             link[d].state = "ending" /\ link'[d].state = "closed"
  BY <1>1, <1>3
<1>6. up' \in [Links -> Seq(Frames)] /\ agent' \in [Processes -> Links \cup {None}]
  BY <1>1, <1>2
<1>7. CASE IsOpen
  <2>1. row' \in Levels \cup {"none", "done"} /\ WithdrawAll(link[c].at)
    BY <1>7 DEF EndRow
  <2>2. UNCHANGED <<daemon, agent>> /\ up' = up
    BY <1>1
  <2>3. QED
    BY <1>2, <1>4, <1>5, <1>6, <2>1, <2>2, WithdrawAllStep
<1>8. CASE ~IsOpen
  <2>1. UNCHANGED <<daemon, down, news, prompt>> /\ row' = row /\ up' = up /\ agent' = agent
    BY <1>1, <1>8 DEF EndRow
  <2>2. QED
    BY <1>2, <1>4, <1>5, <1>6, <2>1, RestStep
<1>9. QED
  BY <1>7, <1>8

LEMMA AnswerStep ==
  ASSUME IInv, NEW p \in Prompts, NEW k \in Answers, NEW a \in Processes, Answer(p, k, a)
  PROVE  IInv'
<1>1. /\ prompt[p] = "open" /\ Close(p, k, TRUE, a)
      /\ UNCHANGED <<daemon, link, agent>> /\ up' = up
  BY DEF Answer
<1>2. k \in Outcomes /\ up' \in [Links -> Seq(Frames)]
  BY <1>1, Constants DEF IInv, SocketsTyped
<1>3. QED
  BY <1>1, <1>2, CloseStep

LEMMA ExpireStep ==
  ASSUME IInv, NEW p \in Prompts, NEW a \in Processes, Expire(p, a)
  PROVE  IInv'
<1>1. /\ prompt[p] = "open" /\ Close(p, "expired", FALSE, a)
      /\ UNCHANGED <<daemon, link, agent>> /\ up' = up
  BY DEF Expire
<1>2. "expired" \in Outcomes /\ up' \in [Links -> Seq(Frames)]
  BY <1>1 DEF IInv, SocketsTyped, Outcomes
<1>3. QED
  BY <1>1, <1>2, CloseStep

-----------------------------------------------------------------------------
(* The theorems.                                                            *)

LEMMA InitInv == Init => IInv
<1> SUFFICES ASSUME Init PROVE IInv
  OBVIOUS
<1>1. /\ << >> \in Seq(Events) /\ << >> \in Seq(Prompts) /\ << >> \in Seq(Frames)
      /\ << >> \in Seq(Tidings) /\ ToSet(<< >>) = {} /\ DOMAIN << >> = {} /\ IsInjective(<< >>)
  BY EmptyParts DEF IsInjective
<1>2. None \notin Answers /\ None \notin Links
  BY Constants
<1>3. DaemonTyped
  BY <1>1 DEF Init, DaemonTyped, Hooks, Machines, Levels
<1>4. SocketsTyped
  BY <1>1 DEF Init, SocketsTyped, Ends
<1>5. ServerTyped
  BY <1>1 DEF Init, ServerTyped
<1>6. QueueInv
  BY <1>1 DEF Init, QueueInv
<1>7. Recorded
  BY <1>1, <1>2 DEF Init, Recorded
<1>8. LinkInv
  BY DEF Init, LinkInv, Live
<1>9. ComingInv
  BY DEF Init, ComingInv, Held
<1>10. QED
  BY <1>3, <1>4, <1>5, <1>6, <1>7, <1>8, <1>9 DEF IInv

LEMMA NextInv == IInv /\ [Next]_vars => IInv'
<1> SUFFICES ASSUME IInv, [Next]_vars PROVE IInv'
  OBVIOUS
<1>1. CASE Said
  BY <1>1, ExpectStep, GiveUpStep, RanStep, ReportStep DEF Said
<1>2. CASE Daemon
  BY <1>2, AskStep, TakeStep, HearStep, StepStep DEF Daemon
<1>3. CASE Server
  BY <1>3, RegisterStep, ServeStep, EndRowStep, HearNewsStep DEF Server
<1>4. CASE \E c \in Links : LetGo(c) \/ \E a \in Processes : Connect(c, a)
  BY <1>4, LetGoStep, ConnectStep
<1>5. CASE LoseLink
  BY <1>5, LoseLinkStep
<1>6. CASE \E p \in Prompts, a \in Processes : Expire(p, a) \/ \E k \in Answers : Answer(p, k, a)
  BY <1>6, ExpireStep, AnswerStep
<1>7. CASE UNCHANGED vars
  <2>1. UNCHANGED <<hook, events, machine, link, up, down, agent, news, row, prompt>>
    BY <1>7 DEF vars, daemon, server
  <2>2. DaemonTyped' /\ SocketsTyped' /\ ServerTyped'
    BY <2>1 DEF IInv, DaemonTyped, SocketsTyped, ServerTyped
  <2>3. QueueInv' /\ Recorded' /\ LinkInv'
    BY <2>1 DEF IInv, QueueInv, Recorded, LinkInv, Live
  <2>4. ComingInv'
    BY <2>1 DEF IInv, ComingInv, Asked, Live, OnLink, Sent, Replied, OnTheBus
  <2>5. QED
    BY <2>2, <2>3, <2>4 DEF IInv
<1>8. QED
  BY <1>1, <1>2, <1>3, <1>4, <1>5, <1>6, <1>7 DEF Next

\* What the daemon, its socket and the server hold of a permission stays in
\* step: an answer is what was recorded, and a wait is on its way.
THEOREM Invariance == Spec => []IInv
<1>1. Init => IInv
  BY InitInv
<1>2. IInv /\ [Next]_vars => IInv'
  BY NextInv
<1>3. QED
  BY <1>1, <1>2, PTL DEF Spec

\* Every part of the daemon, the hub and the board keeps its type, and no
\* prompt is asked twice (machine.py, hub.py).
THEOREM TypeCorrect == Spec => []TypeOK
<1>1. IInv => TypeOK
  BY DEF IInv, DaemonTyped, SocketsTyped, ServerTyped, TypeOK, Hooks, Machines, Ends
<1>2. QED
  BY <1>1, Invariance, PTL

\* A hook is told the answer that the card records, whichever sockets and
\* processes the answer came by (asking.py, store.py).
THEOREM TellsWhatIsRecorded == Spec => []ToldIsRecorded
<1>1. IInv => ToldIsRecorded
  BY DEF IInv, Recorded, ToldIsRecorded
<1>2. QED
  BY <1>1, Invariance, PTL

\* When nothing is on its way, a hook that waits, waits for a prompt that a
\* person can still answer: nothing that happens to a socket loses an outcome
\* (hub.py, _prompt_changed; asking.py, _resent).
THEOREM NoWaitIsLost == Spec => []WaitingCanBeAnswered
<1>1. ASSUME IInv PROVE WaitingCanBeAnswered
  <2> SUFFICES ASSUME Quiet, NEW p \in Prompts, hook[p].step = "waiting", Waiting(p)
               PROVE  prompt[p] = "open"
    BY DEF WaitingCanBeAnswered
  <2> DEFINE c == machine.link
  <2>1. /\ events = << >> /\ Live /\ link[c].state = "serving" /\ ~link[c].displaced
        /\ up[c] = << >> /\ down[c] = {} /\ \A a, b \in Processes : news[a][b] = << >>
    BY DEF Quiet
  <2>2. Held(hook[p]) /\ ~Asked(p)
    BY <2>1, EmptyParts DEF Held, Waiting, Asked
  <2>3. OnLink(p, c) /\ c \in Links
    BY <1>1, <2>1, <2>2, MachineParts DEF IInv, ComingInv
  <2>4. link[c].at \in Processes
    BY <1>1, <2>1, <2>3, LinkParts
  <2>5. ~Sent(p, c) /\ ~Replied(p, c)
    BY <2>1, EmptyParts DEF Sent, Replied
  <2>6. ~OnTheBus(p, c)
    BY <2>1, <2>4, EmptyParts DEF OnTheBus
  <2>7. QED
    BY <2>1, <2>3, <2>5, <2>6 DEF OnLink
<1>2. QED
  BY <1>1, Invariance, PTL
=============================================================================
