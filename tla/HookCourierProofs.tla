------------------------- MODULE HookCourierProofs -------------------------
(***************************************************************************)
(* For any changes, hooks, couriers and limits: no change is lost to a     *)
(* hook or queued twice for it, one delivery has one send in the air until *)
(* somebody asks for another, and no delivery is counted for more attempts *)
(* than it was allowed.  The first three rest on two locks: a marked       *)
(* change is in one courier's batch at most (BatchInv), and what is being  *)
(* sent is leased or gone (LeaseInv).  The last is a count of the attempts *)
(* still to come (Chances), which only asking raises.                      *)
(***************************************************************************)
EXTENDS HookCourier, TLAPS, FiniteSetTheorems

Sends(c, d) == flight[c][d].step # "none"

\* A row whose count is any number: how high it can go is CountInv's part.
AnyRow == [state : {"absent", "pending", "delivered", "failed"},
           count : Nat,
           next : {"none", "due", "leased", "later"}]
Flight == [step : {"none", "sending", "landed", "loaded"}, ok : BOOLEAN, loaded : AnyRow]
Hook == [stage : Stages, failures : 0..BREAKER_THRESHOLD, paused : BOOLEAN]

Typed ==
    /\ change \in [Changes -> {"none", "marked", "matched"}]
    /\ heard \in [Changes -> [Hooks -> Stages]]
    /\ matching \in [Couriers -> SUBSET Changes]
    /\ hook \in [Hooks -> Hook]
    /\ row \in [Deliveries -> AnyRow]
    /\ copies \in [Deliveries -> Nat]
    /\ flight \in [Couriers -> [Deliveries -> Flight]]
    /\ asked \in [delivery : Deliveries, loaded : AnyRow] \cup {None}
    /\ redone \in [Deliveries -> 0..MaxRedeliveries]

\* A batch is of marked changes, and no two couriers hold one change.
BatchInv ==
    /\ \A c \in Couriers : \A x \in matching[c] : change[x] = "marked"
    /\ \A c, v \in Couriers : \A x \in matching[c] : x \in matching[v] => c = v

\* What is not queued has no row, no send and nobody asking for it, and a
\* change not matched yet is queued for no hook.
QueueInv ==
    \A d \in Deliveries :
        /\ change[d[1]] # "matched" => copies[d] = 0
        /\ copies[d] = 0 => row[d] = Absent /\ redone[d] = 0 /\ \A c \in Couriers : ~Sends(c, d)

\* A hook that a change found there has not gone back to not being there.
StageInv ==
    \A x \in Changes, h \in Hooks : heard[x][h] = "made" => hook[h].stage \in {"made", "deleted"}

\* Until somebody asks for it again, what is being sent is leased or gone.
LeaseInv ==
    \A d \in Deliveries : redone[d] = 0 =>
        /\ \A c \in Couriers : Sends(c, d) => row[d].state = "absent" \/ row[d].next = "leased"
        /\ asked # None => asked.delivery # d

IInv ==
    /\ Typed
    /\ BatchInv
    /\ QueueInv
    /\ StageInv
    /\ LeaseInv
    /\ NothingLost
    /\ QueuedOnce
    /\ SentOnceAtATime

-----------------------------------------------------------------------------
\* A delivery is of a change, to a hook.
LEMMA DeliveryParts ==
  ASSUME NEW d \in Deliveries
  PROVE  d[1] \in Changes /\ HookOf(d) \in Hooks
BY DEF Deliveries, HookOf

LEMMA RowValues ==
  /\ Absent \in AnyRow /\ Queued \in AnyRow /\ Grounded \in Flight
  /\ [Grounded EXCEPT !.step = "sending"] \in Flight
  /\ Absent.state = "absent" /\ Grounded.step = "none" /\ [Grounded EXCEPT !.step = "sending"].step = "sending"
BY DEF Absent, Queued, Grounded, AnyRow, Flight

LEMMA AttemptedTyped ==
  ASSUME NEW r \in AnyRow, NEW ok \in BOOLEAN
  PROVE  Attempted(r, ok) \in AnyRow
<1>1. r.count + 1 \in Nat
  BY DEF AnyRow
<1>2. CASE ok
  BY <1>1, <1>2 DEF Attempted, AnyRow
<1>3. CASE ~ok /\ r.count + 1 >= MAX_ATTEMPTS
  BY <1>1, <1>3 DEF Attempted, AnyRow
<1>4. CASE ~ok /\ ~(r.count + 1 >= MAX_ATTEMPTS)
  BY <1>1, <1>4 DEF Attempted, AnyRow
<1>5. QED
  BY <1>2, <1>3, <1>4

LEMMA WrittenTyped ==
  ASSUME NEW r \in AnyRow, NEW s \in AnyRow, NEW t \in AnyRow
  PROVE  Written(r, s, t) \in AnyRow
BY DEF Written, AnyRow

LEMMA CountedTyped ==
  ASSUME NEW k \in Hook, NEW ok \in BOOLEAN
  PROVE  Counted(k, ok) \in Hook /\ Counted(k, ok).stage = k.stage
<1>1. BREAKER_THRESHOLD \in Nat \ {0}
  BY CourierConstants
<1>2. k.stage \in Stages /\ k.failures \in 0..BREAKER_THRESHOLD /\ k.paused \in BOOLEAN
  BY DEF Hook
<1>3. CASE ok
  <2>1. CASE k.failures > 0
    <3>1. Counted(k, ok) = [k EXCEPT !.failures = 0, !.paused = FALSE]
      BY <1>3, <2>1 DEF Counted
    <3>2. 0 \in 0..BREAKER_THRESHOLD
      BY <1>1
    <3>3. QED
      BY <1>2, <3>1, <3>2 DEF Hook
  <2>2. CASE ~(k.failures > 0)
    BY <1>3, <2>2 DEF Counted
  <2>3. QED
    BY <2>1, <2>2
<1>4. CASE ~ok
  <2> DEFINE n == IF k.failures < BREAKER_THRESHOLD THEN k.failures + 1 ELSE BREAKER_THRESHOLD
  <2>1. n \in 0..BREAKER_THRESHOLD
    BY <1>1, <1>2
  <2>2. Counted(k, ok) = [k EXCEPT !.failures = n, !.paused = @ \/ n >= BREAKER_THRESHOLD]
    BY <1>4 DEF Counted
  <2> HIDE DEF n
  <2>3. QED
    BY <1>2, <2>1, <2>2 DEF Hook
<1>5. QED
  BY <1>3, <1>4

-----------------------------------------------------------------------------
\* A step that changes only rows, sends, and what a courier holds or a hook's
\* breaker: it may start a send of a due row, and must leave a send of a row
\* nobody asked for again alone and leased.
LEMMA SendingStep ==
  ASSUME IInv, UNCHANGED <<change, heard, copies, asked, redone>>,
         matching' \in [Couriers -> SUBSET Changes],
         hook' \in [Hooks -> Hook],
         row' \in [Deliveries -> AnyRow],
         flight' \in [Couriers -> [Deliveries -> Flight]],
         \A c \in Couriers : matching'[c] \subseteq matching[c],
         \A h \in Hooks : hook'[h].stage = hook[h].stage,
         \A d \in Deliveries : row[d] = Absent => row'[d] = Absent,
         \A c \in Couriers, d \in Deliveries :
            flight'[c][d].step # "none" => flight[c][d].step # "none" \/ row[d] # Absent,
         \A d \in Deliveries : redone[d] = 0 =>
            /\ \A c \in Couriers : flight'[c][d].step # "none" =>
                  row'[d].state = "absent" \/ row'[d].next = "leased"
            /\ \A c, v \in Couriers :
                  flight'[c][d].step # "none" /\ flight'[v][d].step # "none" => c = v
  PROVE  IInv'
<1>1. Typed'
  BY DEF IInv, Typed
<1>2. BatchInv'
  BY DEF IInv, BatchInv
<1>3. QueueInv'
  BY DeliveryParts DEF IInv, QueueInv, Sends
<1>4. StageInv'
  BY DEF IInv, StageInv
<1>5. LeaseInv'
  BY DEF IInv, LeaseInv, Sends
<1>6. NothingLost'
  BY DeliveryParts DEF IInv, NothingLost
<1>7. QueuedOnce'
  BY DEF IInv, QueuedOnce
<1>8. SentOnceAtATime'
  <2> SUFFICES ASSUME NEW d \in Deliveries, NEW c \in Couriers, NEW v \in Couriers,
                      c # v, flight'[c][d].step # "none", flight'[v][d].step # "none"
               PROVE  redone'[d] > 0
    BY DEF SentOnceAtATime
  <2>1. redone[d] # 0
    OBVIOUS
  <2>2. redone'[d] = redone[d] /\ redone[d] \in Nat
    BY CourierConstants DEF IInv, Typed
  <2>3. QED
    BY <2>1, <2>2
<1>9. QED
  BY <1>1, <1>2, <1>3, <1>4, <1>5, <1>6, <1>7, <1>8 DEF IInv

LEMMA InitInv == Init => IInv
<1> SUFFICES ASSUME Init PROVE IInv
  OBVIOUS
<1>1. Typed
  BY RowValues, CourierConstants DEF Init, Typed, Stages, Hook
<1>2. BatchInv /\ QueueInv /\ StageInv /\ LeaseInv
  BY RowValues, DeliveryParts DEF Init, BatchInv, QueueInv, StageInv, LeaseInv, Sends
<1>3. NothingLost /\ QueuedOnce /\ SentOnceAtATime
  BY RowValues, DeliveryParts DEF Init, NothingLost, QueuedOnce, SentOnceAtATime
<1>4. QED
  BY <1>1, <1>2, <1>3 DEF IInv

-----------------------------------------------------------------------------
\* Only a hook's stage changes, and never back from "made" to before it.
LEMMA HookStep ==
  ASSUME IInv, NEW h \in Hooks, BeginHook(h) \/ CommitHook(h)
  PROVE  IInv'
<1> DEFINE s == IF hook[h].stage = "none" THEN "begun" ELSE "made"
<1>1. /\ UNCHANGED <<change, heard, matching, row, copies, flight, asked, redone>>
      /\ hook' = [hook EXCEPT ![h].stage = s] /\ s \in Stages
      /\ hook[h].stage \in {"none", "begun"}
  BY DEF BeginHook, CommitHook, Stages
<1> HIDE DEF s
<1>2. hook' \in [Hooks -> Hook]
  BY <1>1 DEF IInv, Typed, Hook
<1>3. \A k \in Hooks : k # h => hook'[k] = hook[k]
  BY <1>1 DEF IInv, Typed
<1>4. \A x \in Changes : heard[x][h] # "made"
  BY <1>1 DEF IInv, StageInv
<1>5. Typed' /\ BatchInv' /\ QueueInv' /\ LeaseInv' /\ QueuedOnce' /\ SentOnceAtATime'
  BY <1>1, <1>2 DEF IInv, Typed, BatchInv, QueueInv, LeaseInv, QueuedOnce, SentOnceAtATime, Sends
<1>6. StageInv'
  BY <1>1, <1>3, <1>4 DEF IInv, StageInv
<1>7. NothingLost'
  BY <1>1, <1>3, <1>4, DeliveryParts DEF IInv, NothingLost
<1>8. QED
  BY <1>5, <1>6, <1>7 DEF IInv

LEMMA DeleteStep ==
  ASSUME IInv, NEW h \in Hooks, DeleteHook(h)
  PROVE  IInv'
<1>1. /\ UNCHANGED <<change, heard, matching, copies, flight, asked, redone>>
      /\ hook' = [hook EXCEPT ![h].stage = "deleted"]
      /\ row' = [d \in Deliveries |-> IF HookOf(d) = h THEN Absent ELSE row[d]]
  BY DEF DeleteHook
<1>2. /\ hook' \in [Hooks -> Hook]
      /\ \A k \in Hooks : hook'[k].stage = IF k = h THEN "deleted" ELSE hook[k].stage
  BY <1>1 DEF IInv, Typed, Hook, Stages
<1>3. /\ row' \in [Deliveries -> AnyRow]
      /\ \A d \in Deliveries : row'[d] = row[d] \/ row'[d] = Absent
  BY <1>1, RowValues DEF IInv, Typed
<1>4. Typed' /\ BatchInv' /\ QueuedOnce' /\ SentOnceAtATime'
  BY <1>1, <1>2, <1>3 DEF IInv, Typed, BatchInv, QueuedOnce, SentOnceAtATime
<1>5. QueueInv' /\ LeaseInv'
  BY <1>1, <1>3, RowValues DEF IInv, QueueInv, LeaseInv, Sends
<1>6. StageInv'
  BY <1>1, <1>2 DEF IInv, StageInv
<1>7. NothingLost'
  BY <1>1, <1>2, DeliveryParts DEF IInv, NothingLost
<1>8. QED
  BY <1>4, <1>5, <1>6, <1>7 DEF IInv

LEMMA RecordStep ==
  ASSUME IInv, NEW x \in Changes, Record(x)
  PROVE  IInv'
<1>1. /\ UNCHANGED <<matching, hook, row, copies, flight, asked, redone>>
      /\ change[x] = "none"
      /\ change' = [change EXCEPT ![x] = "marked"]
      /\ heard' = [heard EXCEPT ![x] = [h \in Hooks |-> hook[h].stage]]
  BY DEF Record
<1>2. \A y \in Changes : /\ change'[y] = IF y = x THEN "marked" ELSE change[y]
                         /\ y # x => heard'[y] = heard[y]
  BY <1>1 DEF IInv, Typed
<1>3. \A h \in Hooks : heard'[x][h] = hook[h].stage
  BY <1>1 DEF IInv, Typed
<1>4. \A d \in Deliveries : d[1] = x => copies[d] = 0
  BY <1>1 DEF IInv, QueueInv
<1>5. Typed'
  <2>1. [h \in Hooks |-> hook[h].stage] \in [Hooks -> Stages]
    BY DEF IInv, Typed, Hook
  <2>2. QED
    BY <1>1, <2>1 DEF IInv, Typed
<1>6. BatchInv'
  BY <1>1, <1>2 DEF IInv, BatchInv, Typed
<1>7. QueueInv' /\ LeaseInv' /\ SentOnceAtATime'
  BY <1>1, <1>2, <1>4, DeliveryParts DEF IInv, QueueInv, LeaseInv, SentOnceAtATime, Sends
<1>8. StageInv'
  BY <1>1, <1>2, <1>3 DEF IInv, StageInv
<1>9. NothingLost'
  BY <1>1, <1>2, <1>3, DeliveryParts DEF IInv, NothingLost
<1>10. QueuedOnce'
  <2> SUFFICES ASSUME NEW d \in Deliveries
               PROVE  copies[d] <= IF heard'[d[1]][HookOf(d)] \in {"begun", "made"} THEN 1 ELSE 0
    BY <1>1 DEF QueuedOnce
  <2>1. CASE d[1] = x
    BY <2>1, <1>4
  <2>2. CASE d[1] # x
    BY <2>2, <1>2, DeliveryParts DEF IInv, QueuedOnce
  <2>3. QED
    BY <2>1, <2>2
<1>11. QED
  BY <1>5, <1>6, <1>7, <1>8, <1>9, <1>10 DEF IInv

LEMMA LockStep ==
  ASSUME IInv, NEW c \in Couriers, NEW batch \in SUBSET Changes, LockBatch(c, batch)
  PROVE  IInv'
<1>1. /\ UNCHANGED <<change, heard, hook, row, copies, flight, asked, redone>>
      /\ matching' = [matching EXCEPT ![c] = batch]
      /\ \A x \in batch : change[x] = "marked" /\ \A v \in Couriers : x \notin matching[v]
  BY DEF LockBatch
<1>2. /\ matching' \in [Couriers -> SUBSET Changes]
      /\ \A v \in Couriers : matching'[v] = IF v = c THEN batch ELSE matching[v]
  BY <1>1 DEF IInv, Typed
<1>3. BatchInv'
  BY <1>1, <1>2 DEF IInv, BatchInv
<1>4. Typed' /\ QueueInv' /\ StageInv' /\ LeaseInv'
  BY <1>1, <1>2 DEF IInv, Typed, QueueInv, StageInv, LeaseInv, Sends
<1>5. NothingLost' /\ QueuedOnce' /\ SentOnceAtATime'
  BY <1>1 DEF IInv, NothingLost, QueuedOnce, SentOnceAtATime
<1>6. QED
  BY <1>3, <1>4, <1>5 DEF IInv

\* What a batch queues was never queued: its changes are marked, and nobody
\* else holds them.
LEMMA CommitStep ==
  ASSUME IInv, NEW c \in Couriers, CommitBatch(c)
  PROVE  IInv'
<1> DEFINE earned == {d \in Deliveries : d[1] \in matching[c] /\ Listening(d[1], HookOf(d))}
<1>1. /\ UNCHANGED <<heard, hook, flight, asked, redone>>
      /\ row' = [d \in Deliveries |-> IF d \in earned THEN Queued ELSE row[d]]
      /\ copies' = [d \in Deliveries |-> IF d \in earned THEN copies[d] + 1 ELSE copies[d]]
      /\ change' = [x \in Changes |-> IF x \in matching[c] THEN "matched" ELSE change[x]]
      /\ matching' = [matching EXCEPT ![c] = {}]
  BY DEF CommitBatch
<1>2. \A x \in matching[c] : x \in Changes /\ change[x] = "marked"
  BY DEF IInv, Typed, BatchInv
<1>3. \A d \in Deliveries : d[1] \in matching[c] =>
         copies[d] = 0 /\ row[d] = Absent /\ redone[d] = 0 /\ \A v \in Couriers : ~Sends(v, d)
  BY <1>2, DeliveryParts DEF IInv, QueueInv
<1>4. \A d \in Deliveries :
         d \in earned <=> /\ d[1] \in matching[c]
                          /\ heard[d[1]][HookOf(d)] \in {"begun", "made"} /\ hook[HookOf(d)].stage = "made"
  BY DEF Listening
<1> HIDE DEF earned
<1>5. /\ \A d \in Deliveries : /\ row'[d] = IF d \in earned THEN Queued ELSE row[d]
                               /\ copies'[d] = IF d \in earned THEN 1 ELSE copies[d]
      /\ \A x \in Changes : change'[x] = IF x \in matching[c] THEN "matched" ELSE change[x]
      /\ \A v \in Couriers : matching'[v] = IF v = c THEN {} ELSE matching[v]
  BY <1>1, <1>3, <1>4 DEF IInv, Typed
<1>6. Typed'
  <2>1. row' \in [Deliveries -> AnyRow]
    BY <1>1, RowValues DEF IInv, Typed
  <2>2. copies' \in [Deliveries -> Nat]
    BY <1>1 DEF IInv, Typed
  <2>3. change' \in [Changes -> {"none", "marked", "matched"}]
    BY <1>1 DEF IInv, Typed
  <2>4. matching' \in [Couriers -> SUBSET Changes]
    BY <1>1 DEF IInv, Typed
  <2>5. QED
    BY <1>1, <2>1, <2>2, <2>3, <2>4 DEF IInv, Typed
<1>7. BatchInv'
  <2>1. \A v \in Couriers : \A x \in matching[v] : v # c => x \notin matching[c]
    BY DEF IInv, BatchInv
  <2>2. \A v \in Couriers : \A x \in matching[v] : x \in Changes
    BY DEF IInv, Typed
  <2>3. QED
    BY <1>5, <2>1, <2>2 DEF IInv, BatchInv
<1>8. QueueInv'
  <2> SUFFICES ASSUME NEW d \in Deliveries
               PROVE  /\ change'[d[1]] # "matched" => copies'[d] = 0
                      /\ copies'[d] = 0 => row'[d] = Absent /\ redone[d] = 0
                                           /\ \A v \in Couriers : ~Sends(v, d)
    BY <1>1 DEF QueueInv, Sends
  <2>1. CASE d[1] \in matching[c]
    BY <2>1, <1>3, <1>5, DeliveryParts
  <2>2. CASE d[1] \notin matching[c]
    BY <2>2, <1>4, <1>5, DeliveryParts DEF IInv, QueueInv
  <2>3. QED
    BY <2>1, <2>2
<1>9. StageInv'
  BY <1>1 DEF IInv, StageInv
<1>10. LeaseInv'
  BY <1>1, <1>3, <1>4, <1>5 DEF IInv, LeaseInv, Sends
<1>11. NothingLost'
  BY <1>1, <1>4, <1>5, DeliveryParts DEF IInv, NothingLost
<1>12. QueuedOnce'
  BY <1>1, <1>4, <1>5, DeliveryParts DEF IInv, QueuedOnce
<1>13. SentOnceAtATime'
  BY <1>1 DEF IInv, SentOnceAtATime
<1>14. QED
  BY <1>6, <1>7, <1>8, <1>9, <1>10, <1>11, <1>12, <1>13 DEF IInv

LEMMA FailBatchStep ==
  ASSUME IInv, NEW c \in Couriers, FailBatch(c)
  PROVE  IInv'
<1>1. /\ UNCHANGED <<change, heard, hook, row, copies, flight, asked, redone>>
      /\ matching' = [matching EXCEPT ![c] = {}]
  BY DEF FailBatch
<1>2. /\ matching' \in [Couriers -> SUBSET Changes]
      /\ \A v \in Couriers : matching'[v] \subseteq matching[v]
  BY <1>1 DEF IInv, Typed
<1>3. Typed' /\ BatchInv' /\ QueueInv' /\ StageInv' /\ LeaseInv'
  BY <1>1, <1>2 DEF IInv, Typed, BatchInv, QueueInv, StageInv, LeaseInv, Sends
<1>4. NothingLost' /\ QueuedOnce' /\ SentOnceAtATime'
  BY <1>1 DEF IInv, NothingLost, QueuedOnce, SentOnceAtATime
<1>5. QED
  BY <1>3, <1>4 DEF IInv

-----------------------------------------------------------------------------
\* What is known of the sends of a delivery nobody asked for again.
LEMMA OneSend ==
  ASSUME IInv, NEW d \in Deliveries, redone[d] = 0, NEW c \in Couriers, flight[c][d].step # "none"
  PROVE  /\ row[d].state = "absent" \/ row[d].next = "leased"
         /\ \A v \in Couriers : flight[v][d].step # "none" => v = c
BY CourierConstants DEF IInv, LeaseInv, SentOnceAtATime, Sends, Typed

LEMMA ClaimStep ==
  ASSUME IInv, NEW c \in Couriers, NEW batch \in SUBSET Deliveries, Claim(c, batch)
  PROVE  IInv'
<1> DEFINE sending == [Grounded EXCEPT !.step = "sending"]
<1>1. /\ UNCHANGED <<change, heard, matching, hook, copies, asked, redone>>
      /\ \A h \in Hooks : {d \in batch : HookOf(d) = h} \subseteq Due(h)
      /\ row' = [d \in Deliveries |->
                   IF d \in batch THEN [row[d] EXCEPT !.next = "leased"] ELSE row[d]]
      /\ flight' = [flight EXCEPT ![c] = [d \in Deliveries |-> IF d \in batch THEN sending ELSE @[d]]]
  BY DEF Claim
<1>2. \A d \in batch : d \in Deliveries /\ row[d].state = "pending" /\ row[d].next = "due"
  BY <1>1, DeliveryParts DEF Due
<1>3. sending \in Flight
  BY RowValues
<1> HIDE DEF sending
<1>4. /\ flight' \in [Couriers -> [Deliveries -> Flight]]
      /\ \A v \in Couriers, d \in Deliveries :
            flight'[v][d] = IF v = c /\ d \in batch THEN sending ELSE flight[v][d]
  BY <1>1, <1>3 DEF IInv, Typed
<1>5. \A d \in Deliveries : [row[d] EXCEPT !.next = "leased"] \in AnyRow
  BY DEF IInv, Typed, AnyRow
<1>6. /\ row' \in [Deliveries -> AnyRow]
      /\ \A d \in Deliveries : /\ d \notin batch => row'[d] = row[d]
                               /\ d \in batch => row'[d].next = "leased"
  BY <1>1, <1>5 DEF IInv, Typed, AnyRow
<1>7. \A d \in Deliveries : d \in batch => row[d] # Absent
  BY <1>2, RowValues
<1>8. \A d \in Deliveries : redone[d] = 0 /\ d \in batch => \A v \in Couriers : flight[v][d].step = "none"
  BY <1>2, OneSend
<1>9. hook' \in [Hooks -> Hook] /\ matching' \in [Couriers -> SUBSET Changes]
  BY <1>1 DEF IInv, Typed
<1>10. \A d \in Deliveries : redone[d] = 0 =>
            /\ \A v \in Couriers : flight'[v][d].step # "none" =>
                  row'[d].state = "absent" \/ row'[d].next = "leased"
            /\ \A u, v \in Couriers :
                  flight'[u][d].step # "none" /\ flight'[v][d].step # "none" => u = v
  <2> SUFFICES ASSUME NEW d \in Deliveries, redone[d] = 0
               PROVE  /\ \A v \in Couriers : flight'[v][d].step # "none" =>
                            row'[d].state = "absent" \/ row'[d].next = "leased"
                      /\ \A u, v \in Couriers :
                            flight'[u][d].step # "none" /\ flight'[v][d].step # "none" => u = v
    OBVIOUS
  <2>1. CASE d \in batch
    BY <2>1, <1>4, <1>6, <1>8
  <2>2. CASE d \notin batch
    BY <2>2, <1>4, <1>6, OneSend
  <2>3. QED
    BY <2>1, <2>2
<1>11. QED
  BY <1>1, <1>4, <1>6, <1>7, <1>9, <1>10, SendingStep

\* A send goes on, or comes down: the courier's own, and nothing else.
LEMMA FlightStep ==
  ASSUME IInv, NEW c \in Couriers, NEW d \in Deliveries, NEW f \in Flight,
         flight[c][d].step # "none", flight' = [flight EXCEPT ![c][d] = f],
         UNCHANGED <<change, heard, matching, copies, asked, redone>>,
         hook' \in [Hooks -> Hook], \A h \in Hooks : hook'[h].stage = hook[h].stage,
         NEW r \in AnyRow, row' = [row EXCEPT ![d] = r],
         row[d].state = "absent" => r = row[d],
         f.step # "none" => r = row[d]
  PROVE  IInv'
<1>1. /\ flight' \in [Couriers -> [Deliveries -> Flight]]
      /\ \A v \in Couriers, e \in Deliveries :
            flight'[v][e] = IF v = c /\ e = d THEN f ELSE flight[v][e]
  BY DEF IInv, Typed
<1>2. /\ row' \in [Deliveries -> AnyRow]
      /\ \A e \in Deliveries : row'[e] = IF e = d THEN r ELSE row[e]
  BY DEF IInv, Typed
<1>3. matching' \in [Couriers -> SUBSET Changes]
  BY DEF IInv, Typed
<1>4. \A e \in Deliveries : row[e] = Absent => row'[e] = Absent
  BY <1>2, RowValues
<1>5. \A v \in Couriers, e \in Deliveries :
         flight'[v][e].step # "none" => flight[v][e].step # "none"
  BY <1>1
<1>6. \A e \in Deliveries : redone[e] = 0 =>
            /\ \A v \in Couriers : flight'[v][e].step # "none" =>
                  row'[e].state = "absent" \/ row'[e].next = "leased"
            /\ \A u, v \in Couriers :
                  flight'[u][e].step # "none" /\ flight'[v][e].step # "none" => u = v
  <2> SUFFICES ASSUME NEW e \in Deliveries, redone[e] = 0,
                      NEW v \in Couriers, flight'[v][e].step # "none"
               PROVE  /\ row'[e].state = "absent" \/ row'[e].next = "leased"
                      /\ \A u \in Couriers : flight'[u][e].step # "none" => u = v
    OBVIOUS
  <2>1. /\ row[e].state = "absent" \/ row[e].next = "leased"
        /\ \A u \in Couriers : flight[u][e].step # "none" => u = v
    BY <1>5, OneSend
  <2>2. row'[e] = row[e]
    BY <1>1, <1>2, <2>1
  <2>3. QED
    BY <1>5, <2>1, <2>2
<1>7. QED
  BY <1>1, <1>2, <1>3, <1>4, <1>5, <1>6, SendingStep

LEMMA AnswerStep ==
  ASSUME IInv, NEW c \in Couriers, NEW d \in Deliveries, NEW ok \in BOOLEAN, Answer(c, d, ok)
  PROVE  IInv'
<1> DEFINE f == [flight[c][d] EXCEPT !.step = "landed", !.ok = ok]
<1>1. flight[c][d] \in Flight /\ row[d] \in AnyRow /\ hook \in [Hooks -> Hook]
  BY DEF IInv, Typed
<1>2. f \in Flight
  BY <1>1 DEF Flight
<1>3. /\ flight[c][d].step # "none" /\ flight' = [flight EXCEPT ![c][d] = f]
      /\ UNCHANGED <<change, heard, matching, hook, row, copies, asked, redone>>
  BY DEF Answer, IInv, Typed
<1>4. row' = [row EXCEPT ![d] = row[d]]
  BY <1>3 DEF IInv, Typed
<1> HIDE DEF f
<1>5. QED
  BY <1>1, <1>2, <1>3, <1>4, FlightStep

LEMMA LoadStep ==
  ASSUME IInv, NEW c \in Couriers, NEW d \in Deliveries, Load(c, d)
  PROVE  IInv'
<1> DEFINE f == IF row[d].state = "absent" THEN Grounded
                ELSE [flight[c][d] EXCEPT !.step = "loaded", !.loaded = row[d]]
<1>1. flight[c][d] \in Flight /\ row[d] \in AnyRow /\ hook \in [Hooks -> Hook]
  BY DEF IInv, Typed
<1>2. f \in Flight
  BY <1>1, RowValues DEF Flight
<1>3. /\ flight[c][d].step # "none" /\ flight' = [flight EXCEPT ![c][d] = f]
      /\ UNCHANGED <<change, heard, matching, hook, row, copies, asked, redone>>
  BY DEF Load, IInv, Typed
<1>4. row' = [row EXCEPT ![d] = row[d]]
  BY <1>3 DEF IInv, Typed
<1> HIDE DEF f
<1>5. QED
  BY <1>1, <1>2, <1>3, <1>4, FlightStep

LEMMA FailRecordStep ==
  ASSUME IInv, NEW c \in Couriers, NEW d \in Deliveries, FailRecord(c, d)
  PROVE  IInv'
<1>1. /\ flight[c][d].step # "none" /\ flight' = [flight EXCEPT ![c][d] = Grounded]
      /\ UNCHANGED <<change, heard, matching, hook, row, copies, asked, redone>>
  BY DEF FailRecord
<1>2. /\ row[d] \in AnyRow /\ hook \in [Hooks -> Hook] /\ Grounded \in Flight
      /\ row' = [row EXCEPT ![d] = row[d]]
  BY <1>1, RowValues DEF IInv, Typed
<1>3. QED
  BY <1>1, <1>2, FlightStep

LEMMA WriteStep ==
  ASSUME IInv, NEW c \in Couriers, NEW d \in Deliveries, Write(c, d)
  PROVE  IInv'
<1> DEFINE f == flight[c][d]
           h == HookOf(d)
           r == IF row[d].state = "absent" THEN row[d]
                ELSE Written(row[d], f.loaded, Attempted(f.loaded, f.ok))
           k == IF row[d].state = "absent" THEN hook[h] ELSE Counted(hook[h], f.ok)
<1>1. /\ f \in Flight /\ row[d] \in AnyRow /\ hook[h] \in Hook /\ h \in Hooks
      /\ f.loaded \in AnyRow /\ f.ok \in BOOLEAN
  BY DeliveryParts DEF IInv, Typed, Flight
<1>2. /\ f.step # "none" /\ flight' = [flight EXCEPT ![c][d] = Grounded]
      /\ UNCHANGED <<change, heard, matching, copies, asked, redone>>
      /\ row' = [row EXCEPT ![d] = r] /\ hook' = [hook EXCEPT ![h] = k]
  BY <1>1 DEF Write, IInv, Typed
<1>3. r \in AnyRow
  BY <1>1, AttemptedTyped, WrittenTyped
<1>4. k \in Hook /\ k.stage = hook[h].stage
  BY <1>1, CountedTyped
<1>5. row[d].state = "absent" => r = row[d]
  OBVIOUS
<1> HIDE DEF f, h, r, k
<1>6. hook' \in [Hooks -> Hook] /\ \A g \in Hooks : hook'[g].stage = hook[g].stage
  BY <1>1, <1>2, <1>4 DEF IInv, Typed
<1>7. QED
  BY <1>2, <1>3, <1>5, <1>6, RowValues, FlightStep DEF f

\* A lease or a back-off ends: the row is due, and nobody is sending it unless
\* somebody asked for it.
LEMMA DueStep ==
  ASSUME IInv, NEW d \in Deliveries, LeaseEnds(d) \/ BackoffEnds(d)
  PROVE  IInv'
<1>1. /\ UNCHANGED <<change, heard, matching, hook, copies, flight, asked, redone>>
      /\ row' = [row EXCEPT ![d].next = "due"]
      /\ row[d].next # "none"
      /\ redone[d] = 0 => \A c \in Couriers : flight[c][d].step = "none" \/ row[d].state = "absent"
  BY OneSend DEF LeaseEnds, BackoffEnds, Aloft
<1>2. /\ row' \in [Deliveries -> AnyRow]
      /\ \A e \in Deliveries : e # d => row'[e] = row[e]
      /\ row'[d].state = row[d].state
      /\ row[d] # Absent
  BY <1>1 DEF IInv, Typed, AnyRow, Absent
<1>3. matching' \in [Couriers -> SUBSET Changes] /\ hook' \in [Hooks -> Hook]
      /\ flight' \in [Couriers -> [Deliveries -> Flight]]
  BY <1>1 DEF IInv, Typed
<1>4. \A e \in Deliveries : redone[e] = 0 =>
            /\ \A v \in Couriers : flight'[v][e].step # "none" =>
                  row'[e].state = "absent" \/ row'[e].next = "leased"
            /\ \A u, v \in Couriers :
                  flight'[u][e].step # "none" /\ flight'[v][e].step # "none" => u = v
  BY <1>1, <1>2, OneSend
<1>5. QED
  BY <1>1, <1>2, <1>3, <1>4, SendingStep

LEMMA PauseStep ==
  ASSUME IInv, NEW h \in Hooks, PauseEnds(h)
  PROVE  IInv'
<1>1. /\ UNCHANGED <<change, heard, matching, row, copies, flight, asked, redone>>
      /\ hook' = [hook EXCEPT ![h].paused = FALSE]
  BY DEF PauseEnds
<1>2. hook' \in [Hooks -> Hook] /\ \A g \in Hooks : hook'[g].stage = hook[g].stage
  BY <1>1 DEF IInv, Typed, Hook
<1>3. /\ matching' \in [Couriers -> SUBSET Changes] /\ row' \in [Deliveries -> AnyRow]
      /\ flight' \in [Couriers -> [Deliveries -> Flight]]
  BY <1>1 DEF IInv, Typed
<1>4. QED
  BY <1>1, <1>2, <1>3, OneSend, SendingStep

LEMMA CrashStep ==
  ASSUME IInv, NEW c \in Couriers, Crash(c)
  PROVE  IInv'
<1>1. /\ UNCHANGED <<change, heard, hook, row, copies, asked, redone>>
      /\ flight' = [flight EXCEPT ![c] = [d \in Deliveries |-> Grounded]]
      /\ matching' = [matching EXCEPT ![c] = {}]
  BY DEF Crash
<1>2. /\ matching' \in [Couriers -> SUBSET Changes]
      /\ \A v \in Couriers : matching'[v] \subseteq matching[v]
  BY <1>1 DEF IInv, Typed
<1>3. /\ flight' \in [Couriers -> [Deliveries -> Flight]]
      /\ \A v \in Couriers, d \in Deliveries :
            flight'[v][d] = IF v = c THEN Grounded ELSE flight[v][d]
  BY <1>1, RowValues DEF IInv, Typed
<1>4. \A v \in Couriers, d \in Deliveries :
         flight'[v][d].step # "none" => flight[v][d].step # "none"
  BY <1>3, RowValues
<1>5. hook' \in [Hooks -> Hook] /\ row' \in [Deliveries -> AnyRow]
  BY <1>1 DEF IInv, Typed
<1>6. QED
  BY <1>1, <1>2, <1>3, <1>4, <1>5, OneSend, SendingStep

-----------------------------------------------------------------------------
\* Asking, and then writing what was asked, changes a row that has been asked
\* for: nothing is promised of its sends.
LEMMA AskStep ==
  ASSUME IInv, NEW d \in Deliveries, AskAgain(d)
  PROVE  IInv'
<1>1. /\ UNCHANGED <<change, heard, matching, hook, row, copies, flight>>
      /\ row[d].state # "absent" /\ redone[d] < MaxRedeliveries
      /\ asked' = [delivery |-> d, loaded |-> row[d]]
      /\ redone' = [redone EXCEPT ![d] = @ + 1]
  BY DEF AskAgain
<1>2. redone[d] \in Nat /\ redone[d] + 1 \in 0..MaxRedeliveries
  BY <1>1, CourierConstants DEF IInv, Typed
<1>3. /\ redone' \in [Deliveries -> 0..MaxRedeliveries]
      /\ \A e \in Deliveries : redone'[e] = IF e = d THEN redone[d] + 1 ELSE redone[e]
  BY <1>1, <1>2 DEF IInv, Typed
<1>4. \A e \in Deliveries : redone'[e] = 0 => e # d /\ redone[e] = 0
  BY <1>2, <1>3
<1>5. row[d] # Absent
  BY <1>1, RowValues
<1>6. asked' \in [delivery : Deliveries, loaded : AnyRow] /\ asked'.delivery = d
  BY <1>1 DEF IInv, Typed
<1>7. Typed' /\ BatchInv' /\ StageInv'
  BY <1>1, <1>3, <1>6 DEF IInv, Typed, BatchInv, StageInv
<1>8. QueueInv'
  BY <1>1, <1>3, <1>5 DEF IInv, QueueInv, Sends
<1>9. LeaseInv'
  BY <1>1, <1>4, <1>6 DEF IInv, LeaseInv, Sends
<1>10. NothingLost' /\ QueuedOnce'
  BY <1>1 DEF IInv, NothingLost, QueuedOnce
<1>11. SentOnceAtATime'
  <2> SUFFICES ASSUME NEW e \in Deliveries, NEW c \in Couriers, NEW v \in Couriers, c # v,
                      flight[c][e].step # "none", flight[v][e].step # "none"
               PROVE  redone'[e] > 0
    BY <1>1 DEF SentOnceAtATime
  <2>1. redone[e] > 0
    BY DEF IInv, SentOnceAtATime
  <2>2. QED
    BY <1>2, <1>3, <2>1
<1>12. QED
  BY <1>7, <1>8, <1>9, <1>10, <1>11 DEF IInv

LEMMA RequeueStep ==
  ASSUME IInv, Requeue
  PROVE  IInv'
<1> DEFINE d == asked.delivery
           r == IF row[d].state = "absent" THEN row[d]
                ELSE [row[d] EXCEPT !.next = "due",
                                    !.state = IF asked.loaded.state = "pending" THEN @ ELSE "pending"]
<1>1. asked # None /\ d \in Deliveries /\ row[d] \in AnyRow
  BY DEF Requeue, IInv, Typed
<1>2. /\ UNCHANGED <<change, heard, matching, hook, copies, flight, redone>>
      /\ row' = [row EXCEPT ![d] = r] /\ asked' = None
  BY <1>1 DEF Requeue, IInv, Typed
<1>3. r \in AnyRow /\ (row[d] = Absent => r = Absent)
  BY <1>1, RowValues DEF AnyRow
<1>4. redone[d] # 0
  BY <1>1 DEF IInv, LeaseInv
<1> HIDE DEF d, r
<1>5. /\ row' \in [Deliveries -> AnyRow]
      /\ \A e \in Deliveries : row'[e] = IF e = d THEN r ELSE row[e]
  BY <1>1, <1>2, <1>3 DEF IInv, Typed
<1>6. Typed'
  BY <1>2, <1>5 DEF IInv, Typed
<1>7. BatchInv' /\ StageInv'
  BY <1>2 DEF IInv, BatchInv, StageInv
<1>8. QueueInv'
  BY <1>2, <1>3, <1>5 DEF IInv, QueueInv, Sends
<1>9. LeaseInv'
  BY <1>2, <1>4, <1>5 DEF IInv, LeaseInv, Sends
<1>10. NothingLost' /\ QueuedOnce' /\ SentOnceAtATime'
  BY <1>2 DEF IInv, NothingLost, QueuedOnce, SentOnceAtATime
<1>11. QED
  BY <1>6, <1>7, <1>8, <1>9, <1>10 DEF IInv

LEMMA NextInv == IInv /\ [Next]_vars => IInv'
<1> SUFFICES ASSUME IInv, [Next]_vars PROVE IInv'
  OBVIOUS
<1>1. ASSUME NEW h \in Hooks, BeginHook(h) \/ CommitHook(h) \/ DeleteHook(h) \/ PauseEnds(h)
      PROVE  IInv'
  BY <1>1, HookStep, DeleteStep, PauseStep
<1>2. ASSUME NEW x \in Changes, Record(x) PROVE IInv'
  BY <1>2, RecordStep
<1>3. ASSUME NEW c \in Couriers, Match(c) \/ FailBatch(c) \/ SendDue(c) \/ Crash(c)
      PROVE  IInv'
  BY <1>3, LockStep, CommitStep, FailBatchStep, ClaimStep, CrashStep DEF Match, SendDue
<1>4. ASSUME NEW c \in Couriers, NEW d \in Deliveries, Deliver(c, d) \/ FailRecord(c, d)
      PROVE  IInv'
  BY <1>4, AnswerStep, LoadStep, WriteStep, FailRecordStep DEF Deliver
<1>5. ASSUME NEW d \in Deliveries, LeaseEnds(d) \/ BackoffEnds(d) \/ AskAgain(d)
      PROVE  IInv'
  BY <1>5, DueStep, AskStep
<1>6. CASE Requeue
  BY <1>6, RequeueStep
<1>7. CASE UNCHANGED vars
  <2>1. Typed' /\ BatchInv' /\ QueueInv' /\ StageInv' /\ LeaseInv'
    BY <1>7 DEF vars, IInv, Typed, BatchInv, QueueInv, StageInv, LeaseInv, Sends
  <2>2. NothingLost' /\ QueuedOnce' /\ SentOnceAtATime'
    BY <1>7 DEF vars, IInv, NothingLost, QueuedOnce, SentOnceAtATime
  <2>3. QED
    BY <2>1, <2>2 DEF IInv
<1>8. QED
  BY <1>1, <1>2, <1>3, <1>4, <1>5, <1>6, <1>7 DEF Next

-----------------------------------------------------------------------------
(* How many attempts a delivery may be counted for.                         *)

\* How many more attempts of a delivery could still be counted: one for each
\* send, one if the row is due or will be, and one if somebody is asking.  A
\* lease makes a row due again when no send of it is going to clear the lease.
Senders(d) == {c \in Couriers : flight[c][d].step # "none"}
Stale(c, d) == flight[c][d].step = "loaded" /\ flight[c][d].loaded.next \in {"none", "later"}
DueYet(d) ==
    \/ row[d].next \in {"due", "later"}
    \/ row[d].next = "leased" /\ \A c \in Couriers : flight[c][d].step # "none" => Stale(c, d)
AskedFor(d) == asked # None /\ asked.delivery = d
One(b) == IF b THEN 1 ELSE 0
Chances(d) == Cardinality(Senders(d)) + One(DueYet(d)) + One(AskedFor(d))

\* The attempts counted and those to come are no more than MAX_ATTEMPTS and one
\* for each time somebody asked; and so are those a recording has read.
AttemptsOf(d) ==
    /\ IsFiniteSet(Senders(d))
    /\ Chances(d) <= redone[d] + 1
    /\ row[d].count + Chances(d) <= MAX_ATTEMPTS + redone[d]
    /\ \A c \in Couriers :
          /\ flight[c][d].step = "loaded"
                => flight[c][d].loaded.count + Chances(d) <= MAX_ATTEMPTS + redone[d]
          /\ flight[c][d].step # "loaded" => flight[c][d].loaded = Absent

AttemptsInv ==
    /\ \A d \in Deliveries : AttemptsOf(d)
    /\ asked # None => asked.loaded.count <= MAX_ATTEMPTS + MaxRedeliveries

LEMMA OneIsNat == ASSUME NEW b PROVE One(b) \in 0..1 /\ (b => One(b) = 1) /\ (~b => One(b) = 0)
BY DEF One

LEMMA SumIsNat ==
  ASSUME NEW S, IsFiniteSet(S), NEW p, NEW q
  PROVE  /\ Cardinality(S) \in Nat
         /\ Cardinality(S) + One(p) + One(q) \in Nat
<1>1. Cardinality(S) \in Nat
  BY FS_CardinalityType
<1>2. One(p) \in 0..1 /\ One(q) \in 0..1
  BY OneIsNat
<1>3. QED
  BY <1>1, <1>2

\* What AttemptsOf(d) says, as numbers.
LEMMA Numbers ==
  ASSUME IInv, NEW d \in Deliveries
  PROVE  /\ row[d].count \in Nat /\ redone[d] \in Nat /\ redone[d] <= MaxRedeliveries
         /\ MAX_ATTEMPTS \in Nat \ {0} /\ MaxRedeliveries \in Nat
         /\ \A c \in Couriers : flight[c][d].loaded.count \in Nat
BY CourierConstants DEF IInv, Typed, AnyRow, Flight

LEMMA BoundKept ==
  ASSUME NEW n \in Nat, NEW nn \in Nat, NEW m \in Nat, NEW mm \in Nat, NEW r \in Nat,
         NEW limit \in Nat \ {0},
         n <= m + 1, nn + m <= n + mm, m <= mm, r + n <= limit + m
  PROVE  nn <= mm + 1 /\ r + nn <= limit + mm /\ 0 + nn <= limit + mm
OBVIOUS

\* A step that takes no chance from nowhere and counts nothing new keeps the
\* bound.
LEMMA NothingCounted ==
  ASSUME IInv, NEW d \in Deliveries, AttemptsOf(d),
         IsFiniteSet(Senders(d))',
         \/ redone'[d] = redone[d] /\ Chances(d)' <= Chances(d)
         \/ redone'[d] = redone[d] + 1 /\ Chances(d)' <= Chances(d) + 1,
         row'[d].count = row[d].count \/ row'[d] = Absent,
         \A c \in Couriers :
            /\ flight'[c][d].step = "loaded" =>
                  \/ flight[c][d].step = "loaded" /\ flight'[c][d].loaded = flight[c][d].loaded
                  \/ flight'[c][d].loaded = row[d]
            /\ flight'[c][d].step # "loaded" => flight'[c][d].loaded = Absent
  PROVE  AttemptsOf(d)'
<1>1. PICK n \in Nat, nn \in Nat : n = Chances(d) /\ nn = Chances(d)'
  BY SumIsNat DEF AttemptsOf, Chances
<1>2. PICK m \in Nat, mm \in Nat : m = redone[d] /\ mm = redone'[d]
  BY Numbers
<1>3. n <= m + 1 /\ nn + m <= n + mm /\ m <= mm
  BY <1>1, <1>2 DEF AttemptsOf
<1>4. \A r \in Nat : r + n <= MAX_ATTEMPTS + m => r + nn <= MAX_ATTEMPTS + mm
  BY <1>3, CourierConstants, BoundKept
<1>5. nn <= mm + 1 /\ 0 + nn <= MAX_ATTEMPTS + mm
  BY <1>3, CourierConstants
<1>6. row'[d].count + nn <= MAX_ATTEMPTS + mm
  <2>1. CASE row'[d].count = row[d].count
    BY <2>1, <1>1, <1>2, <1>4, Numbers DEF AttemptsOf
  <2>2. CASE row'[d] = Absent
    BY <2>2, <1>5 DEF Absent
  <2>3. QED
    BY <2>1, <2>2
<1>7. \A c \in Couriers : flight'[c][d].step = "loaded"
         => flight'[c][d].loaded.count + nn <= MAX_ATTEMPTS + mm
  BY <1>1, <1>2, <1>4, Numbers DEF AttemptsOf
<1>8. QED
  BY <1>1, <1>2, <1>5, <1>6, <1>7 DEF AttemptsOf

\* How the set of a delivery's senders changes.
LEMMA SameSenders ==
  ASSUME NEW d \in Deliveries,
         \A c \in Couriers : flight'[c][d].step # "none" <=> flight[c][d].step # "none"
  PROVE  Senders(d)' = Senders(d)
BY DEF Senders

LEMMA FewerSenders ==
  ASSUME NEW d \in Deliveries, IsFiniteSet(Senders(d)), NEW c \in Couriers,
         flight[c][d].step # "none", flight'[c][d].step = "none",
         \A v \in Couriers : v # c => flight'[v][d] = flight[v][d]
  PROVE  /\ IsFiniteSet(Senders(d))'
         /\ Cardinality(Senders(d))' = Cardinality(Senders(d)) - 1
<1>1. Senders(d)' = Senders(d) \ {c} /\ c \in Senders(d)
  BY DEF Senders
<1>2. QED
  BY <1>1, FS_RemoveElement

LEMMA MoreSenders ==
  ASSUME NEW d \in Deliveries, IsFiniteSet(Senders(d)), NEW c \in Couriers,
         flight[c][d].step = "none", flight'[c][d].step # "none",
         \A v \in Couriers : v # c => flight'[v][d] = flight[v][d]
  PROVE  /\ IsFiniteSet(Senders(d))'
         /\ Cardinality(Senders(d))' = Cardinality(Senders(d)) + 1
<1>1. Senders(d)' = Senders(d) \cup {c} /\ c \notin Senders(d)
  BY DEF Senders
<1>2. QED
  BY <1>1, FS_AddElement

\* A delivery that a step leaves alone.
LEMMA Untouched ==
  ASSUME NEW d \in Deliveries, AttemptsOf(d),
         row'[d] = row[d], redone'[d] = redone[d],
         AskedFor(d)' <=> AskedFor(d),
         \A c \in Couriers : flight'[c][d] = flight[c][d]
  PROVE  AttemptsOf(d)'
<1>1. Senders(d)' = Senders(d)
  BY SameSenders
<1>2. DueYet(d)' <=> DueYet(d)
  BY DEF DueYet, Stale
<1>3. One(DueYet(d))' = One(DueYet(d)) /\ One(AskedFor(d))' = One(AskedFor(d))
  BY <1>2 DEF One
<1>4. Chances(d)' = Chances(d)
  BY <1>1, <1>3 DEF Chances
<1>5. QED
  BY <1>1, <1>4 DEF AttemptsOf

\* The same senders, and nothing becomes due or asked for.
LEMMA NoMoreChances ==
  ASSUME NEW d \in Deliveries, AttemptsOf(d),
         \A c \in Couriers : flight'[c][d].step # "none" <=> flight[c][d].step # "none",
         DueYet(d)' => DueYet(d), AskedFor(d)' => AskedFor(d)
  PROVE  IsFiniteSet(Senders(d))' /\ Chances(d)' <= Chances(d)
<1>1. Senders(d)' = Senders(d)
  BY SameSenders
<1>2. One(DueYet(d))' <= One(DueYet(d)) /\ One(AskedFor(d))' <= One(AskedFor(d))
  BY DEF One
<1>3. PICK k \in Nat : k = Cardinality(Senders(d)) /\ k = Cardinality(Senders(d))'
  BY <1>1, SumIsNat DEF AttemptsOf
<1>4. /\ One(DueYet(d)) \in 0..1 /\ One(AskedFor(d)) \in 0..1
      /\ One(DueYet(d))' \in 0..1 /\ One(AskedFor(d))' \in 0..1
  BY DEF One
<1>5. QED
  BY <1>1, <1>2, <1>3, <1>4 DEF AttemptsOf, Chances

\* One sender fewer: room for the row to become due.
LEMMA OneChanceFewer ==
  ASSUME NEW d \in Deliveries, AttemptsOf(d), NEW c \in Couriers,
         flight[c][d].step # "none", flight'[c][d].step = "none",
         \A v \in Couriers : v # c => flight'[v][d] = flight[v][d],
         AskedFor(d)' => AskedFor(d)
  PROVE  /\ IsFiniteSet(Senders(d))' /\ Chances(d)' <= Chances(d)
         /\ (DueYet(d)' => DueYet(d)) => Chances(d)' + 1 <= Chances(d)
<1>1. IsFiniteSet(Senders(d))' /\ Cardinality(Senders(d))' = Cardinality(Senders(d)) - 1
  BY FewerSenders DEF AttemptsOf
<1>2. One(AskedFor(d))' <= One(AskedFor(d)) /\ ((DueYet(d)' => DueYet(d)) => One(DueYet(d))' <= One(DueYet(d)))
  BY DEF One
<1>3. PICK k \in Nat, kk \in Nat :
         k = Cardinality(Senders(d)) /\ kk = Cardinality(Senders(d))' /\ kk = k - 1
  BY <1>1, SumIsNat DEF AttemptsOf
<1>4. /\ One(DueYet(d)) \in 0..1 /\ One(AskedFor(d)) \in 0..1
      /\ One(DueYet(d))' \in 0..1 /\ One(AskedFor(d))' \in 0..1
  BY DEF One
<1>5. QED
  BY <1>1, <1>2, <1>3, <1>4 DEF Chances

\* One sender more, of a row that was due and is leased now.
LEMMA ClaimedChance ==
  ASSUME NEW d \in Deliveries, AttemptsOf(d), NEW c \in Couriers,
         flight'[c][d].step = "sending", DueYet(d), row'[d].next = "leased",
         \A v \in Couriers : v # c => flight'[v][d] = flight[v][d],
         AskedFor(d)' => AskedFor(d)
  PROVE  IsFiniteSet(Senders(d))' /\ Chances(d)' <= Chances(d)
<1>1. ~DueYet(d)'
  BY DEF DueYet, Stale
<1>2. CASE flight[c][d].step # "none"
  BY <1>1, <1>2, NoMoreChances
<1>3. CASE flight[c][d].step = "none"
  <2>1. IsFiniteSet(Senders(d))' /\ Cardinality(Senders(d))' = Cardinality(Senders(d)) + 1
    BY <1>3, MoreSenders DEF AttemptsOf
  <2>2. One(DueYet(d)) = 1 /\ One(DueYet(d))' = 0 /\ One(AskedFor(d))' <= One(AskedFor(d))
    BY <1>1 DEF One
  <2>3. PICK k \in Nat, kk \in Nat :
           k = Cardinality(Senders(d)) /\ kk = Cardinality(Senders(d))' /\ kk = k + 1
    BY <2>1, SumIsNat DEF AttemptsOf
  <2>4. PICK a \in 0..1, aa \in 0..1 : a = One(AskedFor(d)) /\ aa = One(AskedFor(d))' /\ aa <= a
    BY <2>2 DEF One
  <2>5. Chances(d) = k + 1 + a /\ Chances(d)' = kk + 0 + aa
    BY <2>2, <2>3, <2>4 DEF Chances
  <2>6. QED
    BY <2>1, <2>3, <2>4, <2>5
<1>4. QED
  BY <1>2, <1>3

LEMMA SameAsked ==
  ASSUME NEW d, asked' = asked
  PROVE  AskedFor(d)' <=> AskedFor(d)
BY DEF AskedFor

\* Steps that change no row, no send and no request leave every bound alone.
LEMMA AttemptsElsewhere ==
  ASSUME AttemptsInv, UNCHANGED <<row, flight, asked, redone>>
  PROVE  AttemptsInv'
<1>1. \A d \in Deliveries : AttemptsOf(d)'
  BY Untouched, SameAsked DEF AttemptsInv
<1>2. QED
  BY <1>1 DEF AttemptsInv

LEMMA DeleteAttempts ==
  ASSUME IInv, AttemptsInv, NEW h \in Hooks, DeleteHook(h)
  PROVE  AttemptsInv'
<1>1. /\ UNCHANGED <<flight, asked, redone>>
      /\ row' = [d \in Deliveries |-> IF HookOf(d) = h THEN Absent ELSE row[d]]
  BY DEF DeleteHook
<1>2. ASSUME NEW d \in Deliveries PROVE AttemptsOf(d)'
  <2>1. AttemptsOf(d) /\ (row'[d] = row[d] \/ row'[d] = Absent)
    BY <1>1 DEF AttemptsInv
  <2>2. DueYet(d)' => DueYet(d)
    BY <1>1, <2>1 DEF DueYet, Stale, Absent
  <2>3. IsFiniteSet(Senders(d))' /\ Chances(d)' <= Chances(d)
    BY <1>1, <2>1, <2>2, NoMoreChances, SameAsked
  <2>4. \A c \in Couriers :
           /\ flight'[c][d].step = "loaded" =>
                 flight[c][d].step = "loaded" /\ flight'[c][d].loaded = flight[c][d].loaded
           /\ flight'[c][d].step # "loaded" => flight'[c][d].loaded = Absent
    BY <1>1, <2>1 DEF AttemptsOf
  <2>5. QED
    BY <1>1, <2>1, <2>3, <2>4, NothingCounted
<1>3. QED
  BY <1>1, <1>2 DEF AttemptsInv

LEMMA CommitAttempts ==
  ASSUME IInv, AttemptsInv, NEW c \in Couriers, CommitBatch(c)
  PROVE  AttemptsInv'
<1> DEFINE earned == {d \in Deliveries : d[1] \in matching[c] /\ Listening(d[1], HookOf(d))}
<1>1. /\ UNCHANGED <<flight, asked, redone>>
      /\ row' = [d \in Deliveries |-> IF d \in earned THEN Queued ELSE row[d]]
  BY DEF CommitBatch
<1>2. \A d \in Deliveries : d \in earned =>
         /\ redone[d] = 0 /\ ~AskedFor(d) /\ \A v \in Couriers : flight[v][d].step = "none"
  BY DeliveryParts DEF IInv, Typed, BatchInv, QueueInv, LeaseInv, Sends, AskedFor
<1> HIDE DEF earned
<1>3. ASSUME NEW d \in Deliveries PROVE AttemptsOf(d)'
  <2>1. CASE d \notin earned
    BY <1>1, <2>1, Untouched, SameAsked DEF AttemptsInv
  <2>2. CASE d \in earned
    <3>1. Senders(d)' = {}
      BY <1>1, <1>2, <2>2 DEF Senders
    <3>2. row'[d] = Queued /\ DueYet(d)' /\ ~AskedFor(d)'
      BY <1>1, <1>2, <2>2, SameAsked DEF DueYet, Queued
    <3>3. IsFiniteSet(Senders(d))' /\ Chances(d)' = 1
      BY <3>1, <3>2, FS_EmptySet DEF Chances, One
    <3>4. redone'[d] = 0 /\ row'[d].count = 0
      BY <1>1, <1>2, <2>2, <3>2 DEF Queued
    <3>5. \A v \in Couriers : flight'[v][d].step = "none" /\ flight'[v][d].loaded = Absent
      BY <1>1, <1>2, <2>2 DEF AttemptsInv, AttemptsOf
    <3>6. Chances(d)' <= redone'[d] + 1 /\ row'[d].count + Chances(d)' <= MAX_ATTEMPTS + redone'[d]
      BY <3>3, <3>4, CourierConstants
    <3>7. QED
      BY <3>3, <3>5, <3>6 DEF AttemptsOf
  <2>3. QED
    BY <2>1, <2>2
<1>4. QED
  BY <1>1, <1>3 DEF AttemptsInv

LEMMA ClaimAttempts ==
  ASSUME IInv, AttemptsInv, NEW c \in Couriers, NEW batch \in SUBSET Deliveries, Claim(c, batch)
  PROVE  AttemptsInv'
<1> DEFINE sending == [Grounded EXCEPT !.step = "sending"]
<1>1. /\ UNCHANGED <<asked, redone>>
      /\ \A h \in Hooks : {d \in batch : HookOf(d) = h} \subseteq Due(h)
      /\ row' = [d \in Deliveries |->
                   IF d \in batch THEN [row[d] EXCEPT !.next = "leased"] ELSE row[d]]
      /\ flight' = [flight EXCEPT ![c] = [d \in Deliveries |-> IF d \in batch THEN sending ELSE @[d]]]
  BY DEF Claim
<1>2. \A d \in batch : d \in Deliveries /\ row[d].next = "due"
  BY <1>1, DeliveryParts DEF Due
<1>3. sending.step = "sending" /\ sending.loaded = Absent
  BY DEF Grounded
<1> HIDE DEF sending
<1>4. \A v \in Couriers, d \in Deliveries :
         flight'[v][d] = IF v = c /\ d \in batch THEN sending ELSE flight[v][d]
  BY <1>1 DEF IInv, Typed
<1>5. ASSUME NEW d \in Deliveries PROVE AttemptsOf(d)'
  <2>1. CASE d \notin batch
    BY <1>1, <1>4, <2>1, Untouched, SameAsked DEF AttemptsInv
  <2>2. CASE d \in batch
    <3>1. AttemptsOf(d) /\ DueYet(d)
      BY <1>2, <2>2 DEF AttemptsInv, DueYet
    <3>2. row'[d].next = "leased" /\ row'[d].count = row[d].count
      BY <1>1, <2>2 DEF IInv, Typed, AnyRow
    <3>3. IsFiniteSet(Senders(d))' /\ Chances(d)' <= Chances(d)
      BY <1>1, <1>3, <1>4, <2>2, <3>1, <3>2, ClaimedChance, SameAsked
    <3>4. \A v \in Couriers :
             /\ flight'[v][d].step = "loaded" =>
                   flight[v][d].step = "loaded" /\ flight'[v][d].loaded = flight[v][d].loaded
             /\ flight'[v][d].step # "loaded" => flight'[v][d].loaded = Absent
      BY <1>3, <1>4, <3>1 DEF AttemptsOf
    <3>5. QED
      BY <1>1, <3>1, <3>2, <3>3, <3>4, NothingCounted
  <2>3. QED
    BY <2>1, <2>2
<1>6. QED
  BY <1>1, <1>5 DEF AttemptsInv

\* A send goes on, or comes down with nothing recorded.
LEMMA FlightAttempts ==
  ASSUME IInv, AttemptsInv, NEW c \in Couriers, NEW d \in Deliveries,
         Load(c, d) \/ FailRecord(c, d) \/ \E ok \in BOOLEAN : Answer(c, d, ok)
  PROVE  AttemptsInv'
<1> DEFINE f == flight'[c][d]
<1>1. /\ UNCHANGED <<row, asked, redone>>
      /\ flight[c][d].step \in {"sending", "landed", "loaded"}
      /\ flight[c][d] \in Flight
      /\ \A v \in Couriers, e \in Deliveries : v # c \/ e # d => flight'[v][e] = flight[v][e]
  BY DEF Load, FailRecord, Answer, IInv, Typed
<1>2. \/ f = Grounded
      \/ f.step = "loaded" /\ f.loaded = row[d] /\ flight[c][d].step = "landed"
      \/ f.step = "landed" /\ f.loaded = flight[c][d].loaded /\ flight[c][d].step = "sending"
  BY <1>1 DEF Load, FailRecord, Answer, IInv, Typed, Flight
<1>3. Grounded.step = "none" /\ Grounded.loaded = Absent
  BY DEF Grounded
<1> HIDE DEF f
<1>4. ASSUME NEW e \in Deliveries, e # d PROVE AttemptsOf(e)'
  BY <1>1, <1>4, Untouched, SameAsked DEF AttemptsInv
<1>5. AttemptsOf(d)'
  <2>1. AttemptsOf(d)
    BY DEF AttemptsInv
  <2>2. IsFiniteSet(Senders(d))' /\ Chances(d)' <= Chances(d)
    <3>1. CASE f = Grounded
      BY <1>1, <1>3, <2>1, <3>1, OneChanceFewer, SameAsked DEF f
    <3>2. CASE f.step \in {"landed", "loaded"}
      <4>1. \A v \in Couriers : flight'[v][d].step # "none" <=> flight[v][d].step # "none"
        BY <1>1, <3>2 DEF f
      <4>2. DueYet(d)' => DueYet(d)
        <5> SUFFICES ASSUME row[d].next = "leased", DueYet(d)' PROVE DueYet(d)
          BY <1>1 DEF DueYet
        <5>1. Stale(c, d)'
          BY <1>1, <3>2 DEF DueYet, f
        <5>2. f.step = "loaded" /\ f.loaded.next # "leased"
          BY <5>1 DEF Stale, f
        <5>3. QED
          BY <1>2, <1>3, <5>2
      <4>3. QED
        BY <1>1, <2>1, <4>1, <4>2, NoMoreChances, SameAsked
    <3>3. QED
      BY <1>2, <3>1, <3>2
  <2>3. \A v \in Couriers :
           /\ flight'[v][d].step = "loaded" =>
                 \/ flight[v][d].step = "loaded" /\ flight'[v][d].loaded = flight[v][d].loaded
                 \/ flight'[v][d].loaded = row[d]
           /\ flight'[v][d].step # "loaded" => flight'[v][d].loaded = Absent
    BY <1>1, <1>2, <1>3, <2>1 DEF AttemptsOf, f
  <2>4. QED
    BY <1>1, <2>1, <2>2, <2>3, NothingCounted
<1>6. QED
  BY <1>1, <1>4, <1>5 DEF AttemptsInv

\* What a recording makes of a row: a count read and one more, or none; and a
\* time the row did not have only if attempts are left.
LEMMA WrittenParts ==
  ASSUME NEW s \in AnyRow, NEW l \in AnyRow, NEW ok \in BOOLEAN
  PROVE  LET n == Attempted(l, ok)
             r == Written(s, l, n)
         IN  /\ r.count \in {s.count, l.count + 1}
             /\ \/ r.next = s.next /\ l.next \in {"none", "later"}
                \/ r.next = "none"
                \/ r.next = "later" /\ l.count + 1 < MAX_ATTEMPTS
<1> DEFINE n == Attempted(l, ok)
           r == Written(s, l, n)
<1>1. l.count \in Nat /\ MAX_ATTEMPTS \in Nat
  BY CourierConstants DEF AnyRow
<1>2. /\ n.count = l.count + 1
      /\ \/ n.next = "none"
         \/ n.next = "later" /\ l.count + 1 < MAX_ATTEMPTS
  BY <1>1 DEF Attempted
<1> HIDE DEF n
<1>3. /\ r.count = IF n.count = l.count THEN s.count ELSE n.count
      /\ r.next = IF n.next = l.next THEN s.next ELSE n.next
  BY DEF Written
<1> HIDE DEF r
<1>4. QED
  BY <1>2, <1>3 DEF n, r

LEMMA WriteAttempts ==
  ASSUME IInv, AttemptsInv, NEW c \in Couriers, NEW d \in Deliveries, Write(c, d)
  PROVE  AttemptsInv'
<1> DEFINE l == flight[c][d].loaded
<1>1. /\ UNCHANGED <<asked, redone>>
      /\ flight[c][d].step = "loaded" /\ flight[c][d] \in Flight /\ row[d] \in AnyRow
      /\ flight'[c][d] = Grounded
      /\ \A v \in Couriers, e \in Deliveries : v # c \/ e # d => flight'[v][e] = flight[v][e]
      /\ \A e \in Deliveries : e # d => row'[e] = row[e]
  BY DEF Write, IInv, Typed
<1>2. Grounded.step = "none" /\ Grounded.loaded = Absent
  BY DEF Grounded
<1>3. \/ row'[d] = row[d]
      \/ /\ row'[d].count \in {row[d].count, l.count + 1}
         /\ \/ row'[d].next = row[d].next /\ l.next \in {"none", "later"}
            \/ row'[d].next = "none"
            \/ row'[d].next = "later" /\ l.count + 1 < MAX_ATTEMPTS
  <2>1. CASE row[d].state = "absent"
    BY <2>1 DEF Write
  <2>2. CASE row[d].state # "absent"
    <3>1. row'[d] = Written(row[d], l, Attempted(l, flight[c][d].ok))
      BY <2>2 DEF Write, IInv, Typed
    <3>2. l \in AnyRow /\ flight[c][d].ok \in BOOLEAN
      BY <1>1 DEF Flight
    <3>3. QED
      BY <1>1, <3>1, <3>2, WrittenParts
  <2>3. QED
    BY <2>1, <2>2
<1>4. ASSUME NEW e \in Deliveries, e # d PROVE AttemptsOf(e)'
  BY <1>1, <1>4, Untouched, SameAsked DEF AttemptsInv
<1>5. AttemptsOf(d)'
  <2>1. AttemptsOf(d)
    BY DEF AttemptsInv
  <2>2. /\ IsFiniteSet(Senders(d))' /\ Chances(d)' <= Chances(d)
        /\ (DueYet(d)' => DueYet(d)) => Chances(d)' + 1 <= Chances(d)
    BY <1>1, <1>2, <2>1, OneChanceFewer, SameAsked
  <2>3. \A v \in Couriers :
           /\ flight'[v][d].step = "loaded" =>
                 flight[v][d].step = "loaded" /\ flight'[v][d].loaded = flight[v][d].loaded
           /\ flight'[v][d].step # "loaded" => flight'[v][d].loaded = Absent
    BY <1>1, <1>2, <2>1 DEF AttemptsOf
  <2>4. CASE row'[d].count = row[d].count
    BY <1>1, <2>1, <2>2, <2>3, <2>4, NothingCounted
  <2>5. CASE row'[d].count # row[d].count
    <3>1. row'[d].count = l.count + 1
      BY <1>3, <2>5
    <3>2. DueYet(d)' /\ ~DueYet(d) => l.count + 1 < MAX_ATTEMPTS
      <4> SUFFICES ASSUME DueYet(d)', ~DueYet(d),
                          row'[d].next = row[d].next, l.next \in {"none", "later"}
                   PROVE  FALSE
        BY <1>3, <2>5 DEF DueYet
      <4>1. Stale(c, d)
        BY <1>1 DEF Stale
      <4>2. \A v \in Couriers : v # c => (Stale(v, d)' <=> Stale(v, d))
        BY <1>1 DEF Stale
      <4>3. QED
        BY <1>1, <4>1, <4>2 DEF DueYet
    <3>3. PICK n \in Nat, nn \in Nat : n = Chances(d) /\ nn = Chances(d)'
      BY <2>1, <2>2, SumIsNat DEF AttemptsOf, Chances
    <3>4. PICK k \in Nat, m \in Nat, limit \in Nat \ {0} :
             k = l.count /\ m = redone[d] /\ limit = MAX_ATTEMPTS
      BY Numbers
    <3>5. n <= m + 1 /\ k + n <= limit + m
      BY <1>1, <2>1, <3>3, <3>4 DEF AttemptsOf
    <3>6. nn <= n /\ (nn + 1 <= n \/ k + 1 < limit)
      BY <2>2, <3>2, <3>3, <3>4
    <3>7. nn <= m + 1 /\ (k + 1) + nn <= limit + m
      BY <3>5, <3>6
    <3>8. \A r \in Nat : r + n <= limit + m => r + nn <= limit + m
      BY <3>6
    <3>9. \A v \in Couriers : flight'[v][d].step = "loaded"
             => flight'[v][d].loaded.count + nn <= limit + m
      BY <2>1, <2>3, <3>3, <3>4, <3>8, Numbers DEF AttemptsOf
    <3>10. QED
      BY <1>1, <2>2, <2>3, <3>1, <3>3, <3>4, <3>7, <3>9 DEF AttemptsOf
  <2>6. QED
    BY <2>4, <2>5
<1>6. QED
  BY <1>1, <1>4, <1>5 DEF AttemptsInv

LEMMA DueAttempts ==
  ASSUME IInv, AttemptsInv, NEW d \in Deliveries, LeaseEnds(d) \/ BackoffEnds(d)
  PROVE  AttemptsInv'
<1>1. /\ UNCHANGED <<flight, asked, redone>>
      /\ row' = [row EXCEPT ![d].next = "due"]
  BY DEF LeaseEnds, BackoffEnds
<1>2. row'[d].count = row[d].count /\ \A e \in Deliveries : e # d => row'[e] = row[e]
  BY <1>1 DEF IInv, Typed, AnyRow
<1>3. DueYet(d)
  BY DEF LeaseEnds, BackoffEnds, DueYet, Aloft
<1>4. ASSUME NEW e \in Deliveries, e # d PROVE AttemptsOf(e)'
  BY <1>1, <1>2, <1>4, Untouched, SameAsked DEF AttemptsInv
<1>5. AttemptsOf(d)'
  <2>1. AttemptsOf(d)
    BY DEF AttemptsInv
  <2>2. IsFiniteSet(Senders(d))' /\ Chances(d)' <= Chances(d)
    BY <1>1, <1>3, <2>1, NoMoreChances, SameAsked
  <2>3. QED
    BY <1>1, <1>2, <2>1, <2>2, NothingCounted DEF AttemptsOf
<1>6. QED
  BY <1>1, <1>4, <1>5 DEF AttemptsInv

LEMMA CrashAttempts ==
  ASSUME IInv, AttemptsInv, NEW c \in Couriers, Crash(c)
  PROVE  AttemptsInv'
<1>1. /\ UNCHANGED <<row, asked, redone>>
      /\ \A v \in Couriers, d \in Deliveries :
            flight'[v][d] = IF v = c THEN Grounded ELSE flight[v][d]
  BY DEF Crash, IInv, Typed
<1>2. Grounded.step = "none" /\ Grounded.loaded = Absent
  BY DEF Grounded
<1>3. ASSUME NEW d \in Deliveries PROVE AttemptsOf(d)'
  <2>1. AttemptsOf(d)
    BY DEF AttemptsInv
  <2>2. IsFiniteSet(Senders(d))' /\ Chances(d)' <= Chances(d)
    <3>1. CASE flight[c][d].step # "none"
      BY <1>1, <1>2, <2>1, <3>1, OneChanceFewer, SameAsked
    <3>2. CASE flight[c][d].step = "none"
      <4>1. \A v \in Couriers : flight'[v][d].step # "none" <=> flight[v][d].step # "none"
        BY <1>1, <1>2, <3>2
      <4>2. DueYet(d)' => DueYet(d)
        BY <1>1, <1>2, <3>2 DEF DueYet, Stale
      <4>3. QED
        BY <1>1, <2>1, <4>1, <4>2, NoMoreChances, SameAsked
    <3>3. QED
      BY <3>1, <3>2
  <2>3. \A v \in Couriers :
           /\ flight'[v][d].step = "loaded" =>
                 flight[v][d].step = "loaded" /\ flight'[v][d].loaded = flight[v][d].loaded
           /\ flight'[v][d].step # "loaded" => flight'[v][d].loaded = Absent
    BY <1>1, <1>2, <2>1 DEF AttemptsOf
  <2>4. QED
    BY <1>1, <2>1, <2>2, <2>3, NothingCounted
<1>4. QED
  BY <1>1, <1>3 DEF AttemptsInv

LEMMA AskAttempts ==
  ASSUME IInv, AttemptsInv, NEW d \in Deliveries, AskAgain(d)
  PROVE  AttemptsInv'
<1>1. /\ UNCHANGED <<row, flight>> /\ asked = None /\ redone[d] < MaxRedeliveries
      /\ asked' = [delivery |-> d, loaded |-> row[d]]
      /\ redone'[d] = redone[d] + 1 /\ \A e \in Deliveries : e # d => redone'[e] = redone[e]
  BY DEF AskAgain, IInv, Typed
<1>2. \A e \in Deliveries : ~AskedFor(e) /\ (e # d => ~AskedFor(e)')
  BY <1>1 DEF AskedFor
<1>3. ASSUME NEW e \in Deliveries, e # d PROVE AttemptsOf(e)'
  BY <1>1, <1>2, <1>3, Untouched DEF AttemptsInv
<1>4. AttemptsOf(d)'
  <2>1. AttemptsOf(d)
    BY DEF AttemptsInv
  <2>2. Senders(d)' = Senders(d) /\ (DueYet(d)' <=> DueYet(d))
    BY <1>1 DEF Senders, DueYet, Stale
  <2>3. PICK s \in Nat, p \in 0..1, q \in 0..1 :
           /\ s = Cardinality(Senders(d)) /\ p = One(DueYet(d)) /\ p = One(DueYet(d))'
           /\ q = One(AskedFor(d))'
    BY <2>1, <2>2, SumIsNat DEF AttemptsOf, One
  <2>4. One(AskedFor(d)) = 0
    BY <1>2 DEF One
  <2>5. Chances(d) = s + p + 0 /\ Chances(d)' = s + p + q
    BY <2>2, <2>3, <2>4 DEF Chances
  <2>6. IsFiniteSet(Senders(d))' /\ Chances(d)' <= Chances(d) + 1
    BY <2>1, <2>2, <2>5 DEF AttemptsOf
  <2>7. QED
    BY <1>1, <2>1, <2>6, NothingCounted DEF AttemptsOf
<1>5. asked'.loaded.count <= MAX_ATTEMPTS + MaxRedeliveries
  <2>1. asked'.loaded.count = row[d].count /\ AttemptsOf(d)
    BY <1>1 DEF AttemptsInv
  <2>2. PICK n \in Nat : n = Chances(d) /\ row[d].count + n <= MAX_ATTEMPTS + redone[d]
    BY <2>1, SumIsNat DEF AttemptsOf, Chances
  <2>3. QED
    BY <2>1, <2>2, Numbers
<1>6. QED
  BY <1>3, <1>4, <1>5 DEF AttemptsInv

LEMMA RequeueAttempts ==
  ASSUME IInv, AttemptsInv, Requeue
  PROVE  AttemptsInv'
<1> DEFINE d == asked.delivery
<1>1. asked # None /\ d \in Deliveries
  BY DEF Requeue, IInv, Typed
<1>2. PICK e \in Deliveries : e = d
  BY <1>1
<1>3. /\ UNCHANGED <<flight, redone>> /\ asked' = None
      /\ row'[e].count = row[e].count
      /\ \A x \in Deliveries : x # e => row'[x] = row[x]
  BY <1>1, <1>2 DEF Requeue, IInv, Typed, AnyRow
<1>4. AskedFor(e) /\ \A x \in Deliveries : ~AskedFor(x)' /\ (x # e => ~AskedFor(x))
  BY <1>1, <1>2, <1>3 DEF AskedFor
<1>5. ASSUME NEW x \in Deliveries, x # e PROVE AttemptsOf(x)'
  BY <1>3, <1>4, <1>5, Untouched DEF AttemptsInv
<1>6. AttemptsOf(e)'
  <2>1. AttemptsOf(e)
    BY DEF AttemptsInv
  <2>2. Senders(e)' = Senders(e)
    BY <1>3, SameSenders
  <2>3. PICK s \in Nat, p \in 0..1, pp \in 0..1 :
           s = Cardinality(Senders(e)) /\ p = One(DueYet(e)) /\ pp = One(DueYet(e))'
    BY <2>1, SumIsNat DEF AttemptsOf, One
  <2>4. One(AskedFor(e)) = 1 /\ One(AskedFor(e))' = 0
    BY <1>4 DEF One
  <2>5. Chances(e) = s + p + 1 /\ Chances(e)' = s + pp + 0
    BY <2>2, <2>3, <2>4 DEF Chances
  <2>6. IsFiniteSet(Senders(e))' /\ Chances(e)' <= Chances(e)
    BY <2>1, <2>2, <2>5 DEF AttemptsOf
  <2>7. QED
    BY <1>3, <2>1, <2>6, NothingCounted DEF AttemptsOf
<1>7. QED
  BY <1>3, <1>5, <1>6 DEF AttemptsInv

LEMMA InitAttempts == Init => AttemptsInv
<1> SUFFICES ASSUME Init PROVE AttemptsInv
  OBVIOUS
<1>1. asked = None /\ Grounded.step = "none" /\ Grounded.loaded = Absent /\ Absent.next = "none" /\ Absent.count = 0
  BY DEF Init, Grounded, Absent
<1>2. ASSUME NEW d \in Deliveries PROVE AttemptsOf(d)
  <2>1. Senders(d) = {} /\ ~DueYet(d) /\ ~AskedFor(d)
    BY <1>1 DEF Init, Senders, DueYet, AskedFor
  <2>2. Chances(d) = 0
    BY <2>1, FS_EmptySet DEF Chances, One
  <2>3. row[d].count = 0 /\ redone[d] = 0 /\ \A c \in Couriers : flight[c][d] = Grounded
    BY <1>1 DEF Init
  <2>4. 0 <= redone[d] + 1 /\ row[d].count + 0 <= MAX_ATTEMPTS + redone[d]
    BY <2>3, CourierConstants
  <2>5. QED
    BY <1>1, <2>1, <2>2, <2>3, <2>4, FS_EmptySet DEF AttemptsOf
<1>3. QED
  BY <1>1, <1>2 DEF AttemptsInv

LEMMA NextAttempts == IInv /\ AttemptsInv /\ [Next]_vars => AttemptsInv'
<1> SUFFICES ASSUME IInv, AttemptsInv, [Next]_vars PROVE AttemptsInv'
  OBVIOUS
<1>1. ASSUME NEW h \in Hooks, BeginHook(h) \/ CommitHook(h) \/ PauseEnds(h)
      PROVE  AttemptsInv'
  BY <1>1, AttemptsElsewhere DEF BeginHook, CommitHook, PauseEnds
<1>2. ASSUME NEW x \in Changes, Record(x) PROVE AttemptsInv'
  BY <1>2, AttemptsElsewhere DEF Record
<1>3. ASSUME NEW c \in Couriers, FailBatch(c) \/ \E batch \in SUBSET Changes : LockBatch(c, batch)
      PROVE  AttemptsInv'
  BY <1>3, AttemptsElsewhere DEF FailBatch, LockBatch
<1>4. ASSUME NEW c \in Couriers, CommitBatch(c) \/ SendDue(c) \/ Crash(c)
      PROVE  AttemptsInv'
  BY <1>4, CommitAttempts, ClaimAttempts, CrashAttempts DEF SendDue
<1>5. ASSUME NEW c \in Couriers, NEW d \in Deliveries, Deliver(c, d) \/ FailRecord(c, d)
      PROVE  AttemptsInv'
  BY <1>5, FlightAttempts, WriteAttempts DEF Deliver
<1>6. ASSUME NEW d \in Deliveries, LeaseEnds(d) \/ BackoffEnds(d) \/ AskAgain(d)
      PROVE  AttemptsInv'
  BY <1>6, DueAttempts, AskAttempts
<1>7. CASE UNCHANGED vars
  BY <1>7, AttemptsElsewhere DEF vars
<1>8. QED
  BY <1>1, <1>2, <1>3, <1>4, <1>5, <1>6, <1>7, DeleteAttempts, RequeueAttempts DEF Next, Match

\* So no count exceeds what the row may hold.
LEMMA CountsFit ==
  ASSUME IInv, AttemptsInv
  PROVE  TypeOK /\ \A d \in Deliveries : row[d].count <= MAX_ATTEMPTS + redone[d]
<1>1. MAX_ATTEMPTS \in Nat \ {0} /\ MaxRedeliveries \in Nat
  BY CourierConstants
<1>2. ASSUME NEW d \in Deliveries
      PROVE  /\ row[d].count <= MAX_ATTEMPTS + redone[d]
             /\ row[d].count <= MAX_ATTEMPTS + MaxRedeliveries
             /\ \A c \in Couriers : flight[c][d].loaded.count <= MAX_ATTEMPTS + MaxRedeliveries
  <2>1. PICK n \in Nat :
           /\ row[d].count + n <= MAX_ATTEMPTS + redone[d]
           /\ \A c \in Couriers : \/ flight[c][d].loaded.count + n <= MAX_ATTEMPTS + redone[d]
                                  \/ flight[c][d].loaded = Absent
    BY SumIsNat DEF AttemptsInv, AttemptsOf, Chances
  <2>2. Absent.count = 0
    BY DEF Absent
  <2>3. QED
    BY <2>1, <2>2, Numbers
<1>3. \A r \in AnyRow : r.count <= MAX_ATTEMPTS + MaxRedeliveries => r \in Row
  BY <1>1 DEF AnyRow, Row
<1>4. row \in [Deliveries -> Row]
  BY <1>2, <1>3 DEF IInv, Typed
<1>5. ASSUME NEW c \in Couriers, NEW d \in Deliveries
      PROVE  flight[c][d] \in [step : {"none", "sending", "landed", "loaded"}, ok : BOOLEAN, loaded : Row]
  <2>1. flight[c][d] \in Flight
    BY DEF IInv, Typed
  <2>2. flight[c][d].loaded \in Row
    BY <1>2, <1>3, <2>1 DEF Flight
  <2>3. QED
    BY <2>1, <2>2 DEF Flight
<1>6. flight \in [Couriers -> [Deliveries ->
                    [step : {"none", "sending", "landed", "loaded"}, ok : BOOLEAN, loaded : Row]]]
  <2>1. flight \in [Couriers -> [Deliveries -> Flight]]
    BY DEF IInv, Typed
  <2>2. \A c \in Couriers : flight[c] \in [Deliveries ->
                    [step : {"none", "sending", "landed", "loaded"}, ok : BOOLEAN, loaded : Row]]
    BY <1>5, <2>1
  <2>3. QED
    BY <2>1, <2>2
<1>7. asked \in [delivery : Deliveries, loaded : Row] \cup {None}
  BY <1>3 DEF IInv, Typed, AttemptsInv
<1>8. QED
  BY <1>2, <1>4, <1>6, <1>7 DEF TypeOK, IInv, Typed, Hook

-----------------------------------------------------------------------------
\* The parts above hold in every state.
THEOREM Invariant == Spec => [](IInv /\ AttemptsInv)
BY InitInv, NextInv, InitAttempts, NextAttempts, PTL DEF Spec

\* Every variable keeps its type; a delivery is never counted for more than
\* MAX_ATTEMPTS attempts and one for each time somebody asked for it again, be
\* the recordings as stale as they like (record, and requeue).
THEOREM TypeCorrect == Spec => []TypeOK
<1>1. IInv /\ AttemptsInv => TypeOK
  BY CountsFit
<1>2. QED
  BY Invariant, <1>1, PTL

\* However late a recording reads and writes, the count on a delivery's row does
\* not pass MAX_ATTEMPTS and one for each time somebody asked for it again
\* (record, _claim and requeue).  A send whose courier died, or whose recording
\* failed, is in no count.
THEOREM AttemptsAreBounded ==
  Spec => [](\A d \in Deliveries : row[d].count <= MAX_ATTEMPTS + redone[d])
<1>1. IInv /\ AttemptsInv => \A d \in Deliveries : row[d].count <= MAX_ATTEMPTS + redone[d]
  BY CountsFit
<1>2. QED
  BY Invariant, <1>1, PTL

\* A change that was recorded while a hook was there is marked until it is
\* queued for that hook, and then it was queued once (matching.py).
THEOREM NothingIsLost == Spec => []NothingLost
<1>1. IInv => NothingLost
  BY DEF IInv
<1>2. QED
  BY Invariant, <1>1, PTL

\* However many couriers match, and however their passes fail, no change is
\* queued twice for a hook, nor for one that was not there to hear it
\* (match_pending).
THEOREM QueuesOnce == Spec => []QueuedOnce
<1>1. IInv => QueuedOnce
  BY DEF IInv
<1>2. QED
  BY Invariant, <1>1, PTL

\* Until somebody asks for a delivery again, no two couriers have it in hand at
\* once, from the claim to the recording (_claim's lease).
THEOREM SendsOnceAtATime == Spec => []SentOnceAtATime
<1>1. IInv => SentOnceAtATime
  BY DEF IInv
<1>2. QED
  BY Invariant, <1>1, PTL

=============================================================================
