---------------------------- MODULE HookCourier ----------------------------
(***************************************************************************)
(* Changes on their way to hooks' URLs.  A write marks its change in its   *)
(* own transaction; a courier matches marked changes against the project's *)
(* hooks, queueing a delivery per match, then claims, sends and records    *)
(* each.  Every process runs a courier.  Time is abstract: a lease, a      *)
(* back-off and a pause each end at some moment.                           *)
(***************************************************************************)
EXTENDS Naturals, FiniteSets

CONSTANTS
    Changes,            \* changes on the project, recorded once each
    Hooks,              \* hooks on it that match every change
    Couriers,           \* processes, each running one courier
    None,
    MAX_ATTEMPTS,
    PER_HOOK,
    CONCURRENCY,
    BREAKER_THRESHOLD,
    MaxRedeliveries,    \* bound: how often somebody asks for one delivery again
    Resendable          \* bound: the changes whose deliveries are asked for again

ASSUME CourierConstants ==
    /\ {MAX_ATTEMPTS, PER_HOOK, CONCURRENCY, BREAKER_THRESHOLD} \subseteq Nat \ {0}
    /\ MaxRedeliveries \in Nat /\ Resendable \subseteq Changes
    /\ None \notin Changes \X Hooks

Deliveries == Changes \X Hooks
HookOf(d) == d[2]

VARIABLES
    change,    \* change -> not yet made, marked for the hooks, or matched
    heard,     \* change -> each hook's stage when it was made
    matching,  \* courier -> the marked changes it holds locked
    hook,      \* hook -> its stage, failures in a row, and whether it is paused
    row,       \* delivery -> its row
    copies,    \* delivery -> how many rows were ever queued for it
    flight,    \* courier -> delivery -> how far its send has got
    asked,     \* the redelivery being asked for, as it was loaded, or None
    redone     \* delivery -> how often it was asked for again

vars == <<change, heard, matching, hook, row, copies, flight, asked, redone>>

Stages == {"none", "begun", "made", "deleted"}
Absent == [state |-> "absent", count |-> 0, next |-> "none"]
Queued == [state |-> "pending", count |-> 0, next |-> "due"]
Grounded == [step |-> "none", ok |-> FALSE, loaded |-> Absent]

InFlight(c) == {d \in Deliveries : flight[c][d].step # "none"}
Aloft(d) == \E c \in Couriers : flight[c][d].step # "none"

-----------------------------------------------------------------------------
(* Hooks and changes.                                                       *)

\* A hook is created in a transaction whose start is its created_at.
BeginHook(h) ==
    /\ hook[h].stage = "none"
    /\ hook' = [hook EXCEPT ![h].stage = "begun"]
    /\ UNCHANGED <<change, heard, matching, row, copies, flight, asked, redone>>

CommitHook(h) ==
    /\ hook[h].stage = "begun"
    /\ hook' = [hook EXCEPT ![h].stage = "made"]
    /\ UNCHANGED <<change, heard, matching, row, copies, flight, asked, redone>>

\* Its deliveries go with it, by cascade.
DeleteHook(h) ==
    /\ hook[h].stage = "made"
    /\ hook' = [hook EXCEPT ![h].stage = "deleted"]
    /\ row' = [d \in Deliveries |-> IF HookOf(d) = h THEN Absent ELSE row[d]]
    /\ UNCHANGED <<change, heard, matching, copies, flight, asked, redone>>

\* A write that commits, with its mark.
Record(x) ==
    /\ change[x] = "none"
    /\ change' = [change EXCEPT ![x] = "marked"]
    /\ heard' = [heard EXCEPT ![x] = [h \in Hooks |-> hook[h].stage]]
    /\ UNCHANGED <<matching, hook, row, copies, flight, asked, redone>>

-----------------------------------------------------------------------------
(* Matching.                                                                *)

\* A mutant: a batch is read without being locked.
LockBatchOfAll(c, batch) ==
    /\ matching[c] = {} /\ batch # {}
    /\ batch \subseteq {x \in Changes : change[x] = "marked"}
    /\ matching' = [matching EXCEPT ![c] = batch]
    /\ UNCHANGED <<change, heard, hook, row, copies, flight, asked, redone>>

\* FOR UPDATE SKIP LOCKED, up to a batch.
LockBatch(c, batch) ==
    /\ matching[c] = {} /\ batch # {}
    /\ batch \subseteq {x \in Changes : change[x] = "marked"} \ UNION {matching[v] : v \in Couriers}
    /\ matching' = [matching EXCEPT ![c] = batch]
    /\ UNCHANGED <<change, heard, hook, row, copies, flight, asked, redone>>

\* Hooks created no later than the change, and still there to be read.
Listening(x, h) == heard[x][h] \in {"begun", "made"} /\ hook[h].stage = "made"

\* Queue what each change earned and clear the marks, in one commit.
CommitBatch(c) ==
    LET earned == {d \in Deliveries : d[1] \in matching[c] /\ Listening(d[1], HookOf(d))} IN
    /\ matching[c] # {}
    /\ row' = [d \in Deliveries |-> IF d \in earned THEN Queued ELSE row[d]]
    /\ copies' = [d \in Deliveries |-> IF d \in earned THEN copies[d] + 1 ELSE copies[d]]
    /\ change' = [x \in Changes |-> IF x \in matching[c] THEN "matched" ELSE change[x]]
    /\ matching' = [matching EXCEPT ![c] = {}]
    /\ UNCHANGED <<heard, hook, flight, asked, redone>>

\* A mutant: the marks are cleared when the batch is taken, so a pass that
\* fails has already let go of them.
FailBatchCleared(c) ==
    /\ matching[c] # {}
    /\ change' = [x \in Changes |-> IF x \in matching[c] THEN "matched" ELSE change[x]]
    /\ matching' = [matching EXCEPT ![c] = {}]
    /\ UNCHANGED <<heard, hook, row, copies, flight, asked, redone>>

\* A pass that fails leaves the changes marked.
FailBatch(c) ==
    /\ matching[c] # {}
    /\ matching' = [matching EXCEPT ![c] = {}]
    /\ UNCHANGED <<change, heard, hook, row, copies, flight, asked, redone>>

-----------------------------------------------------------------------------
(* Sending.                                                                 *)

Due(h) == {d \in Deliveries : HookOf(d) = h /\ row[d].state = "pending" /\ row[d].next = "due"}
Failing(h) == hook[h].failures >= BREAKER_THRESHOLD
Busy(c, h) == \E d \in InFlight(c) : HookOf(d) = h

\* How many of a hook's deliveries one pass of a courier may take.
Allowed(c, h) ==
    IF hook[h].paused \/ Busy(c, h) THEN 0 ELSE IF Failing(h) THEN 1 ELSE PER_HOOK

\* A mutant: the rows taken are not leased.
ClaimUnleased(c, batch) ==
    /\ batch # {} /\ \A h \in Hooks : {d \in batch : HookOf(d) = h} \subseteq Due(h)
    /\ Cardinality(batch \cup InFlight(c)) <= CONCURRENCY
    /\ \A h \in Hooks : Cardinality({d \in batch : HookOf(d) = h}) <= Allowed(c, h)
    /\ flight' = [flight EXCEPT ![c] = [d \in Deliveries |->
                    IF d \in batch THEN [Grounded EXCEPT !.step = "sending"] ELSE @[d]]]
    /\ UNCHANGED <<change, heard, matching, hook, row, copies, asked, redone>>

\* Lease due rows, skipping any that another pass has locked.
Claim(c, batch) ==
    /\ batch # {} /\ \A h \in Hooks : {d \in batch : HookOf(d) = h} \subseteq Due(h)
    /\ Cardinality(batch \cup InFlight(c)) <= CONCURRENCY
    /\ \A h \in Hooks : Cardinality({d \in batch : HookOf(d) = h}) <= Allowed(c, h)
    /\ row' = [d \in Deliveries |->
                 IF d \in batch THEN [row[d] EXCEPT !.next = "leased"] ELSE row[d]]
    /\ flight' = [flight EXCEPT ![c] = [d \in Deliveries |->
                    IF d \in batch THEN [Grounded EXCEPT !.step = "sending"] ELSE @[d]]]
    /\ UNCHANGED <<change, heard, matching, hook, copies, asked, redone>>

\* The receiver answers 2xx or it does not; an answer that is lost is an attempt
\* that failed, whether or not the receiver took the delivery.
Answer(c, d, ok) ==
    /\ flight[c][d].step = "sending"
    /\ flight' = [flight EXCEPT ![c][d].step = "landed", ![c][d].ok = ok]
    /\ UNCHANGED <<change, heard, matching, hook, row, copies, asked, redone>>

\* The row as the recording transaction reads it, without a lock.  One whose
\* hook is gone is dropped.
Load(c, d) ==
    /\ flight[c][d].step = "landed"
    /\ flight' = IF row[d].state = "absent" THEN [flight EXCEPT ![c][d] = Grounded]
                 ELSE [flight EXCEPT ![c][d].step = "loaded", ![c][d].loaded = row[d]]
    /\ UNCHANGED <<change, heard, matching, hook, row, copies, asked, redone>>

\* A mutant: no attempt is the last.
AttemptedForever(r, ok) ==
    LET count == r.count + 1 IN
    IF ok THEN [state |-> "delivered", count |-> count, next |-> "none"]
    ELSE [state |-> "pending", count |-> count, next |-> "later"]

\* A mutant: a refusal with attempts left is given no time to try again.
AttemptedOnce(r, ok) ==
    LET count == r.count + 1 IN
    IF ok THEN [state |-> "delivered", count |-> count, next |-> "none"]
    ELSE IF count >= MAX_ATTEMPTS
    THEN [state |-> "failed", count |-> count, next |-> "none"]
    ELSE [state |-> "pending", count |-> count, next |-> "none"]

\* record: what one more attempt makes of a row.
Attempted(r, ok) ==
    LET count == r.count + 1 IN
    IF ok THEN [state |-> "delivered", count |-> count, next |-> "none"]
    ELSE IF count >= MAX_ATTEMPTS
    THEN [state |-> "failed", count |-> count, next |-> "none"]
    ELSE [state |-> "pending", count |-> count, next |-> "later"]

\* A session writes the columns whose value it changed, and no others.
Written(r, loaded, new) ==
    [state |-> IF new.state = loaded.state THEN r.state ELSE new.state,
     count |-> IF new.count = loaded.count THEN r.count ELSE new.count,
     next  |-> IF new.next = loaded.next THEN r.next ELSE new.next]

\* _count: the breaker, bumped where it is rather than read and written back.
Counted(k, ok) ==
    IF ok THEN IF k.failures > 0 THEN [k EXCEPT !.failures = 0, !.paused = FALSE] ELSE k
    ELSE LET failures == IF k.failures < BREAKER_THRESHOLD THEN k.failures + 1
                         ELSE BREAKER_THRESHOLD   \* the doubling is not modelled
         IN  [k EXCEPT !.failures = failures,
                       !.paused = @ \/ failures >= BREAKER_THRESHOLD]

\* The recording transaction commits.  It writes nothing to a row that has
\* gone since, and fails.
Write(c, d) ==
    LET f == flight[c][d]
        h == HookOf(d)
    IN
    /\ f.step = "loaded"
    /\ row' = IF row[d].state = "absent" THEN row
              ELSE [row EXCEPT ![d] = Written(@, f.loaded, Attempted(f.loaded, f.ok))]
    /\ hook' = IF row[d].state = "absent" THEN hook
               ELSE [hook EXCEPT ![h] = Counted(@, f.ok)]
    /\ flight' = [flight EXCEPT ![c][d] = Grounded]
    /\ UNCHANGED <<change, heard, matching, copies, asked, redone>>

\* The recording fails: a statement that timed out, a connection lost.
FailRecord(c, d) ==
    /\ flight[c][d].step \in {"landed", "loaded"}
    /\ flight' = [flight EXCEPT ![c][d] = Grounded]
    /\ UNCHANGED <<change, heard, matching, hook, row, copies, asked, redone>>

\* Leases outlast TOTAL_TIMEOUT and the recording after it, so one ends only
\* when nothing is left to record: its courier died, or its recording failed.
LeaseEnds(d) ==
    /\ row[d].next = "leased" /\ ~Aloft(d)
    /\ row' = [row EXCEPT ![d].next = "due"]
    /\ UNCHANGED <<change, heard, matching, hook, copies, flight, asked, redone>>

BackoffEnds(d) ==
    /\ row[d].next = "later"
    /\ row' = [row EXCEPT ![d].next = "due"]
    /\ UNCHANGED <<change, heard, matching, hook, copies, flight, asked, redone>>

\* BREAKER_PAUSE outlasts them too: nothing sent before a pause is in the air at
\* its end.
PauseEnds(h) ==
    /\ hook[h].paused /\ \A c \in Couriers : ~Busy(c, h)
    /\ hook' = [hook EXCEPT ![h].paused = FALSE]
    /\ UNCHANGED <<change, heard, matching, row, copies, flight, asked, redone>>

\* A courier stops, or its process does: what it was sending keeps its lease,
\* and the receiver may have taken any of it.
Crash(c) ==
    /\ InFlight(c) # {} \/ matching[c] # {}
    /\ flight' = [flight EXCEPT ![c] = [d \in Deliveries |-> Grounded]]
    /\ matching' = [matching EXCEPT ![c] = {}]
    /\ UNCHANGED <<change, heard, hook, row, copies, asked, redone>>

-----------------------------------------------------------------------------
(* Asking for a delivery to be sent again: loaded, then written.            *)

AskAgain(d) ==
    /\ asked = None /\ row[d].state # "absent"
    /\ d[1] \in Resendable /\ redone[d] < MaxRedeliveries
    /\ asked' = [delivery |-> d, loaded |-> row[d]]
    /\ redone' = [redone EXCEPT ![d] = @ + 1]
    /\ UNCHANGED <<change, heard, matching, hook, row, copies, flight>>

\* requeue.  The time it writes is one no row holds yet.
Requeue ==
    /\ asked # None
    /\ LET d == asked.delivery IN
       row' = IF row[d].state = "absent" THEN row
              ELSE [row EXCEPT ![d].next = "due",
                               ![d].state = IF asked.loaded.state = "pending" THEN @
                                            ELSE "pending"]
    /\ asked' = None
    /\ UNCHANGED <<change, heard, matching, hook, copies, flight, redone>>

-----------------------------------------------------------------------------
Init ==
    /\ change = [x \in Changes |-> "none"]
    /\ heard = [x \in Changes |-> [h \in Hooks |-> "none"]]
    /\ matching = [c \in Couriers |-> {}]
    /\ hook = [h \in Hooks |-> [stage |-> "none", failures |-> 0, paused |-> FALSE]]
    /\ row = [d \in Deliveries |-> Absent]
    /\ copies = [d \in Deliveries |-> 0]
    /\ flight = [c \in Couriers |-> [d \in Deliveries |-> Grounded]]
    /\ asked = None
    /\ redone = [d \in Deliveries |-> 0]

Match(c) == (\E batch \in SUBSET Changes : LockBatch(c, batch)) \/ CommitBatch(c)
SendDue(c) == \E batch \in SUBSET Deliveries : Claim(c, batch)
Deliver(c, d) ==
    (\E ok \in BOOLEAN : Answer(c, d, ok)) \/ Load(c, d) \/ Write(c, d)

Next ==
    \/ \E h \in Hooks : BeginHook(h) \/ CommitHook(h) \/ DeleteHook(h) \/ PauseEnds(h)
    \/ \E x \in Changes : Record(x)
    \/ \E c \in Couriers :
          \/ Match(c) \/ FailBatch(c) \/ SendDue(c) \/ Crash(c)
          \/ \E d \in Deliveries : Deliver(c, d) \/ FailRecord(c, d)
    \/ \E d \in Deliveries : LeaseEnds(d) \/ BackoffEnds(d) \/ AskAgain(d)
    \/ Requeue

Spec == Init /\ [][Next]_vars

\* A courier's loop outlives a bad pass, sends end within TOTAL_TIMEOUT, and
\* time passes.  Not every pass fails, and processes do not crash for ever.
Fairness ==
    /\ SF_vars(\E c \in Couriers : Match(c))
    /\ SF_vars(\E c \in Couriers : SendDue(c))
    /\ \A d \in Deliveries : WF_vars(\E c \in Couriers : Deliver(c, d))
    /\ WF_vars(\E d \in Deliveries : LeaseEnds(d) \/ BackoffEnds(d))
    /\ \A h \in Hooks : WF_vars(PauseEnds(h))
    /\ WF_vars(Requeue)
    /\ <>[][\A c \in Couriers : /\ ~FailBatch(c) /\ ~Crash(c)
                                /\ \A d \in Deliveries : ~FailRecord(c, d)]_vars

FairSpec == Spec /\ Fairness

-----------------------------------------------------------------------------
(* Properties.                                                              *)

Row == [state : {"absent", "pending", "delivered", "failed"},
        count : 0..(MAX_ATTEMPTS + MaxRedeliveries),
        next : {"none", "due", "leased", "later"}]

TypeOK ==
    /\ change \in [Changes -> {"none", "marked", "matched"}]
    /\ heard \in [Changes -> [Hooks -> Stages]]
    /\ matching \in [Couriers -> SUBSET Changes]
    /\ hook \in [Hooks -> [stage : Stages, failures : 0..BREAKER_THRESHOLD, paused : BOOLEAN]]
    /\ row \in [Deliveries -> Row]
    /\ copies \in [Deliveries -> Nat]
    /\ flight \in [Couriers -> [Deliveries ->
                     [step : {"none", "sending", "landed", "loaded"}, ok : BOOLEAN, loaded : Row]]]
    /\ asked \in [delivery : Deliveries, loaded : Row] \cup {None}
    /\ redone \in [Deliveries -> 0..MaxRedeliveries]

\* A change that committed while a hook was there is never lost: it is marked
\* still or was queued for it, once (matching.py, on_recorded and
\* match_pending).
NothingLost ==
    \A d \in Deliveries :
        heard[d[1]][HookOf(d)] = "made" /\ hook[HookOf(d)].stage = "made"
            => change[d[1]] = "marked" \/ copies[d] = 1

\* However many couriers match, a change is queued once for each hook, and not
\* at all for one that did not exist when it was made.
QueuedOnce ==
    \A d \in Deliveries :
        copies[d] <= IF heard[d[1]][HookOf(d)] \in {"begun", "made"} THEN 1 ELSE 0

\* Two sends of one delivery are in the air only when somebody asked for
\* another: otherwise the lease keeps every other pass off it (LEASE).
SentOnceAtATime ==
    \A d \in Deliveries, c, v \in Couriers :
        c # v /\ flight[c][d].step # "none" /\ flight[v][d].step # "none" => redone[d] > 0

\* Every delivery comes to an end: taken, given up, or gone with its hook.
EveryDeliveryEnds ==
    \A d \in Deliveries : row[d].state = "pending" ~> row[d].state # "pending"
=============================================================================
